-------------------------- MODULE MultiDelete_proof --------------------------
(***************************************************************************)
(* Proofs about MultiDelete, for any number of keys.                       *)
(*                                                                         *)
(* What the result says of the keys only follows from where the job is     *)
(* while it runs: of the keys before the one of mJob exactly those are     *)
(* left whose deletion was canceled, no sub-job but that of mJob runs,     *)
(* none behind it was started, and mIt points to that key until            *)
(* slotCancel() moves it to the end (Sequential).                          *)
(***************************************************************************)
EXTENDS MultiDelete, TLAPS

\* Until it is started, the job has done nothing.
Untouched ==
  /\ total = 0 /\ mIt = 1 /\ mJob = 0 /\ deleted = {} /\ ~cancelled
  /\ \A i \in Positions : sub[i] = "fresh"

\* While the job runs, it works on one key after the other.
Sequential ==
  /\ mJob \in 0..total
  /\ total > 0 => mJob > 0
  /\ \A i \in Positions : sub[i] = "running" => i = mJob
  /\ \A i \in Positions : i > mJob => sub[i] = "fresh"
  /\ deleted = IF total = 0 THEN {} ELSE (1..(mJob - 1)) \ PassedOver
  /\ mIt = IF cancelled \/ total = 0 THEN total + 1 ELSE mJob

IInv ==
  /\ TypeOK
  /\ state = "fresh" => Untouched
  /\ state = "running" => Sequential
  /\ \A i \in Positions : sub[i] \in {"fresh", "running"} => subReport[i] = {}
  /\ state \in {"failed", "reported", "deleted"} => \A i \in Positions : sub[i] # "running"
  /\ state \in {"fresh", "running", "failed"} => report = NoReport
  /\ state = "reported" => report.err \in Results
  /\ ReportIsTrue

------------------------------------------------------------------------------
\* One key more than the first i - 1.
LEMMA FirstKeys ==
  ASSUME NEW i \in Nat \ {0}
  PROVE  (i + 1) - 1 = i /\ 1..i = 1..(i - 1) \cup {i}
<1>1. (i + 1) - 1 = i
  OBVIOUS
<1>2. \A k \in 1..i : k \in 1..(i - 1) \cup {i}
  OBVIOUS
<1>3. \A k \in 1..(i - 1) \cup {i} : k \in 1..i
  OBVIOUS
<1>4. QED
  BY <1>1, <1>2, <1>3

\* The initial state.
LEMMA InitIInv == Init => IInv
<1> SUFFICES ASSUME Init PROVE IInv
  OBVIOUS
<1> USE KeysAssumption
<1>1. SubJob!TypeOK
  BY DEF Init, SubJob!Init, SubJob!TypeOK, SubJob!Phases
<1>2. NoReport \in [err : Results \cup {"none"}, key : 0..MaxKeys]
  BY DEF NoReport, NoKey, Results
<1>3. TypeOK
  <2>1. 0 \in 0..MaxKeys /\ 1 \in 1..(MaxKeys + 1)
    OBVIOUS
  <2>2. QED
    BY <1>1, <1>2, <2>1 DEF Init, TypeOK
<1>4. QED
  BY <1>3 DEF Init, IInv, Untouched, ReportIsTrue, ErrorKeyIsTheFailedOne, ResultIsTheLastOne,
              SubJob!Init

\* A step of one sub-job keeps the types of the sub-jobs' state.
LEMMA SubJobTypes ==
  ASSUME SubJob!TypeOK, NEW i \in Positions,
         \/ SubJob!Start(i) \/ SubJob!Discard(i) \/ SubJob!Vanish(i)
         \/ \E r \in Results : SubJob!Report(i, r)
  PROVE  SubJob!TypeOK'
  BY DEF SubJob!TypeOK, SubJob!Phases, SubJob!Start, SubJob!Discard, SubJob!Vanish,
         SubJob!Report, SubJob!Move

\* Only while the job runs does a sub-job report, and it is the one of mJob. Until
\* slotCancel(), mIt is at its key.
LEMMA ResultComesFromMJob ==
  ASSUME IInv, NEW i \in Positions, sub[i] = "running"
  PROVE  /\ state = "running" /\ i = mJob
         /\ total \in Nat /\ i \in 1..total
         /\ deleted = (1..(i - 1)) \ PassedOver
         /\ subReport[i] = {}
         /\ \A k \in Positions : (sub[k] = "running" => k = i) /\ (k > i => sub[k] = "fresh")
         /\ mIt = IF cancelled THEN total + 1 ELSE i
<1>1. state = "running" /\ total \in Nat
  BY KeysAssumption DEF IInv, TypeOK, Untouched
<1>2. Sequential
  BY <1>1 DEF IInv
<1>3. subReport[i] = {}
  BY DEF IInv
<1>4. QED
  BY <1>1, <1>2, <1>3, KeysAssumption DEF Sequential, Positions

\* What one more result does to the keys that are deleted and to those passed over.
LEMMA KeyDone ==
  ASSUME SubJob!TypeOK, NEW i \in Positions, NEW r \in Results,
         subReport[i] = {}, subReport' = [subReport EXCEPT ![i] = {r}],
         deleted = (1..(i - 1)) \ PassedOver,
         deleted' = IF r = "ok" THEN deleted \cup {i} ELSE deleted
  PROVE  /\ i \in PassedOver' <=> r = "canceled"
         /\ deleted' = (IF IsError(r) THEN 1..(i - 1) ELSE 1..i) \ PassedOver'
<1>1. subReport'[i] = {r} /\ \A k \in Positions : k # i => subReport'[k] = subReport[k]
  BY DEF SubJob!TypeOK
<1>2. \A k : k \in PassedOver' <=> (k \in PassedOver \/ (k = i /\ r = "canceled"))
  BY <1>1 DEF PassedOver
<1>3. i \notin PassedOver
  BY DEF PassedOver
<1>4. 1..i = 1..(i - 1) \cup {i} /\ i \notin 1..(i - 1)
  BY FirstKeys, KeysAssumption DEF Positions
<1>5. QED
  BY <1>2, <1>3, <1>4 DEF Results, IsError

\* A sub-job is started when a job is started on a key, or when the one before
\* it succeeded; both do what the invariant says.
LEMMA StartKeepsIInv == IInv /\ Start => IInv'
<1> SUFFICES ASSUME IInv, Start PROVE IInv'
  OBVIOUS
<1> USE KeysAssumption
<1>1. TypeOK /\ Untouched /\ state = "fresh" /\ SubJob!TypeOK
  BY DEF IInv, Start, TypeOK
<1>2. PICK n \in 0..MaxKeys, started \in BOOLEAN :
        /\ total' = n /\ mIt' = 1
        /\ StartAJob(1, n, started)
        /\ state' = IF started THEN "running" ELSE "failed"
  BY DEF Start
<1>3. /\ UNCHANGED <<deleted, cancelled, progress, report>>
      /\ deleted = {} /\ ~cancelled /\ report = NoReport
  BY <1>1 DEF Start, Untouched, IInv
<1>4. CASE n = 0
  <2>1. started /\ state' = "running" /\ UNCHANGED <<mJob, subVars, looping>>
    BY <1>2, <1>4 DEF StartAJob, AtEnd
  <2>2. TypeOK'
    BY <1>1, <1>2, <1>3, <1>4, <2>1 DEF TypeOK, SubJob!TypeOK, subVars
  <2>3. Sequential'
    BY <1>1, <1>2, <1>3, <1>4, <2>1 DEF Untouched, Sequential, subVars
  <2>4. QED
    BY <1>3, <2>1, <2>2, <2>3
       DEF subVars, IInv, ReportIsTrue, ErrorKeyIsTheFailedOne, ResultIsTheLastOne
<1>5. CASE n > 0
  <2>1. /\ 1 \in Positions
        /\ mJob' = 1 /\ looping' = looping /\ subReport' = subReport
        /\ sub' = [sub EXCEPT ![1] = IF started THEN "running" ELSE "gone"]
    BY <1>1, <1>2, <1>5 DEF StartAJob, AtEnd, SubJob!Start, SubJob!Discard, SubJob!Move, Positions
  <2>2. TypeOK'
    BY <1>1, <1>2, <1>3, <1>5, <2>1 DEF TypeOK, SubJob!TypeOK, SubJob!Phases
  <2>3. \A i \in Positions : sub'[i] = "running" => i = 1 /\ started
    BY <1>1, <2>1 DEF Untouched, SubJob!TypeOK
  <2>4. \A i \in Positions : i > 1 => sub'[i] = "fresh"
    BY <1>1, <2>1 DEF Untouched, SubJob!TypeOK, Positions
  <2>5. \A i \in Positions : sub'[i] \in {"fresh", "running"} => subReport'[i] = {}
    BY <1>1, <2>1 DEF IInv, Untouched
  <2>6. started => Sequential'
    BY <1>2, <1>3, <1>5, <2>1, <2>3, <2>4 DEF Sequential
  <2>7. QED
    BY <1>2, <1>3, <2>2, <2>3, <2>5, <2>6
       DEF IInv, ReportIsTrue, ErrorKeyIsTheFailedOne, ResultIsTheLastOne
<1>6. QED
  BY <1>2, <1>4, <1>5

\* A cancel only moves mIt to the end; this is what slotCancel() does, also when
\* the application quits.
LEMMA CancelKeepsIInv ==
  ASSUME IInv, SlotCancel \/ AboutToQuit
  PROVE  IInv'
<1> USE KeysAssumption
<1>1. /\ UNCHANGED <<state, total, mJob, deleted, progress, report, sub, subReport>>
      /\ mIt' = IF state # "deleted" THEN total + 1 ELSE mIt
      /\ cancelled' = (cancelled \/ state = "running")
      /\ looping' \in BOOLEAN
  <2>1. CASE SlotCancel
    BY <2>1 DEF SlotCancel, subVars, IInv, TypeOK, SubJob!TypeOK
  <2>2. CASE AboutToQuit
    BY <2>2 DEF AboutToQuit, SubJob!EndLoop
  <2>3. QED
    BY <2>1, <2>2
<1>2. TypeOK'
  BY <1>1 DEF IInv, TypeOK, SubJob!TypeOK
<1>3. state = "fresh" => Untouched'
  <2>1. state = "fresh" => ~cancelled'
    BY <1>1 DEF IInv, Untouched
  <2>2. state = "fresh" => mIt' = 1
    BY <1>1 DEF IInv, Untouched
  <2>3. QED
    BY <1>1, <2>1, <2>2 DEF IInv, Untouched
<1>4. state = "running" => Sequential'
  BY <1>1 DEF IInv, Sequential, PassedOver
<1>5. ReportIsTrue'
  BY <1>1 DEF IInv, ReportIsTrue, ErrorKeyIsTheFailedOne, ResultIsTheLastOne, PassedOver
<1>6. QED
  BY <1>1, <1>2, <1>3, <1>4, <1>5 DEF IInv

\* After an error, at the end of the keys or after a cancel, the report is true.
LEMMA LastKeepsIInv == IInv /\ SlotResultLast => IInv'
<1> SUFFICES ASSUME IInv, SlotResultLast PROVE IInv'
  OBVIOUS
<1> USE KeysAssumption
<1>1. PICK i \in Positions, r \in Results :
        /\ SubResult(i, r)
        /\ mJob' = 0 /\ mIt' = NextIt(r) /\ IsLast(r) /\ Finish(r, mIt')
        /\ UNCHANGED <<total, cancelled>>
  BY DEF SlotResultLast
<1>2. /\ state = "running" /\ total \in Nat /\ i \in 1..total /\ sub[i] = "running"
      /\ deleted = (1..(i - 1)) \ PassedOver /\ subReport[i] = {}
      /\ \A k \in Positions : (sub[k] = "running" => k = i) /\ (k > i => sub[k] = "fresh")
      /\ mIt = IF cancelled THEN total + 1 ELSE i
  <2>1. sub[i] = "running"
    BY <1>1 DEF SubResult, SubJob!Report, SubJob!Move
  <2>2. QED
    BY <2>1, ResultComesFromMJob
<1>3. /\ sub' = [sub EXCEPT ![i] = "reported"] /\ subReport' = [subReport EXCEPT ![i] = {r}]
      /\ SubJob!TypeOK /\ SubJob!TypeOK'
  BY <1>1, SubJobTypes DEF SubResult, SubJob!Report, SubJob!Move, IInv, TypeOK
<1>4. \A k \in Positions : sub'[k] # "running" /\ (k > i => sub'[k] = "fresh")
  BY <1>2, <1>3 DEF SubJob!TypeOK, Positions
<1>5. \A k \in Positions : sub'[k] \in {"fresh", "running"} => subReport'[k] = {}
  BY <1>2, <1>3 DEF IInv, SubJob!TypeOK
<1>6. /\ IsError(r) => mIt' = mIt
      /\ ~IsError(r) => mIt' = total + 1
      /\ ~IsError(r) /\ ~cancelled => i = total
  BY <1>1, <1>2 DEF NextIt, IsLast, AtEnd
<1>7. /\ state' = "reported" /\ progress' = progress
      /\ report' = [err |-> r, key |-> IF IsError(r) /\ ~cancelled THEN i ELSE 0]
  BY <1>1, <1>2, <1>6 DEF Finish, AtEnd, NoKey
<1>8. deleted' = (IF IsError(r) THEN 1..(i - 1) ELSE 1..i) \ PassedOver' /\ (i \in PassedOver' <=> r = "canceled")
  BY <1>1, <1>2, <1>3, KeyDone DEF SubResult
<1>9. report' \in [err : Results \cup {"none"}, key : 0..MaxKeys]
  BY <1>2, <1>7 DEF IInv, TypeOK
<1>10. TypeOK'
  <2>1. total \in 0..MaxKeys /\ mIt' \in 1..(MaxKeys + 1) /\ deleted' \subseteq Positions
    BY <1>2, <1>6, <1>8 DEF IInv, TypeOK, Positions
  <2>2. QED
    BY <1>1, <1>3, <1>7, <1>9, <2>1 DEF IInv, TypeOK
<1>11. ErrorKeyIsTheFailedOne'
  BY <1>4, <1>7, <1>8 DEF ErrorKeyIsTheFailedOne, NoKey, IsError
<1>12. ResultIsTheLastOne'
  <2> SUFFICES ASSUME report'.key = 0
               PROVE  \E last \in 1..total :
                        /\ ~cancelled => last = total
                        /\ subReport'[last] = {report'.err}
                        /\ \A k \in Positions : k > last => sub'[k] = "fresh"
                        /\ deleted' = {k \in 1..last : k \notin PassedOver' /\ (k = last => ~IsError(report'.err))}
    BY <1>1 DEF ResultIsTheLastOne, NoKey
  <2>1. ~cancelled => i = total
    BY <1>2, <1>6, <1>7
  <2>2. subReport'[i] = {report'.err}
    BY <1>3, <1>7 DEF SubJob!TypeOK
  <2>3. deleted' = {k \in 1..i : k \notin PassedOver' /\ (k = i => ~IsError(report'.err))}
    <3>1. 1..i = 1..(i - 1) \cup {i} /\ i \notin 1..(i - 1)
      BY <1>2, FirstKeys
    <3>2. report'.err = r
      BY <1>7
    <3>3. QED
      BY <1>8, <3>1, <3>2
  <2>4. QED
    BY <1>2, <1>4, <2>1, <2>2, <2>3
<1>13. QED
  BY <1>1, <1>4, <1>5, <1>7, <1>10, <1>11, <1>12 DEF IInv, ReportIsTrue

\* As long as sub-jobs succeed, the job goes on with the next key; a sub-job that
\* cannot be started is the failed one.
LEMMA NextKeepsIInv == IInv /\ SlotResultNext => IInv'
<1> SUFFICES ASSUME IInv, SlotResultNext PROVE IInv'
  OBVIOUS
<1> USE KeysAssumption
<1>1. PICK i \in Positions, r \in Results :
        /\ sub[i] = "running" /\ looping /\ ~IsError(r)
        /\ ~AtEnd(mIt, total) /\ ~AtEnd(mIt + 1, total)
        /\ mIt' = mIt + 1 /\ mJob' = mIt' /\ deleted' = IF r = "ok" THEN deleted \cup {i} ELSE deleted
        /\ subReport' = [subReport EXCEPT ![i] = {r}]
        /\ \/ /\ sub' = [sub EXCEPT ![i] = "reported", ![mIt'] = "running"]
              /\ progress' = progress + 1
              /\ UNCHANGED <<state, report>>
           \/ /\ sub' = [sub EXCEPT ![i] = "reported", ![mIt'] = "gone"]
              /\ Finish("error", mIt')
        /\ UNCHANGED <<total, cancelled, looping>>
  BY DEF SlotResultNext
<1>2. /\ state = "running" /\ total \in 0..MaxKeys /\ i \in 1..total
      /\ deleted = (1..(i - 1)) \ PassedOver /\ subReport[i] = {} /\ ~cancelled /\ mIt = i
      /\ \A k \in Positions : (sub[k] = "running" => k = i) /\ (k > i => sub[k] = "fresh")
  BY <1>1, ResultComesFromMJob DEF AtEnd, IInv, TypeOK
<1>3. /\ i + 1 \in Positions /\ i + 1 <= total /\ mIt' = i + 1 /\ mJob' = i + 1
      /\ (i + 1) - 1 = i
  BY <1>1, <1>2, FirstKeys DEF AtEnd, Positions
<1>4. SubJob!TypeOK
  BY DEF IInv, TypeOK
<1>5. deleted' = (1..i) \ PassedOver'
  BY <1>1, <1>2, <1>4, KeyDone
<1>6. /\ SubJob!TypeOK'
      /\ \A k \in Positions : sub'[k] = "running" => k = i + 1 /\ sub'[i + 1] = "running"
      /\ \A k \in Positions : k > i + 1 => sub'[k] = "fresh"
  BY <1>1, <1>2, <1>3, <1>4 DEF SubJob!TypeOK, SubJob!Phases, Positions
<1>7. \A k \in Positions : sub'[k] \in {"fresh", "running"} => subReport'[k] = {}
  <2>1. \A k \in Positions : sub[k] \in {"fresh", "running"} => subReport[k] = {}
    BY DEF IInv
  <2>2. sub[i + 1] = "fresh" /\ i + 1 # i
    BY <1>2, <1>3 DEF Positions
  <2>3. QED
    BY <1>1, <1>3, <1>4, <2>1, <2>2 DEF SubJob!TypeOK
<1>8. CASE /\ sub' = [sub EXCEPT ![i] = "reported", ![mIt'] = "running"]
           /\ progress' = progress + 1
           /\ UNCHANGED <<state, report>>
  <2>1. TypeOK'
    BY <1>1, <1>2, <1>3, <1>5, <1>6, <1>8 DEF IInv, TypeOK, Positions
  <2>2. Sequential'
    <3>1. i + 1 \in 0..total /\ total > 0
      BY <1>2, <1>3 DEF Positions
    <3>2. total' = total /\ ~cancelled' /\ total' # 0
      BY <1>1, <1>2, <3>1
    <3>3. deleted' = (1..(mJob' - 1)) \ PassedOver'
      BY <1>3, <1>5
    <3>4. mJob' \in 0..total' /\ mJob' > 0 /\ mIt' = mJob'
      BY <1>2, <1>3, <3>1, <3>2
    <3>5. \A k \in Positions : (sub'[k] = "running" => k = mJob') /\ (k > mJob' => sub'[k] = "fresh")
      BY <1>3, <1>6
    <3>6. deleted' = IF total' = 0 THEN {} ELSE (1..(mJob' - 1)) \ PassedOver'
      BY <3>2, <3>3
    <3>7. mIt' = IF cancelled' \/ total' = 0 THEN total' + 1 ELSE mJob'
      BY <3>2, <3>4
    <3>8. QED
      BY <3>4, <3>5, <3>6, <3>7, Zenon DEF Sequential
  <2>3. QED
    BY <1>2, <1>7, <1>8, <2>1, <2>2
       DEF IInv, ReportIsTrue, ErrorKeyIsTheFailedOne, ResultIsTheLastOne
<1>9. CASE /\ sub' = [sub EXCEPT ![i] = "reported", ![mIt'] = "gone"]
           /\ Finish("error", mIt')
  <2>1. /\ state' = "reported" /\ progress' = progress
        /\ report' = [err |-> "error", key |-> i + 1]
    BY <1>1, <1>2, <1>3, <1>9 DEF Finish, AtEnd, IsError
  <2>2. TypeOK'
    BY <1>1, <1>2, <1>3, <1>5, <1>6, <2>1 DEF IInv, TypeOK, Positions, Results
  <2>3. \A k \in Positions : sub'[k] # "running"
    BY <1>3, <1>4, <1>6, <1>9 DEF SubJob!TypeOK
  <2>4. ReportIsTrue'
    <3>1. report'.key # 0
      BY <1>2, <2>1
    <3>2. QED
      BY <1>3, <1>5, <1>6, <2>1, <3>1 DEF ReportIsTrue, ErrorKeyIsTheFailedOne, ResultIsTheLastOne, NoKey
  <2>5. QED
    BY <1>7, <2>1, <2>2, <2>3, <2>4 DEF IInv, Results
<1>10. QED
  BY <1>1, <1>8, <1>9

\* Every step keeps the invariant.
LEMMA NextIInv == IInv /\ [Next]_vars => IInv'
<1> SUFFICES ASSUME IInv, [Next]_vars PROVE IInv'
  OBVIOUS
<1>1. CASE SubJobDeleted
  <2>1. PICK i \in Positions : SubJob!Vanish(i)
    BY <1>1 DEF SubJobDeleted
  <2>2. UNCHANGED <<state, total, mIt, mJob, deleted, cancelled, progress, report>>
    BY <1>1 DEF SubJobDeleted
  <2>3. SubJob!TypeOK /\ SubJob!TypeOK'
    BY <2>1, SubJobTypes DEF IInv, TypeOK
  <2>4. TypeOK'
    BY <2>2, <2>3 DEF IInv, TypeOK
  <2>5. /\ sub[i] = "reported" /\ subReport' = subReport
        /\ \A k \in Positions : (sub'[k] = "running" <=> sub[k] = "running") /\ (sub'[k] = "fresh" <=> sub[k] = "fresh")
    BY <2>1, <2>3 DEF SubJob!Vanish, SubJob!Move, SubJob!TypeOK
  <2>6. state # "fresh" /\ PassedOver' = PassedOver
    BY <2>5 DEF IInv, Untouched, PassedOver
  <2>7. ReportIsTrue'
    BY <2>2, <2>5, <2>6 DEF IInv, ReportIsTrue, ErrorKeyIsTheFailedOne, ResultIsTheLastOne
  <2>8. state = "running" => Sequential'
    BY <2>2, <2>5, <2>6 DEF IInv, Sequential
  <2>9. QED
    BY <2>2, <2>4, <2>5, <2>6, <2>7, <2>8 DEF IInv
<1>2. CASE DeferredDelete
  <2>1. TypeOK'
    BY <1>2 DEF DeferredDelete, IInv, TypeOK, SubJob!TypeOK, subVars
  <2>2. QED
    BY <1>2, <2>1 DEF DeferredDelete, IInv, ReportIsTrue, ErrorKeyIsTheFailedOne,
                      ResultIsTheLastOne, subVars
<1>3. CASE UNCHANGED vars
  BY <1>3 DEF vars, subVars, IInv, TypeOK, SubJob!TypeOK, Untouched, Sequential, ReportIsTrue,
              ErrorKeyIsTheFailedOne, ResultIsTheLastOne, PassedOver
<1>4. QED
  BY <1>1, <1>2, <1>3, StartKeepsIInv, CancelKeepsIInv, LastKeepsIInv, NextKeepsIInv
     DEF Next, EventStep

\* The invariant holds in every state of every behaviour of the job.
THEOREM InductiveInvariant == Spec => []IInv
<1>1. IInv /\ [Next]_vars => IInv'
  BY NextIInv
<1>2. QED
  BY InitIInv, <1>1, PTL DEF Spec

\* The variables have their types.
THEOREM TypeCorrect == Spec => []TypeOK
<1>1. IInv => TypeOK
  BY DEF IInv
<1>2. QED
  BY InductiveInvariant, <1>1, PTL

\* The key that the result names is the one that failed, all keys before are gone or their
\* deletion was canceled, and a result without a key is that of the last one, however many
\* keys there are.
THEOREM ReportTrue == Spec => []ReportIsTrue
<1>1. IInv => ReportIsTrue
  BY DEF IInv
<1>2. QED
  BY InductiveInvariant, <1>1, PTL

------------------------------------------------------------------------------
(* What the job does as a whole.                                           *)

\* Once the job is canceled no sub-job is started any more: the next key is only
\* taken while mIt has not been moved to the end.
THEOREM NoStartAfterCancel == Spec => NothingStartedAfterCancel
<1>1. ASSUME IInv, [Next]_vars, cancelled, NEW i \in Positions, sub'[i] = "running"
      PROVE  sub[i] = "running"
  <2> USE KeysAssumption
  <2>0. SubJob!TypeOK
    BY <1>1 DEF IInv, TypeOK
  <2>1. CASE Start
    BY <1>1, <2>1 DEF Start, IInv, Untouched
  <2>2. CASE SlotCancel \/ UNCHANGED vars
    BY <1>1, <2>2 DEF SlotCancel, vars, subVars
  <2>3. CASE AboutToQuit
    BY <1>1, <2>3 DEF AboutToQuit, SubJob!EndLoop
  <2>4. CASE SlotResultLast
    <3>1. PICK k \in Positions, r \in Results : SubResult(k, r)
      BY <2>4 DEF SlotResultLast
    <3>2. QED
      BY <1>1, <2>0, <3>1 DEF SubResult, SubJob!Report, SubJob!Move, SubJob!TypeOK
  <2>5. CASE SlotResultNext
    <3>1. PICK k \in Positions : sub[k] = "running" /\ ~AtEnd(mIt, total)
      BY <2>5 DEF SlotResultNext
    <3>2. mIt = total + 1 /\ total \in Nat
      BY <1>1, <3>1, ResultComesFromMJob
    <3>3. QED
      BY <3>1, <3>2 DEF AtEnd
  <2>6. CASE SubJobDeleted
    BY <1>1, <2>0, <2>6 DEF SubJobDeleted, SubJob!Vanish, SubJob!Move, SubJob!TypeOK
  <2>7. CASE DeferredDelete
    BY <1>1, <2>7 DEF DeferredDelete, subVars
  <2>8. QED
    BY <1>1, <2>1, <2>2, <2>3, <2>4, <2>5, <2>6, <2>7 DEF Next, EventStep
<1>2. IInv /\ [Next]_vars =>
        [cancelled => \A i \in Positions : sub'[i] = "running" => sub[i] = "running"]_vars
  BY <1>1
<1>3. QED
  BY <1>2, InductiveInvariant, PTL DEF Spec, NothingStartedAfterCancel

\* A step that the contract does not see.
LEMMA Unseen ==
  ASSUME UNCHANGED <<state, report, progress, looping>>
  PROVE  UNCHANGED Contract!vars
  BY DEF Contract!vars

\* Every step of the job is one that the contract of a single job allows: it is
\* started once, announces progress while it runs, reports one result while the
\* event loop runs, and is deleted after that, or unstarted.
LEMMA StepIsContract ==
  ASSUME IInv, [Next]_vars
  PROVE  [Contract!Next]_Contract!vars
<1>1. CASE Start
  <2>1. /\ state = "fresh" /\ state' \in {"running", "failed"}
        /\ UNCHANGED <<report, progress, looping>>
    BY <1>1 DEF Start, StartAJob, SubJob!Start, SubJob!Discard, subVars
  <2>2. CASE state' = "running"
    <3>1. Contract!Start("multi")
      BY <2>1, <2>2 DEF Contract!Start, Contract!Move
    <3>2. QED
      BY <3>1 DEF Contract!Next
  <2>3. CASE state' = "failed"
    BY <2>1, <2>3 DEF Contract!vars
  <2>4. QED
    BY <2>1, <2>2, <2>3
<1>2. CASE SlotCancel
  BY <1>2, Unseen DEF SlotCancel
<1>3. CASE AboutToQuit
  <2>1. Contract!EndLoop
    BY <1>3 DEF AboutToQuit, SubJob!EndLoop, Contract!EndLoop
  <2>2. QED
    BY <2>1 DEF Contract!Next
<1>4. CASE SlotResultLast
  <2>1. PICK i \in Positions, r \in Results : SubResult(i, r) /\ Finish(r, mIt')
    BY <1>4 DEF SlotResultLast
  <2>2. state = "running" /\ looping /\ looping' = looping
    BY <2>1, ResultComesFromMJob DEF SubResult, SubJob!Report, SubJob!Move
  <2>3. report = NoReport /\ report'.err = r /\ state' = "reported" /\ progress' = progress
    BY <2>1, <2>2 DEF IInv, Finish
  <2>4. Contract!Report("multi", r)
    BY <2>2, <2>3 DEF Contract!Report, Contract!Move, Results
  <2>5. QED
    BY <2>4 DEF Contract!Next
<1>5. CASE SlotResultNext
  <2>1. PICK i \in Positions : sub[i] = "running"
    BY <1>5 DEF SlotResultNext
  <2>2. state = "running" /\ looping /\ looping' = looping /\ report = NoReport
    BY <1>5, <2>1, ResultComesFromMJob DEF SlotResultNext, IInv
  <2>3. CASE progress' = progress + 1 /\ UNCHANGED <<state, report>>
    <3>1. Contract!Announce("multi")
      BY <2>2, <2>3 DEF Contract!Announce
    <3>2. QED
      BY <3>1 DEF Contract!Next
  <2>4. CASE Finish("error", mIt')
    <3>1. report'.err = "error" /\ state' = "reported" /\ progress' = progress
      BY <2>4 DEF Finish
    <3>2. Contract!Report("multi", "error")
      BY <2>2, <3>1 DEF Contract!Report, Contract!Move
    <3>3. QED
      BY <3>2 DEF Contract!Next, Results
  <2>5. QED
    BY <1>5, <2>3, <2>4 DEF SlotResultNext
<1>6. CASE SubJobDeleted
  BY <1>6, Unseen DEF SubJobDeleted, SubJob!Vanish
<1>7. CASE DeferredDelete
  <2>1. UNCHANGED <<report, progress, looping>>
    BY <1>7 DEF DeferredDelete
  <2>2. CASE state = "reported"
    <3>1. Contract!Vanish("multi")
      BY <1>7, <2>1, <2>2 DEF DeferredDelete, Contract!Vanish, Contract!Move
    <3>2. QED
      BY <3>1 DEF Contract!Next
  <2>3. CASE state = "failed"
    <3>1. Contract!Discard("multi")
      BY <1>7, <2>1, <2>3 DEF DeferredDelete, Contract!Discard
    <3>2. QED
      BY <3>1 DEF Contract!Next
  <2>4. QED
    BY <1>7, <2>2, <2>3 DEF DeferredDelete
<1>8. CASE UNCHANGED vars
  BY <1>8, Unseen DEF vars
<1>9. QED
  BY <1>1, <1>2, <1>3, <1>4, <1>5, <1>6, <1>7, <1>8 DEF Next, EventStep

\* The bundle of jobs is itself a job as job.h describes it: whatever the sub-jobs
\* do, the owner sees one start, one result and one deletion.
THEOREM Refinement == Spec => KeepsContract
<1>1. Init => Contract!Init
  BY DEF Init, SubJob!Init, Contract!Init, NoReport
<1>2. IInv /\ [Next]_vars => [Contract!Next]_Contract!vars
  BY StepIsContract
<1>3. QED
  BY <1>1, <1>2, InductiveInvariant, PTL DEF Spec, KeepsContract, Contract!Spec
==============================================================================
