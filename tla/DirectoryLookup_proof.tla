------------------------ MODULE DirectoryLookup_proof ------------------------
(***************************************************************************)
(* Proofs about DirectoryLookup, for any lookups, any number of tries and  *)
(* answers of any length.                                                  *)
(*                                                                         *)
(* The properties are about the end of a lookup, and rest on what is true  *)
(* of it on the way (LookupInv): whether dirmngr was wanted is only asked  *)
(* until it is launched, and a lookup that is about to return without an   *)
(* error, which a cancel is not, has just got the answer to its command,   *)
(* or what there was of it. What is found in the lines of that answer is   *)
(* proved of one line after the other (Found).                             *)
(***************************************************************************)
EXTENDS DirectoryLookup, WellFoundedInduction, TLAPS

Connecting == {"fresh", "connect", "readGpg", "readGpgsm", "spawn"}

\* The command of the lookup was answered, or cancelled.
Answered(l) ==
  /\ Succeeded(l)
  /\ answer[l].key \in BOOLEAN
  /\ l \in AdLookups => answer[l].key = FALSE
  /\ answer[l].lines \in Seq(LineKinds)
  /\ l \in WkdLookups => answer[l].lines = <<>>

\* What ResultIsTheAnswer says of one lookup.
ResultFits(l) ==
  /\ result[l].err # "canceled"
  /\ result[l].err = "ok" <=> Succeeded(l)
  /\ IF result[l].err = "ok"
     THEN /\ keyData(result[l]) = answer[l].key
          /\ l \in WkdLookups => pattern(result[l]) = l
          /\ isNull(result[l]) <=> l \in AdLookups /\ answer[l].lines = <<>>
     ELSE ~keyData(result[l]) /\ attributes(result[l]) = <<>>

\* What AttributesAreWhole is about: a result without an error has the attributes
\* that were found in the lines of the answer.
AttributesFit(l) ==
  result[l].err = "ok" =>
    /\ answer[l].lines \in Seq(LineKinds)
    /\ attributes(result[l]) =
         IF answer[l].lines = <<>> THEN <<>> ELSE parse_query_result(answer[l].lines)

LookupInv(l) ==
  /\ pc[l] \in Connecting => tries[l] = 0
  /\ pc[l] = "wait" => tries[l] < MaxTries
  /\ pc[l] \notin {"fresh", "done"} /\ ~DisabledFor(l, disabled) => l \in wanted
  /\ pc[l] = "readGpgsm" => l \in AdLookups
  /\ pc[l] = "spawn" => l \in wanted
  /\ l \in launched => l \in wanted
  /\ pc[l] \notin {"return", "done"} => ~Succeeded(l)
  /\ pc[l] = "return" => IF IsError(err[l]) THEN ~Succeeded(l) ELSE Answered(l)
  /\ pc[l] = "done" => ResultFits(l) /\ AttributesFit(l)

IInv ==
  /\ TypeOK
  /\ DOMAIN answer = Lookups /\ DOMAIN result = Lookups
  /\ \A l \in Lookups : LookupInv(l)

------------------------------------------------------------------------------
\* An answer to the command of a lookup, and no answer at all.
LEMMA Answer ==
  ASSUME NEW l \in Lookups, NEW a \in (IF l \in WkdLookups THEN WkdAnswers ELSE AdAnswers)
  PROVE  /\ a.command = CommandOf(l)
         /\ a.code \in Codes \ {"NO_DIRMNGR", "CONNECT_FAILED"}
         /\ a.key \in BOOLEAN
         /\ l \in AdLookups => a.key = FALSE
         /\ a.lines \in Seq(LineKinds)
         /\ l \in WkdLookups => a.lines = <<>>
<1>0. /\ <<>> \in Seq(LineKinds) /\ <<"attribute">> \in Seq(LineKinds)
      /\ \A lines \in Answers : lines \in Seq(LineKinds)
  BY BoundsAssumption DEF Answers, LineKinds
<1>1. CASE l \in WkdLookups
  <2>1. a \in WkdAnswers /\ l \notin AdLookups
    BY <1>1, LookupsAssumption
  <2>2. QED
    BY <1>0, <1>1, <2>1 DEF WkdAnswers, CommandOf, Codes
<1>2. CASE l \notin WkdLookups
  <2>1. a \in AdAnswers
    BY <1>2
  <2>2. QED
    BY <1>0, <1>2, <2>1 DEF AdAnswers, CommandOf, Codes
<1>3. QED
  BY <1>1, <1>2

\* What a WKD lookup returns, and what an AD query returns.
LEMMA Results ==
  ASSUME NEW email, NEW key, NEW list, NEW code
  PROVE  /\ WKDLookupResult(email, key, code).err = code
         /\ keyData(WKDLookupResult(email, key, code)) = key
         /\ pattern(WKDLookupResult(email, key, code)) = email
         /\ attributes(WKDLookupResult(email, key, code)) = <<>>
         /\ isNull(WKDLookupResult(email, key, code)) = FALSE
         /\ ADQueryResult(list, code).err = code
         /\ keyData(ADQueryResult(list, code)) = FALSE
         /\ attributes(ADQueryResult(list, code)) = list
         /\ isNull(ADQueryResult(list, code)) = FALSE
  BY DEF WKDLookupResult, ADQueryResult, keyData, pattern, isNull, attributes

\* The lookup goes on with the next step or returns with an error, never with neither.
LEMMA GoesOn ==
  ASSUME TypeOK, NEW l \in Lookups, NEW code \in Codes, NEW next \in PCs, GoOn(l, code, next)
  PROVE  /\ pc' \in [Lookups -> PCs] /\ err' \in [Lookups -> Codes]
         /\ err'[l] = code /\ pc'[l] = IF IsError(code) THEN "return" ELSE next
         /\ \A k \in Lookups \ {l} : pc'[k] = pc[k] /\ err'[k] = err[k]
  BY DEF GoOn, TypeOK, PCs

\* The first transaction of a lookup, that dirmngr answers or not.
LEMMA Info ==
  ASSUME NEW l \in Lookups, DOMAIN answer = Lookups, NEW code \in InfoCodes, GetInfo(l, code)
  PROVE  /\ code \in Codes /\ DOMAIN answer' = Lookups
         /\ answer'[l].code = code /\ ~Succeeded(l)'
         /\ \A k \in Lookups \ {l} : answer'[k] = answer[k]
  BY DEF GetInfo, InfoCodes, Codes, NoAnswer, Succeeded, CommandOf

\* Every lookup keeps what the invariant says of it while nothing of it changes,
\* as long as more is wanted and nobody else launches in its name.
LEMMA SameLookup ==
  ASSUME NEW k \in Lookups, LookupInv(k),
         pc'[k] = pc[k], tries'[k] = tries[k], answer'[k] = answer[k], err'[k] = err[k],
         result'[k] = result[k],
         k \in launched' => k \in launched, k \in wanted => k \in wanted',
         disabled' = disabled \/ (pc[k] \notin {"fresh", "done"} /\ ~DisabledFor(k, disabled')
                                    => k \in wanted')
  PROVE  LookupInv(k)'
  BY DEF LookupInv, Answered, ResultFits, AttributesFit, Succeeded, CommandOf, Connecting

\* A lookup's steps are its own.
LEMMA OthersUntouched ==
  ASSUME IInv, NEW l \in Lookups, Start(l) \/ WorkerStep(l), NEW k \in Lookups \ {l}
  PROVE  /\ pc'[k] = pc[k] /\ tries'[k] = tries[k] /\ answer'[k] = answer[k]
         /\ err'[k] = err[k] /\ result'[k] = result[k]
         /\ k \in launched' <=> k \in launched
         /\ k \in wanted' <=> k \in wanted
         /\ disabled' = disabled
<1> USE DEF IInv, TypeOK, GoOn, GetInfo
<1>1. CASE Start(l)
  BY <1>1 DEF Start
<1>2. CASE Connect(l) \/ ReadGpgOption(l) \/ ReadGpgsmOption(l)
  BY <1>2 DEF Connect, ReadGpgOption, ReadGpgsmOption
<1>3. CASE Spawn(l) \/ WaitAndTry(l)
  BY <1>3 DEF Spawn, WaitAndTry
<1>4. CASE Query(l)
  BY <1>4 DEF Query
<1>5. CASE Return(l)
  BY <1>5 DEF Return
<1>6. QED
  BY <1>1, <1>2, <1>3, <1>4, <1>5 DEF WorkerStep

------------------------------------------------------------------------------
(* The steps of a lookup.                                                  *)

\* The next lemmas say of each step of a lookup that it keeps the types and what
\* the invariant says of that lookup.
LEMMA StartKeeps ==
  ASSUME IInv, NEW l \in Lookups, Start(l)
  PROVE  TypeOK' /\ DOMAIN answer' = Lookups /\ DOMAIN result' = Lookups /\ LookupInv(l)'
<1> USE DEF IInv, TypeOK, Start
<1>1. TypeOK'
  BY DEF PCs
<1>2. LookupInv(l)'
  BY DEF LookupInv, Connecting, DisabledFor, Succeeded, CommandOf
<1>3. QED
  BY <1>1, <1>2

\* An option that does not disable dirmngr is why a lookup may launch it.
LEMMA ConnectKeeps ==
  ASSUME IInv, NEW l \in Lookups, Connect(l) \/ ReadGpgOption(l) \/ ReadGpgsmOption(l)
  PROVE  TypeOK' /\ DOMAIN answer' = Lookups /\ DOMAIN result' = Lookups /\ LookupInv(l)'
<1>0. TypeOK /\ DOMAIN answer = Lookups /\ DOMAIN result = Lookups /\ LookupInv(l)
  BY DEF IInv
<1>1. UNCHANGED <<tries, result, dirmngr, disabled, launched, wanted>>
  BY DEF Connect, ReadGpgOption, ReadGpgsmOption
<1>2. pc[l] \in {"connect", "readGpg", "readGpgsm"} /\ tries[l] = 0 /\ ~Succeeded(l)
  BY <1>0 DEF Connect, ReadGpgOption, ReadGpgsmOption, LookupInv, Connecting
<1> DEFINE GoesOnRight ==
             /\ pc' \in [Lookups -> PCs] /\ err' \in [Lookups -> Codes]
             /\ DOMAIN answer' = Lookups /\ \A k \in Lookups : answer'[k].code \in Codes
             /\ pc'[l] \in {"readGpg", "readGpgsm", "spawn", "query", "return"}
             /\ pc'[l] = "readGpgsm" => l \in AdLookups
             /\ pc'[l] = "spawn" => ~DisabledFor(l, disabled)
             /\ pc'[l] = "return" => IsError(err'[l])
             /\ ~Succeeded(l)'
<1>3. GoesOnRight
  <2> USE DEF PCs, Codes, IsError
  <2>0. UNCHANGED answer => ~Succeeded(l)'
    BY <1>2 DEF Succeeded, CommandOf
  <2>1. CASE Connect(l)
    <3>1. CASE GoOn(l, "error", "query") /\ UNCHANGED answer
      BY <1>0, <2>0, <3>1, GoesOn DEF TypeOK
    <3>2. ASSUME NEW code \in InfoCodes, GetInfo(l, code),
                 IF code = "CONNECT_FAILED"
                 THEN pc' = [pc EXCEPT ![l] = "readGpg"] /\ UNCHANGED err
                 ELSE GoOn(l, code, "query")
          PROVE  GoesOnRight
      <4>1. /\ code \in Codes /\ DOMAIN answer' = Lookups
            /\ (\A k \in Lookups : answer'[k].code \in Codes) /\ ~Succeeded(l)'
        BY <1>0, <3>2, Info DEF TypeOK
      <4>2. QED
        BY <1>0, <3>2, <4>1, GoesOn DEF TypeOK
    <3>3. QED
      BY <2>1, <3>1, <3>2 DEF Connect
  <2>2. CASE ReadGpgOption(l)
    <3>1. CASE "gpg" \in disabled /\ l \in AdLookups
      BY <1>0, <2>0, <2>2, <3>1 DEF ReadGpgOption, TypeOK
    <3>2. CASE ~("gpg" \in disabled /\ l \in AdLookups)
      <4>1. UNCHANGED answer /\ GoOn(l, IF "gpg" \in disabled THEN "NO_DIRMNGR" ELSE "ok", "spawn")
        BY <2>2, <3>2 DEF ReadGpgOption
      <4>2. "gpg" \notin disabled => ~DisabledFor(l, disabled)
        BY DEF DisabledFor
      <4>3. QED
        BY <1>0, <2>0, <4>1, <4>2, GoesOn DEF TypeOK
    <3>3. QED
      BY <3>1, <3>2
  <2>3. CASE ReadGpgsmOption(l)
    <3>1. UNCHANGED answer /\ GoOn(l, IF "gpgsm" \in disabled THEN "NO_DIRMNGR" ELSE "ok", "spawn")
      BY <2>3 DEF ReadGpgsmOption
    <3>2. l \notin WkdLookups
      BY <1>0, <2>3, LookupsAssumption DEF ReadGpgsmOption, LookupInv
    <3>3. "gpgsm" \notin disabled => ~DisabledFor(l, disabled)
      BY <3>2 DEF DisabledFor
    <3>4. QED
      BY <1>0, <2>0, <3>1, <3>3, GoesOn DEF TypeOK
  <2>4. QED
    BY <2>1, <2>2, <2>3
<1>4. TypeOK'
  BY <1>0, <1>1, <1>3 DEF TypeOK
<1>5. LookupInv(l)'
  BY <1>0, <1>1, <1>2, <1>3 DEF LookupInv, Connecting, DisabledFor
<1>6. QED
  BY <1>0, <1>1, <1>3, <1>4, <1>5

\* dirmngr is launched at most once by a lookup, and waited for MaxTries times.
LEMMA LaunchKeeps ==
  ASSUME IInv, NEW l \in Lookups, Spawn(l) \/ WaitAndTry(l)
  PROVE  TypeOK' /\ DOMAIN answer' = Lookups /\ DOMAIN result' = Lookups /\ LookupInv(l)'
<1> USE BoundsAssumption DEF PCs, Codes, IsError
<1>0. TypeOK /\ DOMAIN answer = Lookups /\ DOMAIN result = Lookups /\ LookupInv(l)
  BY DEF IInv
<1>1. CASE Spawn(l)
  <2>1. /\ pc[l] = "spawn" /\ tries[l] = 0 /\ l \in wanted
        /\ UNCHANGED <<tries, answer, result, disabled, wanted>>
        /\ dirmngr' \in {"off", "starting", "on"} /\ launched' \subseteq launched \cup {l}
    BY <1>0, <1>1 DEF Spawn, LookupInv, Connecting, TypeOK
  <2>2. GoOn(l, "error", "wait") \/ GoOn(l, "ok", "wait")
    BY <1>1 DEF Spawn
  <2>3. /\ pc' \in [Lookups -> PCs] /\ err' \in [Lookups -> Codes]
        /\ pc'[l] = "wait" \/ (pc'[l] = "return" /\ IsError(err'[l]))
    BY <1>0, <2>2, GoesOn
  <2>4. TypeOK'
    BY <1>0, <2>1, <2>3 DEF TypeOK
  <2>5. LookupInv(l)'
    <3>1. ~Succeeded(l)'
      BY <1>0, <2>1 DEF LookupInv, Succeeded, CommandOf
    <3>2. QED
      BY <1>0, <2>1, <2>3, <3>1 DEF LookupInv, Connecting
  <2>6. QED
    BY <1>0, <2>1, <2>4, <2>5
<1>2. CASE WaitAndTry(l)
  <2>1. /\ pc[l] = "wait" /\ tries[l] \in 0..MaxTries /\ tries[l] < MaxTries
        /\ tries' = [tries EXCEPT ![l] = tries[l] + 1]
        /\ UNCHANGED <<result, dirmngr, disabled, launched, wanted>>
    BY <1>0, <1>2 DEF WaitAndTry, Counted, LookupInv, TypeOK
  <2>2. PICK code \in InfoCodes :
          /\ GetInfo(l, code)
          /\ IF code = "CONNECT_FAILED" /\ MoreTries(tries'[l])
             THEN UNCHANGED <<pc, err>>
             ELSE GoOn(l, code, "query")
    BY <1>2 DEF WaitAndTry
  <2>3. /\ code \in Codes /\ DOMAIN answer' = Lookups
        /\ (\A k \in Lookups : answer'[k].code \in Codes) /\ ~Succeeded(l)'
    BY <1>0, <2>2, Info DEF TypeOK
  <2>4. tries' \in [Lookups -> 0..MaxTries] /\ tries'[l] = tries[l] + 1
    BY <1>0, <2>1 DEF TypeOK
  <2>5. /\ pc' \in [Lookups -> PCs] /\ err' \in [Lookups -> Codes]
        /\ \/ pc'[l] = "wait" /\ tries'[l] < MaxTries
           \/ pc'[l] = "query"
           \/ pc'[l] = "return" /\ IsError(err'[l])
    BY <1>0, <2>1, <2>2, <2>3, GoesOn DEF TypeOK, MoreTries
  <2>6. TypeOK'
    BY <1>0, <2>1, <2>3, <2>4, <2>5 DEF TypeOK
  <2>7. LookupInv(l)'
    BY <1>0, <2>1, <2>3, <2>5 DEF LookupInv, Connecting
  <2>8. QED
    BY <1>0, <2>1, <2>3, <2>6, <2>7
<1>3. QED
  BY <1>1, <1>2

\* Without an error, the lookup has the answer to its command.
LEMMA QueryKeeps ==
  ASSUME IInv, NEW l \in Lookups, Query(l)
  PROVE  TypeOK' /\ DOMAIN answer' = Lookups /\ DOMAIN result' = Lookups /\ LookupInv(l)'
<1>0. TypeOK /\ DOMAIN answer = Lookups /\ DOMAIN result = Lookups /\ LookupInv(l)
  BY DEF IInv
<1>1. /\ pc[l] = "query" /\ pc' = [pc EXCEPT ![l] = "return"]
      /\ UNCHANGED <<tries, result, dirmngr, disabled, launched, wanted>>
      /\ err' = [err EXCEPT ![l] = IF l \in WkdLookups /\ answer'[l].code \in Benign
                                   THEN "ok" ELSE answer'[l].code]
  BY DEF Query
<1>2. PICK a : /\ answer' = [answer EXCEPT ![l] = a]
               /\ \/ a = [NoAnswer EXCEPT !.code = "error"]
                  \/ a \in (IF l \in WkdLookups THEN WkdAnswers ELSE AdAnswers)
  BY DEF Query
<1>3. a.code \in Codes
  BY <1>2, Answer DEF NoAnswer, Codes
<1>4. /\ DOMAIN answer' = Lookups /\ answer'[l] = a
      /\ \A k \in Lookups : answer'[k].code \in Codes
  BY <1>0, <1>2, <1>3 DEF TypeOK
<1>5. /\ pc' \in [Lookups -> PCs] /\ pc'[l] = "return"
      /\ err' \in [Lookups -> Codes]
      /\ err'[l] = IF l \in WkdLookups /\ a.code \in Benign THEN "ok" ELSE a.code
  BY <1>0, <1>1, <1>3, <1>4 DEF TypeOK, PCs, Codes
<1>6. IF IsError(err'[l]) THEN ~Succeeded(l)' ELSE Answered(l)'
  <2> USE DEF IsError, Succeeded, CommandOf, Benign
  <2>1. CASE a = [NoAnswer EXCEPT !.code = "error"]
    BY <1>4, <1>5, <2>1 DEF NoAnswer
  <2>2. CASE a \in (IF l \in WkdLookups THEN WkdAnswers ELSE AdAnswers)
    BY <1>4, <1>5, <2>2, Answer DEF Answered, Codes
  <2>3. QED
    BY <1>2, <2>1, <2>2
<1>7. TypeOK'
  BY <1>0, <1>1, <1>4, <1>5 DEF TypeOK
<1>8. LookupInv(l)'
  BY <1>0, <1>1, <1>5, <1>6 DEF LookupInv, Connecting
<1>9. QED
  BY <1>0, <1>1, <1>4, <1>7, <1>8

\* What the worker function makes of an answer, or of an error.
LEMMA ReturnKeeps ==
  ASSUME IInv, NEW l \in Lookups, Return(l)
  PROVE  TypeOK' /\ DOMAIN answer' = Lookups /\ DOMAIN result' = Lookups /\ LookupInv(l)'
<1>0. TypeOK /\ DOMAIN answer = Lookups /\ DOMAIN result = Lookups /\ LookupInv(l)
  BY DEF IInv
<1>1. /\ pc[l] = "return" /\ pc' = [pc EXCEPT ![l] = "done"]
      /\ UNCHANGED <<tries, answer, err, dirmngr, disabled, launched, wanted>>
      /\ result' = [result EXCEPT ![l] = IF l \in WkdLookups THEN lookup_keys(l) ELSE run_ad_query(l)]
  BY DEF Return
<1>2. DOMAIN result' = Lookups /\ result'[l] = IF l \in WkdLookups THEN lookup_keys(l) ELSE run_ad_query(l)
  BY <1>0, <1>1
<1>3. ResultFits(l)' /\ AttributesFit(l)' /\ result'[l].err \in Codes
  <2> USE DEF ResultFits, AttributesFit, keyData, pattern, isNull, attributes, WKDLookupResult, ADQueryResult,
              NoResult, NoData
  <2>0. Succeeded(l)' <=> Succeeded(l)
    BY <1>1 DEF Succeeded, CommandOf
  <2>1. CASE IsError(err[l])
    <3>1. ~Succeeded(l)
      BY <1>0, <1>1, <2>1 DEF LookupInv
    <3>2. QED
      BY <1>0, <1>1, <1>2, <2>0, <2>1, <3>1 DEF lookup_keys, run_ad_query, TypeOK, IsError
  <2>2. CASE ~IsError(err[l]) /\ l \in WkdLookups
    <3>1. l \notin AdLookups /\ Answered(l)
      BY <1>0, <1>1, <2>2, LookupsAssumption DEF LookupInv
    <3>2. result'[l] = WKDLookupResult(l, answer[l].key, "ok")
      BY <1>2, <2>2 DEF lookup_keys
    <3>3. /\ result'[l].err = "ok" /\ pattern(result'[l]) = l
          /\ keyData(result'[l]) = answer'[l].key /\ isNull(result'[l]) = FALSE
          /\ attributes(result'[l]) = <<>>
      BY ONLY <1>1, <3>2, Results
    <3>4. QED
      BY ONLY <1>1, <2>0, <2>2, <3>1, <3>3 DEF ResultFits, AttributesFit, Answered, Codes
  <2>3. CASE ~IsError(err[l]) /\ l \notin WkdLookups
    <3>1. l \in AdLookups /\ Answered(l)
      BY <1>0, <1>1, <2>3 DEF LookupInv, Lookups
    <3>2. result'[l] = IF answer[l].lines = <<>> THEN NoResult
                       ELSE ADQueryResult(parse_query_result(answer[l].lines), "ok")
      BY <1>2, <2>3 DEF run_ad_query
    <3>3. result'[l].err = "ok" /\ keyData(result'[l]) = FALSE
      BY <3>2
    <3>4. isNull(result'[l]) <=> answer[l].lines = <<>>
      BY <3>2
    <3>5. attributes(result'[l]) = IF answer[l].lines = <<>> THEN <<>>
                                   ELSE parse_query_result(answer[l].lines)
      BY <3>2
    <3>6. QED
      BY ONLY <1>1, <2>0, <2>3, <3>1, <3>3, <3>4, <3>5 DEF ResultFits, AttributesFit, Answered, Codes
  <2>4. QED
    BY <2>1, <2>2, <2>3
<1>4. TypeOK'
  BY <1>0, <1>1, <1>2, <1>3 DEF TypeOK, PCs
<1>5. LookupInv(l)'
  BY <1>0, <1>1, <1>3 DEF LookupInv, Connecting, TypeOK
<1>6. QED
  BY <1>0, <1>1, <1>2, <1>4, <1>5

------------------------------------------------------------------------------
\* The initial state: all lookups are fresh.
LEMMA InitIInv == Init => IInv
  BY BoundsAssumption
     DEF Init, IInv, TypeOK, LookupInv, PCs, Codes, NoAnswer, NoResult, NoData, Succeeded, CommandOf

\* Every step keeps the invariant.
LEMMA NextIInv == IInv /\ [Next]_vars => IInv'
<1> SUFFICES ASSUME IInv, [Next]_vars PROVE IInv'
  OBVIOUS
<1>1. ASSUME NEW l \in Lookups, Start(l) \/ WorkerStep(l) PROVE IInv'
  <2>1. TypeOK' /\ DOMAIN answer' = Lookups /\ DOMAIN result' = Lookups /\ LookupInv(l)'
    BY <1>1, StartKeeps, ConnectKeeps, LaunchKeeps, QueryKeeps, ReturnKeeps DEF WorkerStep
  <2>2. ASSUME NEW k \in Lookups \ {l} PROVE LookupInv(k)'
    BY <1>1, <2>2, OthersUntouched, SameLookup DEF IInv
  <2>3. QED
    BY <2>1, <2>2 DEF IInv
<1>2. CASE DirmngrChanges
  <2>1. TypeOK' /\ UNCHANGED <<lookupVars, disabled, launched, wanted>>
    BY <1>2 DEF DirmngrChanges, IInv, TypeOK, lookupVars
  <2>2. \A k \in Lookups : LookupInv(k)'
    BY <2>1, SameLookup DEF IInv, lookupVars
  <2>3. QED
    BY <2>1, <2>2 DEF IInv, lookupVars
<1>3. CASE OptionsChange
  <2>1. TypeOK' /\ UNCHANGED <<lookupVars, launched>>
    BY <1>3 DEF OptionsChange, IInv, TypeOK, lookupVars
  <2>2. \A k \in Lookups : LookupInv(k)'
    BY <1>3, <2>1, SameLookup DEF OptionsChange, IInv, lookupVars
  <2>3. QED
    BY <2>1, <2>2 DEF IInv, lookupVars
<1>4. CASE UNCHANGED vars
  <2>1. TypeOK'
    BY <1>4 DEF vars, lookupVars, IInv, TypeOK
  <2>2. \A k \in Lookups : LookupInv(k)'
    BY <1>4, SameLookup DEF vars, lookupVars, IInv
  <2>3. QED
    BY <1>4, <2>1, <2>2 DEF IInv, vars, lookupVars
<1>5. QED
  BY <1>1, <1>2, <1>3, <1>4 DEF Next

\* The invariant holds in every state.
THEOREM InductiveInvariant == Spec => []IInv
  BY InitIInv, NextIInv, PTL DEF Spec

\* A result without an error is what dirmngr sent for the lookup's own command, which it
\* answered or which was cancelled, for any number of lookups and tries and whatever
\* dirmngr does meanwhile (lookup_keys(), run_ad_query()).
THEOREM ResultIsAnswer == Spec => []ResultIsTheAnswer
<1>1. IInv => ResultIsTheAnswer
  BY DEF IInv, LookupInv, ResultFits, ResultIsTheAnswer
<1>2. QED
  BY <1>1, InductiveInvariant, PTL

\* No lookup launches dirmngr for which it was disabled all the time.
THEOREM LaunchedIsWanted == Spec => []DirmngrIsWanted
<1>1. IInv => DirmngrIsWanted
  BY DEF IInv, LookupInv, TypeOK, DirmngrIsWanted
<1>2. QED
  BY <1>1, InductiveInvariant, PTL

------------------------------------------------------------------------------
(* Folds over sequences. What a fold comes to is reached step by step, so  *)
(* that what the steps keep is true of the fold.                           *)

\* Every set of natural numbers has a least element.
LEMMA LeastNumber ==
  ASSUME NEW S \in SUBSET Nat, S # {}
  PROVE  \E n \in S : \A m \in S : n <= m
<1> DEFINE Less == {p \in Nat \X Nat : p[1] < p[2]}
<1>1. OpToRel(<, Nat) = Less
  BY DEF OpToRel
<1>2. PICK n \in S : \A m \in S : ~(<<m, n>> \in Less)
  BY <1>1, NatLessThanWellFounded, WFMin
<1>3. ASSUME NEW m \in S PROVE n <= m
  <2>1. m < n => <<m, n>> \in Nat \X Nat /\ <<m, n>>[1] < <<m, n>>[2]
    OBVIOUS
  <2>2. m < n => <<m, n>> \in Less
    BY ONLY <2>1
  <2>3. QED
    BY <1>2, <2>2
<1>4. QED
  BY <1>3

LEMMA AllNumbers ==
  ASSUME NEW S \in SUBSET Nat, 0 \in S, \A n \in Nat : n \in S => n + 1 \in S
  PROVE  S = Nat
<1> SUFFICES ASSUME Nat \ S # {} PROVE FALSE
  OBVIOUS
<1>1. PICK n \in Nat \ S : \A m \in Nat \ S : n <= m
  BY LeastNumber
<1>2. n - 1 \in Nat /\ n - 1 \in S
  BY <1>1
<1>3. (n - 1) + 1 = n
  BY <1>1
<1>4. QED
  BY <1>1, <1>2, <1>3

\* The greatest number of a set of numbers up to k.
LEMMA Greatest ==
  ASSUME NEW k \in Nat
  PROVE  /\ Max(1..(k + 1)) = k + 1
         /\ \A s \in SUBSET (1..(k + 1)) : k + 1 \in s => Max(s) = k + 1
<1>1. ASSUME NEW s \in SUBSET (1..(k + 1)), k + 1 \in s PROVE Max(s) = k + 1
  <2>1. \A y \in s : k + 1 >= y
    OBVIOUS
  <2>2. \A x \in s : (\A y \in s : x >= y) => x = k + 1
    BY <1>1, <2>1
  <2>3. QED
    BY <1>1, <2>1, <2>2 DEF Max
<1>2. QED
  BY <1>1

LEMMA GreatestIn ==
  ASSUME NEW n \in Nat, NEW s \in SUBSET (1..n), s # {}
  PROVE  Max(s) \in 1..n /\ s \ {Max(s)} \in SUBSET (1..n)
<1> DEFINE Bounds == {m \in Nat : \A x \in s : m >= x}
<1>1. n \in Bounds /\ Bounds \in SUBSET Nat
  OBVIOUS
<1>2. PICK m \in Bounds : \A b \in Bounds : m <= b
  BY <1>1, LeastNumber
<1>3. m \in s
  <2> SUFFICES ASSUME m \notin s PROVE FALSE
    OBVIOUS
  <2>1. \A x \in s : x \in Nat /\ x >= 1 /\ m >= x /\ m # x
    BY <1>2
  <2>2. m >= 1
    <3>1. PICK x \in s : TRUE
      OBVIOUS
    <3>2. x \in Nat /\ x >= 1 /\ m >= x /\ m \in Nat
      BY <2>1, <3>1
    <3>3. QED
      BY ONLY <3>2
  <2>3. m - 1 \in Nat /\ \A x \in s : m - 1 >= x
    BY <1>2, <2>1, <2>2
  <2>4. m - 1 \in Bounds
    BY <2>3
  <2>5. QED
    BY <1>2, <2>4
<1>4. \E x \in s : \A y \in s : x >= y
  BY <1>2, <1>3
<1>5. Max(s) \in s
  BY <1>4 DEF Max
<1>6. QED
  BY <1>5

LEMMA Segment ==
  ASSUME NEW n \in Nat, NEW i \in Nat, i + 1 <= n
  PROVE  1..(i + 1) \in SUBSET (1..n) /\ 1..(i + 1) # {} /\ (1..(i + 1)) \ {i + 1} = 1..i
<1>1. i + 1 \in 1..(i + 1)
  OBVIOUS
<1>2. (1..(i + 1)) \ {i + 1} = 1..i
  OBVIOUS
<1>3. 1..(i + 1) \in SUBSET (1..n)
  OBVIOUS
<1>4. QED
  BY <1>1, <1>2, <1>3

\* A step from what was folded before and the next position.
FoldStep(step, base, h, s) == IF s = {} THEN base ELSE step[<<h[s \ {Max(s)}], Max(s)>>]

\* A function that folds all sets of positions up to k.
Folds(A, step, base, k, h) ==
  h \in [SUBSET (1..k) -> A] /\ \A s \in SUBSET (1..k) : h[s] = FoldStep(step, base, h, s)

LEMMA FoldExists ==
  ASSUME NEW A, NEW base \in A, NEW n \in Nat, NEW step \in [A \X (1..n) -> A]
  PROVE  \E h : Folds(A, step, base, n, h)
<1> DEFINE Good == {k \in Nat : k <= n => \E h : Folds(A, step, base, k, h)}
<1>1. 0 \in Good
  <2> DEFINE h == [s \in SUBSET (1..0) |-> base]
  <2>1. \A s \in SUBSET (1..0) : s = {}
    OBVIOUS
  <2>2. h \in [SUBSET (1..0) -> A]
    OBVIOUS
  <2>3. Folds(A, step, base, 0, h)
    BY <2>1, <2>2 DEF Folds, FoldStep
  <2>4. QED
    BY <2>3
<1>2. ASSUME NEW k \in Nat, k \in Good PROVE k + 1 \in Good
  <2> SUFFICES ASSUME k + 1 <= n PROVE \E h : Folds(A, step, base, k + 1, h)
    OBVIOUS
  <2>1. PICK g : Folds(A, step, base, k, g)
    BY <1>2
  <2> DEFINE h == [s \in SUBSET (1..(k + 1)) |->
                     IF k + 1 \in s THEN step[<<g[s \ {k + 1}], k + 1>>] ELSE g[s]]
  <2>2. \A s \in SUBSET (1..(k + 1)) : s \ {k + 1} \in SUBSET (1..k)
    OBVIOUS
  <2>3. \A s \in SUBSET (1..k) : g[s] \in A /\ h[s] = g[s]
    BY <2>1 DEF Folds
  <2>4. ASSUME NEW s \in SUBSET (1..(k + 1)) PROVE h[s] \in A /\ h[s] = FoldStep(step, base, h, s)
    <3>1. CASE k + 1 \in s
      <4>1. Max(s) = k + 1
        BY <3>1, Greatest
      <4>2. s \ {k + 1} \in SUBSET (1..k) /\ k + 1 \in 1..n
        BY <2>2
      <4>3. <<g[s \ {k + 1}], k + 1>> \in A \X (1..n) /\ h[s \ {k + 1}] = g[s \ {k + 1}]
        BY <2>3, <4>2
      <4>4. h[s] = step[<<g[s \ {k + 1}], k + 1>>]
        BY <3>1
      <4> HIDE DEF h
      <4>5. h[s] \in A
        BY <4>3, <4>4
      <4>6. QED
        BY <3>1, <4>1, <4>3, <4>4, <4>5 DEF FoldStep
    <3>2. CASE k + 1 \notin s
      <4>1. s \in SUBSET (1..k)
        BY <3>2
      <4>2. h[s] = g[s] /\ g[s] \in A
        BY <2>3, <4>1
      <4>3. g[s] = FoldStep(step, base, g, s)
        BY <2>1, <4>1 DEF Folds
      <4>4. s # {} => s \ {Max(s)} \in SUBSET (1..k)
        BY <4>1
      <4>5. s # {} => h[s \ {Max(s)}] = g[s \ {Max(s)}]
        BY <2>3, <4>4
      <4> HIDE DEF h
      <4>6. QED
        BY <4>2, <4>3, <4>5 DEF FoldStep
    <3>3. QED
      BY <3>1, <3>2
  <2>5. h \in [SUBSET (1..(k + 1)) -> A]
    BY <2>4
  <2>6. Folds(A, step, base, k + 1, h)
    BY <2>4, <2>5 DEF Folds
  <2>7. QED
    BY <2>6
<1>3. Good = Nat
  <2> HIDE DEF Good
  <2>1. Good \in SUBSET Nat
    BY DEF Good
  <2>2. QED
    BY <1>1, <1>2, <2>1, AllNumbers
<1>4. QED
  BY <1>3

\* f goes on with the step wherever that is defined.
Follows(A, step, base, n, f) ==
  /\ base \in A /\ n \in Nat /\ step \in [A \X (1..n) -> A]
  /\ f[{}] = base
  /\ \A s \in SUBSET (1..n) :
       s # {} /\ f[s \ {Max(s)}] \in A => f[s] = step[<<f[s \ {Max(s)}], Max(s)>>]

\* g goes from the base to the result in n steps.
Steps(A, step, base, n, g) ==
  g \in [0..n -> A] /\ g[0] = base /\ \A i \in 0..(n - 1) : g[i + 1] = step[<<g[i], i + 1>>]

\* What a fold comes to is reached step by step. (f is the function that defines it.)
LEMMA FoldSteps ==
  ASSUME NEW A, NEW base, NEW n, NEW step, NEW f, Follows(A, step, base, n, f)
  PROVE  \E g : Steps(A, step, base, n, g) /\ g[n] = f[1..n]
<1> USE DEF Follows
<1> DEFINE g == [i \in 0..n |-> f[1..i]]
           Good == {i \in Nat : i <= n => f[1..i] \in A}
<1>1. ASSUME NEW i \in Nat, i + 1 <= n, f[1..i] \in A
      PROVE  f[1..(i + 1)] \in A /\ f[1..(i + 1)] = step[<<f[1..i], i + 1>>]
  <2>1. 1..(i + 1) \in SUBSET (1..n) /\ 1..(i + 1) # {} /\ (1..(i + 1)) \ {i + 1} = 1..i
    BY <1>1, Segment
  <2>2. Max(1..(i + 1)) = i + 1
    BY Greatest
  <2>3. f[1..(i + 1)] = step[<<f[1..i], i + 1>>]
    BY <1>1, <2>1, <2>2
  <2>4. <<f[1..i], i + 1>> \in A \X (1..n)
    BY <1>1
  <2>5. QED
    BY <2>3, <2>4
<1>2. Good = Nat
  <2>1. 0 \in Good
    <3>1. 1..0 = {}
      OBVIOUS
    <3>2. QED
      BY <3>1
  <2>2. ASSUME NEW i \in Nat, i \in Good PROVE i + 1 \in Good
    <3>1. i + 1 <= n => i <= n
      OBVIOUS
    <3>2. i + 1 <= n => f[1..(i + 1)] \in A
      BY <1>1, <2>2, <3>1
    <3>3. QED
      BY <3>2
  <2>3. Good \in SUBSET Nat
    OBVIOUS
  <2> HIDE DEF Good
  <2>4. QED
    BY <2>1, <2>2, <2>3, AllNumbers
<1>3. ASSUME NEW i \in 0..n PROVE g[i] = f[1..i] /\ f[1..i] \in A
  <2>1. i \in Good
    BY <1>2
  <2>2. QED
    BY <2>1
<1>4. g \in [0..n -> A]
  BY <1>3
<1>5. g[0] = base /\ g[n] = f[1..n]
  <2>1. 1..0 = {} /\ 0 \in 0..n /\ n \in 0..n
    OBVIOUS
  <2> HIDE DEF g
  <2>2. QED
    BY <1>3, <2>1
<1>6. ASSUME NEW i \in 0..(n - 1) PROVE g[i + 1] = step[<<g[i], i + 1>>]
  <2>1. i \in Nat /\ i + 1 <= n /\ i \in 0..n /\ i + 1 \in 0..n
    OBVIOUS
  <2> HIDE DEF g
  <2>2. QED
    BY <1>1, <1>3, <2>1
<1> HIDE DEF g
<1>7. QED
  BY <1>4, <1>5, <1>6 DEF Steps

------------------------------------------------------------------------------
(* The attributes of an answer.                                           *)

\* What a line makes of the attributes found before, and of the last of them, in
\* parse_query_result().
Added(found, lines, i) ==
  CASE lines[i] = "attribute" -> Append(found, <<i>>)
    [] lines[i] = "continuation" /\ found # <<>> ->
         [found EXCEPT ![Len(found)] = Append(@, i)]
    [] OTHER -> found

Continued(found, i) == [found EXCEPT ![Len(found)] = Append(@, i)]

Lists == Seq(Seq(Nat))

\* What a line makes of the attributes found before.
LEMMA AddedLine ==
  ASSUME NEW found \in Lists, NEW lines, NEW i \in Nat
  PROVE  /\ Added(found, lines, i) \in Lists
         /\ lines[i] = "attribute" =>
              /\ Added(found, lines, i) = Append(found, <<i>>)
         /\ lines[i] = "continuation" /\ found # <<>> => Added(found, lines, i) = Continued(found, i)
         /\ ~(lines[i] = "attribute" \/ (lines[i] = "continuation" /\ found # <<>>)) =>
              Added(found, lines, i) = found
<1>1. found # <<>> => /\ Len(found) \in DOMAIN found /\ found[Len(found)] \in Seq(Nat)
                      /\ Continued(found, i) \in Lists
  <2> SUFFICES ASSUME found # <<>> PROVE /\ Len(found) \in DOMAIN found /\ found[Len(found)] \in Seq(Nat)
                      /\ Continued(found, i) \in Lists
    OBVIOUS
  <2>1. Len(found) \in DOMAIN found /\ found[Len(found)] \in Seq(Nat)
    BY DEF Lists
  <2>2. Append(found[Len(found)], i) \in Seq(Nat)
    BY <2>1
  <2>3. QED
    BY <2>1, <2>2 DEF Lists, Continued
<1>2. Append(found, <<i>>) \in Lists
  BY DEF Lists
<1>3. CASE lines[i] = "attribute"
  BY <1>2, <1>3 DEF Added
<1>4. CASE lines[i] # "attribute" /\ lines[i] = "continuation" /\ found # <<>>
  BY <1>1, <1>4 DEF Added, Continued
<1>5. CASE ~(lines[i] = "attribute" \/ (lines[i] = "continuation" /\ found # <<>>))
  BY <1>5 DEF Added
<1>6. QED
  BY <1>3, <1>4, <1>5

\* The lines are added one after the other.
LEMMA AddedSteps ==
  ASSUME NEW lines \in Seq(LineKinds)
  PROVE  \E g \in [0..Len(lines) -> Lists] :
           /\ g[0] = <<>>
           /\ \A i \in 0..(Len(lines) - 1) : g[i + 1] = Added(g[i], lines, i + 1)
           /\ g[Len(lines)] = parse_query_result(lines)
<1> DEFINE n == Len(lines)
           A == Lists
           positions == [i \in DOMAIN lines |-> i]
           step == [p \in A \X (1..n) |-> Added(p[1], lines, p[2])]
           Is(h) == h = [s \in SUBSET (1..n) |->
                           IF s = {} THEN <<>> ELSE Added(h[s \ {Max(s)}], lines, positions[Max(s)])]
<1>1. n \in Nat /\ DOMAIN lines = 1..n /\ DOMAIN positions = 1..n /\ \A i \in 1..n : positions[i] = i
  OBVIOUS
<1>2. parse_query_result(lines) = (CHOOSE h : Is(h))[1..n]
  <2> HIDE DEF n
  <2>1. QED
    BY <1>1 DEF parse_query_result, FoldLeft, MapThenFoldSet, Added
<1>3. <<>> \in A /\ step \in [A \X (1..n) -> A]
  <2>1. <<>> \in A
    BY DEF Lists
  <2>2. \A i \in 1..n : i \in Nat
    BY <1>1
  <2>3. QED
    BY <2>1, <2>2, AddedLine
<1>4. \A a \in A, i \in 1..n : step[<<a, i>>] = Added(a, lines, i)
  OBVIOUS
<1> HIDE DEF A, step, n, positions
<1>5. PICK h : Folds(A, step, <<>>, n, h)
  BY <1>1, <1>3, FoldExists
<1>6. Is(h)
  <2>1. ASSUME NEW s \in SUBSET (1..n)
        PROVE  h[s] = IF s = {} THEN <<>> ELSE Added(h[s \ {Max(s)}], lines, positions[Max(s)])
    <3>1. s # {} => Max(s) \in 1..n /\ h[s \ {Max(s)}] \in A
      BY <1>1, <1>5, GreatestIn DEF Folds
    <3>2. QED
      BY <1>1, <1>4, <1>5, <3>1 DEF Folds, FoldStep
  <2>2. h = [s \in SUBSET (1..n) |-> h[s]]
    BY <1>5 DEF Folds
  <2>3. QED
    BY <2>1, <2>2
<1>7. PICK f : Is(f) /\ f = (CHOOSE k : Is(k))
  <2> HIDE DEF Is
  <2>1. QED
    BY <1>6
<1>8. Follows(A, step, <<>>, n, f)
  <2>1. \A s \in SUBSET (1..n) : s # {} => Max(s) \in 1..n /\ positions[Max(s)] = Max(s)
    BY <1>1, GreatestIn
  <2>2. f[{}] = <<>>
    BY <1>7
  <2>3. \A s \in SUBSET (1..n) :
          s # {} => f[s] = Added(f[s \ {Max(s)}], lines, Max(s))
    BY <1>7, <2>1
  <2> HIDE DEF Is
  <2>4. QED
    BY <1>1, <1>3, <1>4, <2>1, <2>2, <2>3 DEF Follows
<1> HIDE DEF Is
<1>9. PICK g : Steps(A, step, <<>>, n, g) /\ g[n] = f[1..n]
  BY ONLY <1>8, FoldSteps
<1>10. \A i \in 0..(n - 1) : g[i + 1] = Added(g[i], lines, i + 1)
  <2>1. \A i \in 0..(n - 1) : i \in 0..n /\ i + 1 \in 1..n
    BY <1>1
  <2>2. QED
    BY <1>4, <1>9, <2>1 DEF Steps
<1>11. g[n] = parse_query_result(lines)
  BY <1>2, <1>7, <1>9
<1>12. QED
  BY <1>9, <1>10, <1>11 DEF n, A, Steps

\* Like LinesOf, of the first k lines.
LinesUpTo(lines, k, i) ==
  {i} \cup {m \in 1..k : /\ m > i /\ lines[m] = "continuation"
                         /\ \A j \in (i + 1)..m : lines[j] # "attribute"}

\* An attribute with all of its lines among the first k ones.
Whole(lines, k, list) ==
  /\ list \in Seq(Nat) /\ list # <<>>
  /\ Range(list) = LinesUpTo(lines, k, list[1])
  /\ InOrder(list)

\* What was found in the first k lines.
Found(lines, k, found) ==
  /\ found \in Lists
  /\ {found[n][1] : n \in DOMAIN found} = {i \in 1..k : lines[i] = "attribute"}
  /\ \A m, n \in DOMAIN found : m < n => found[m][1] < found[n][1]
  /\ \A n \in DOMAIN found : Whole(lines, k, found[n])

\* A line that does not belong to an attribute.
LEMMA WholeStays ==
  ASSUME NEW k \in Nat, NEW lines, NEW list, Whole(lines, k, list), list[1] \in 1..k,
         lines[k + 1] # "continuation" \/ \E j \in (list[1] + 1)..(k + 1) : lines[j] = "attribute"
  PROVE  Whole(lines, k + 1, list)
<1>1. \A m \in 1..(k + 1) : m \in 1..k \/ m = k + 1
  OBVIOUS
<1>2. \A m \in 1..k : m \in 1..(k + 1)
  OBVIOUS
<1>3. LinesUpTo(lines, k + 1, list[1]) = LinesUpTo(lines, k, list[1])
  BY <1>1, <1>2 DEF LinesUpTo
<1>4. QED
  BY <1>3 DEF Whole

\* A line that belongs to an attribute.
LEMMA WholeGrows ==
  ASSUME NEW k \in Nat, NEW lines, NEW list, Whole(lines, k, list), list[1] \in 1..k,
         lines[k + 1] = "continuation", \A j \in (list[1] + 1)..(k + 1) : lines[j] # "attribute"
  PROVE  Whole(lines, k + 1, Append(list, k + 1)) /\ Append(list, k + 1)[1] = list[1]
<1> DEFINE more == Append(list, k + 1)
<1>1. /\ list \in Seq(Nat) /\ Len(list) \in Nat /\ Len(list) >= 1 /\ DOMAIN list = 1..Len(list)
      /\ DOMAIN more = 1..(Len(list) + 1) /\ more[Len(list) + 1] = k + 1
      /\ \A i \in 1..Len(list) : more[i] = list[i]
      /\ more \in Seq(Nat) /\ more # <<>>
  BY DEF Whole
<1> HIDE DEF more
<1>2. more[1] = list[1]
  BY <1>1
<1>3. Range(more) = Range(list) \cup {k + 1}
  <2>1. \A i \in 1..(Len(list) + 1) : i \in 1..Len(list) \/ i = Len(list) + 1
    BY <1>1
  <2>2. \A i \in 1..Len(list) : i \in 1..(Len(list) + 1)
    BY <1>1
  <2>3. Len(list) + 1 \in 1..(Len(list) + 1)
    BY <1>1
  <2>4. QED
    BY <1>1, <2>1, <2>2, <2>3 DEF Range
<1>4. LinesUpTo(lines, k + 1, list[1]) = LinesUpTo(lines, k, list[1]) \cup {k + 1}
  <2>1. \A m \in 1..(k + 1) : m \in 1..k \/ m = k + 1
    OBVIOUS
  <2>2. \A m \in 1..k : m \in 1..(k + 1)
    OBVIOUS
  <2>3. k + 1 \in 1..(k + 1) /\ k + 1 > list[1]
    OBVIOUS
  <2>4. QED
    BY <2>1, <2>2, <2>3 DEF LinesUpTo
<1>5. \A i \in DOMAIN list : list[i] \in 1..k
  <2>1. \A i \in DOMAIN list : list[i] \in Range(list)
    BY DEF Range
  <2>2. QED
    BY <2>1 DEF Whole, LinesUpTo
<1>6. InOrder(more)
  <2> SUFFICES ASSUME NEW i \in DOMAIN more, NEW m \in DOMAIN more, i < m PROVE more[i] < more[m]
    BY DEF InOrder
  <2>1. i \in 1..Len(list)
    BY <1>1
  <2>2. CASE m \in 1..Len(list)
    BY <1>1, <2>1, <2>2 DEF Whole, InOrder
  <2>3. CASE m = Len(list) + 1
    BY <1>1, <1>5, <2>1, <2>3
  <2>4. QED
    BY <1>1, <2>2, <2>3
<1>7. Whole(lines, k + 1, more)
  BY <1>1, <1>2, <1>3, <1>4, <1>6 DEF Whole
<1>8. QED
  BY <1>2, <1>7 DEF more

\* One more line.
LEMMA FoundOne ==
  ASSUME NEW k \in Nat, NEW lines, NEW found, Found(lines, k, found)
  PROVE  Found(lines, k + 1, Added(found, lines, k + 1))
<1> DEFINE n == Len(found)  t == Added(found, lines, k + 1)
<1>1. /\ n \in Nat /\ DOMAIN found = 1..n /\ found \in Lists /\ k + 1 \in Nat
      /\ \A i \in 1..n : found[i] \in Seq(Nat)
  BY DEF Found, Lists
<1>2. \A i \in 1..n : found[i][1] \in 1..k /\ lines[found[i][1]] = "attribute"
  BY <1>1 DEF Found
<1>3. \A j \in 1..k : lines[j] = "attribute" => \E i \in 1..n : found[i][1] = j
  <2> SUFFICES ASSUME NEW j \in 1..k, lines[j] = "attribute" PROVE \E i \in 1..n : found[i][1] = j
    OBVIOUS
  <2>1. j \in {found[i][1] : i \in DOMAIN found}
    BY DEF Found
  <2>2. QED
    BY <1>1, <2>1
<1>4. \A j \in 1..(k + 1) : j \in 1..k \/ j = k + 1
  OBVIOUS
<1>5. \A j \in 1..k : j \in 1..(k + 1)
  OBVIOUS
<1>6. t \in Lists
  BY <1>1, AddedLine
<1>7. CASE lines[k + 1] = "attribute"
  <2>1. t = Append(found, <<k + 1>>)
    BY <1>1, <1>7, AddedLine
  <2>2. /\ DOMAIN t = 1..(n + 1) /\ t[n + 1] = <<k + 1>>
        /\ \A i \in 1..n : t[i] = found[i]
    <3>1. <<k + 1>> \in Seq(Nat) /\ found \in Seq(Seq(Nat))
      BY <1>1 DEF Lists
    <3> HIDE DEF t
    <3>2. QED
      BY <1>1, <2>1, <3>1
  <2>3. \A i \in 1..(n + 1) : i \in 1..n \/ i = n + 1
    BY <1>1
  <2>4. \A i \in 1..n : i \in 1..(n + 1)
    BY <1>1
  <2>5. n + 1 \in 1..(n + 1) /\ k + 1 \in 1..(k + 1)
    BY <1>1
  <2>6. t[n + 1][1] = k + 1
    BY <2>2
  <2> HIDE DEF t, n
  <2>7. {t[i][1] : i \in DOMAIN t} = {i \in 1..(k + 1) : lines[i] = "attribute"}
    <3>1. \A i \in 1..(n + 1) : t[i][1] \in 1..(k + 1) /\ lines[t[i][1]] = "attribute"
      BY <1>2, <1>5, <1>7, <2>2, <2>3, <2>5, <2>6
    <3>2. ASSUME NEW j \in 1..(k + 1), lines[j] = "attribute" PROVE \E i \in 1..(n + 1) : t[i][1] = j
      <4>1. CASE j \in 1..k
        BY <1>3, <2>2, <2>4, <3>2, <4>1
      <4>2. CASE j = k + 1
        BY <2>5, <2>6, <4>2
      <4>3. QED
        BY <1>4, <4>1, <4>2
    <3>3. QED
      BY <2>2, <3>1, <3>2
  <2>8. ASSUME NEW i \in DOMAIN t, NEW m \in DOMAIN t, i < m PROVE t[i][1] < t[m][1]
    <3>1. i \in 1..n
      BY <1>1, <2>2, <2>8
    <3>2. CASE m \in 1..n
      BY <1>1, <2>2, <2>8, <3>1, <3>2 DEF Found
    <3>3. CASE m = n + 1
      BY <1>2, <2>2, <2>6, <3>1, <3>3
    <3>4. QED
      BY <2>2, <2>3, <3>2, <3>3
  <2>9. ASSUME NEW i \in DOMAIN t PROVE Whole(lines, k + 1, t[i])
    <3>1. CASE i \in 1..n
      BY <1>1, <1>2, <1>7, <2>2, <3>1, WholeStays DEF Found
    <3>2. CASE i = n + 1
      <4>1. /\ <<k + 1>> \in Seq(Nat) /\ <<k + 1>> # <<>> /\ <<k + 1>>[1] = k + 1
            /\ DOMAIN <<k + 1>> = {1}
        BY <1>1
      <4>2. Range(<<k + 1>>) = {k + 1}
        BY <4>1 DEF Range
      <4>3. InOrder(<<k + 1>>)
        BY <4>1 DEF InOrder
      <4>4. \A j \in 1..(k + 1) : ~(j > k + 1)
        OBVIOUS
      <4>5. LinesUpTo(lines, k + 1, k + 1) = {k + 1}
        BY <4>4 DEF LinesUpTo
      <4>6. QED
        BY <2>2, <3>2, <4>1, <4>2, <4>3, <4>5 DEF Whole
    <3>3. QED
      BY <2>2, <2>3, <3>1, <3>2
  <2>10. QED
    BY <1>6, <2>7, <2>8, <2>9 DEF Found, t
<1>8. CASE lines[k + 1] = "continuation" /\ found # <<>>
  <2>1. /\ t = [found EXCEPT ![n] = Append(found[n], k + 1)]
        /\ lines[k + 1] # "attribute" /\ n \in 1..n
    <3>1. n \in 1..n
      BY <1>1, <1>8
    <3>2. Added(found, lines, k + 1) = Continued(found, k + 1)
      BY <1>1, <1>8, AddedLine
    <3> HIDE DEF t
    <3>3. QED
      BY <1>8, <3>1, <3>2 DEF Continued, t
  <2>2. /\ DOMAIN t = 1..n /\ t[n] = Append(found[n], k + 1)
        /\ \A i \in 1..n : i # n => t[i] = found[i]
    BY <1>1, <2>1
  <2> HIDE DEF t, n
  <2>3. \A j \in (found[n][1] + 1)..(k + 1) : lines[j] # "attribute"
    <3> SUFFICES ASSUME NEW j \in (found[n][1] + 1)..(k + 1), lines[j] = "attribute" PROVE FALSE
      OBVIOUS
    <3>1. j \in 1..k /\ found[n][1] < j
      BY <1>2, <2>1
    <3>2. PICK i \in 1..n : found[i][1] = j
      BY <1>3, <3>1
    <3>3. i = n \/ i < n
      BY <1>1, <3>2
    <3>4. i < n => found[i][1] < found[n][1]
      BY <1>1, <2>1 DEF Found
    <3>5. QED
      BY <1>2, <2>1, <3>1, <3>2, <3>3, <3>4
  <2>4. Whole(lines, k + 1, t[n]) /\ t[n][1] = found[n][1]
    <3>1. Whole(lines, k, found[n]) /\ found[n][1] \in 1..k
      BY <1>1, <1>2, <2>1 DEF Found
    <3>2. QED
      BY <1>8, <2>2, <2>3, <3>1, WholeGrows
  <2>5. \A i \in 1..n : t[i][1] = found[i][1]
    BY <2>2, <2>4
  <2>6. {t[i][1] : i \in DOMAIN t} = {i \in 1..(k + 1) : lines[i] = "attribute"}
    <3>1. {t[i][1] : i \in DOMAIN t} = {found[i][1] : i \in DOMAIN found}
      BY <1>1, <2>2, <2>5
    <3>2. {i \in 1..(k + 1) : lines[i] = "attribute"} = {i \in 1..k : lines[i] = "attribute"}
      BY <1>4, <1>5, <2>1
    <3>3. QED
      BY <3>1, <3>2 DEF Found
  <2>7. \A i, m \in DOMAIN t : i < m => t[i][1] < t[m][1]
    BY <1>1, <2>2, <2>5 DEF Found
  <2>8. ASSUME NEW i \in DOMAIN t PROVE Whole(lines, k + 1, t[i])
    <3>1. CASE i = n
      BY <2>4, <3>1
    <3>2. CASE i # n
      <4>1. i \in 1..n /\ i < n /\ t[i] = found[i]
        BY <1>1, <2>2, <3>2
      <4>2. found[i][1] < found[n][1]
        BY <1>1, <2>1, <4>1 DEF Found
      <4>3. found[n][1] \in (found[i][1] + 1)..(k + 1) /\ lines[found[n][1]] = "attribute"
        BY <1>2, <2>1, <4>1, <4>2
      <4>4. QED
        BY <1>1, <1>2, <4>1, <4>3, WholeStays DEF Found
    <3>3. QED
      BY <3>1, <3>2
  <2>9. QED
    BY <1>6, <2>6, <2>7, <2>8 DEF Found, t
<1>9. CASE ~(lines[k + 1] = "attribute" \/ (lines[k + 1] = "continuation" /\ found # <<>>))
  <2>1. t = found
    BY <1>1, <1>9, AddedLine
  <2>2. {i \in 1..(k + 1) : lines[i] = "attribute"} = {i \in 1..k : lines[i] = "attribute"}
    BY <1>4, <1>5, <1>9
  <2>3. \A i \in DOMAIN found : Whole(lines, k + 1, found[i])
    <3>1. lines[k + 1] = "continuation" => n = 0
      BY <1>1, <1>9
    <3>2. ASSUME NEW i \in DOMAIN found PROVE Whole(lines, k + 1, found[i])
      <4>1. lines[k + 1] # "continuation"
        BY <1>1, <3>1
      <4>2. QED
        BY <1>1, <1>2, <4>1, WholeStays DEF Found
    <3>3. QED
      BY <3>2
  <2>4. QED
    BY <2>1, <2>2, <2>3 DEF Found
<1>10. QED
  BY <1>7, <1>8, <1>9

\* The result is what was found in all lines.
LEMMA AllFound ==
  ASSUME NEW lines \in Seq(LineKinds)
  PROVE  Found(lines, Len(lines), parse_query_result(lines))
<1> DEFINE n == Len(lines)
<1>1. n \in Nat
  OBVIOUS
<1>2. PICK g \in [0..n -> Lists] :
        /\ g[0] = <<>>
        /\ \A i \in 0..(n - 1) : g[i + 1] = Added(g[i], lines, i + 1)
        /\ g[n] = parse_query_result(lines)
  BY AddedSteps
<1> DEFINE Good == {k \in Nat : k <= n => Found(lines, k, g[k])}
<1>3. 0 \in Good
  <2>1. DOMAIN <<>> = {} /\ <<>> \in Lists /\ 1..0 = {}
    BY DEF Lists
  <2>2. Found(lines, 0, <<>>)
    BY <2>1 DEF Found
  <2>3. QED
    BY <1>2, <2>2
<1>4. ASSUME NEW k \in Nat, k \in Good PROVE k + 1 \in Good
  <2>1. k + 1 <= n => k <= n /\ k \in 0..(n - 1)
    BY <1>1
  <2>2. k + 1 <= n => Found(lines, k + 1, g[k + 1])
    BY <1>2, <1>4, <2>1, FoundOne
  <2>3. QED
    BY <2>2
<1>5. Good = Nat
  <2>1. Good \in SUBSET Nat
    OBVIOUS
  <2> HIDE DEF Good
  <2>2. QED
    BY <1>3, <1>4, <2>1, AllNumbers
<1>6. Found(lines, n, g[n])
  <2>1. n \in Good /\ n <= n
    BY <1>1, <1>5
  <2>2. QED
    BY <2>1
<1>7. QED
  BY <1>2, <1>6

\* The attributes of a result are those of the answer, each with all of its lines and
\* nobody else's, for answers of any length.
THEOREM AttributesWhole == Spec => []AttributesAreWhole
<1>1. ASSUME IInv PROVE AttributesAreWhole
  <2> SUFFICES ASSUME NEW l \in Lookups, pc[l] = "done", result[l].err = "ok"
               PROVE  LET lines == answer[l].lines
                          list == attributes(result[l])
                          firsts == [n \in DOMAIN list |-> list[n][1]] IN
                      /\ Range(firsts) = {i \in DOMAIN lines : lines[i] = "attribute"}
                      /\ InOrder(firsts)
                      /\ \A n \in DOMAIN list : /\ Range(list[n]) = LinesOf(lines, list[n][1])
                                                /\ InOrder(list[n])
    BY DEF AttributesAreWhole
  <2> DEFINE lines == answer[l].lines
             list == attributes(result[l])
             firsts == [n \in DOMAIN list |-> list[n][1]]
  <2>1. /\ lines \in Seq(LineKinds)
        /\ list = IF lines = <<>> THEN <<>> ELSE parse_query_result(lines)
    BY <1>1 DEF IInv, LookupInv, AttributesFit
  <2> HIDE DEF lines, list
  <2>2. Found(lines, Len(lines), list)
    <3>1. CASE lines = <<>>
      <4>1. DOMAIN <<>> = {} /\ <<>> \in Lists /\ Len(<<>>) = 0 /\ 1..0 = {}
        BY DEF Lists
      <4>2. QED
        BY <2>1, <3>1, <4>1 DEF Found
    <3>2. CASE lines # <<>>
      BY <2>1, <3>2, AllFound
    <3>3. QED
      BY <3>1, <3>2
  <2>3. DOMAIN lines = 1..Len(lines)
    BY <2>1
  <2>4. Range(firsts) = {i \in DOMAIN lines : lines[i] = "attribute"}
    <3>1. Range(firsts) = {list[n][1] : n \in DOMAIN list}
      BY DEF Range
    <3>2. QED
      BY <2>2, <2>3, <3>1 DEF Found
  <2>5. InOrder(firsts)
    BY <2>2 DEF Found, InOrder
  <2>6. ASSUME NEW n \in DOMAIN list
        PROVE  Range(list[n]) = LinesOf(lines, list[n][1]) /\ InOrder(list[n])
    <3>1. Whole(lines, Len(lines), list[n])
      BY <2>2 DEF Found
    <3>2. LinesOf(lines, list[n][1]) = LinesUpTo(lines, Len(lines), list[n][1])
      BY <2>3 DEF LinesOf, LinesUpTo
    <3>3. QED
      BY <3>1, <3>2 DEF Whole
  <2>7. QED
    BY <2>4, <2>5, <2>6 DEF lines, list
<1>2. QED
  BY <1>1, InductiveInvariant, PTL
==============================================================================
