--------------------------- MODULE DirectoryLookup ---------------------------
(***************************************************************************)
(* The jobs that ask dirmngr: the WKD lookup (qgpgmewkdlookupjob.cpp) and  *)
(* the Active Directory query (qgpgmeadqueryjob.cpp) of src/src. A worker  *)
(* function connects to dirmngr, launches it if it does not run and is not *)
(* disabled, waits for it, sends one command, and turns the answer into a  *)
(* result.                                                                 *)
(*                                                                         *)
(* Several lookups run at the same time. dirmngr may be started by any of  *)
(* them, may fail to come up, and may end at any time; the application may *)
(* change the options that disable it.                                     *)
(*                                                                         *)
(* A line of an answer is known by its position and kind: an attribute, a  *)
(* continuation of a value, a blank line, or one that the job does not     *)
(* understand. The text of an attribute is the sequence of its lines.      *)
(***************************************************************************)
EXTENDS Naturals, Sequences, SequencesExt

CONSTANTS
  WkdLookups, AdLookups,
  MaxTries,    \* the code's 5: how often a launched dirmngr is tried
  MaxLines     \* bound: lines of an answer

ASSUME LookupsAssumption == WkdLookups \cap AdLookups = {}
ASSUME BoundsAssumption == MaxTries \in Nat \ {0} /\ MaxLines \in Nat

VARIABLES
  pc,          \* pc[l]: where the worker function is
  tries,       \* tries[l]: cnt in startDirmngr()
  answer,      \* answer[l]: the last Assuan transaction of l's context
  err,         \* err[l]: the error so far
  result,      \* result[l]: what the worker function returned
  dirmngr,     \* "off", "starting" or "on"
  disabled,    \* the components for which dirmngr is disabled
  launched,    \* the lookups that launched dirmngr
  wanted       \* the lookups that might have launched it at some time

lookupVars == <<pc, tries, answer, err, result>>
vars == <<lookupVars, dirmngr, disabled, launched, wanted>>

Lookups == WkdLookups \cup AdLookups

PCs == {"fresh", "connect", "readGpg", "readGpgsm", "spawn", "wait", "query", "return", "done"}
Codes == {"ok", "NO_NAME", "NO_DATA", "NO_DIRMNGR", "CONNECT_FAILED", "canceled", "error"}
LineKinds == {"attribute", "continuation", "blank", "unexpected"}
Answers == UNION {[1..n -> LineKinds] : n \in 0..MaxLines}

NoAnswer == [command |-> "none", code |-> "ok", key |-> FALSE, lines |-> <<>>]
------------------------------------------------------------------------------
(* Results: an error and, unless the result is a default one, data.        *)

NoData == [present |-> FALSE, pattern |-> "none", key |-> FALSE, attributes |-> <<>>]
NoResult == [err |-> "ok", d |-> NoData]

WKDLookupResult(email, key, code) ==
  [err |-> code, d |-> [present |-> TRUE, pattern |-> email, key |-> key, attributes |-> <<>>]]

ADQueryResult(list, code) ==
  [err |-> code, d |-> [present |-> TRUE, pattern |-> "none", key |-> FALSE, attributes |-> list]]

isNull(r) == ~r.d.present /\ r.err = "ok"
pattern(r) == r.d.pattern
keyData(r) == r.d.key
attributes(r) == r.d.attributes

------------------------------------------------------------------------------

\* dirmngr is disabled for the lookup l.
DisabledFor(l, options) ==
  IF l \in WkdLookups THEN "gpg" \in options ELSE {"gpg", "gpgsm"} \subseteq options

Init ==
  /\ pc = [l \in Lookups |-> "fresh"]
  /\ tries = [l \in Lookups |-> 0]
  /\ answer = [l \in Lookups |-> NoAnswer]
  /\ err = [l \in Lookups |-> "ok"]
  /\ result = [l \in Lookups |-> NoResult]
  /\ dirmngr \in {"off", "on"}
  /\ disabled \in SUBSET {"gpg", "gpgsm"}
  /\ launched = {}
  /\ wanted = {}

------------------------------------------------------------------------------
(* Connecting to dirmngr.                                                  *)

Start(l) ==
  /\ pc[l] = "fresh"
  /\ pc' = [pc EXCEPT ![l] = "connect"]
  /\ wanted' = IF DisabledFor(l, disabled) THEN wanted ELSE wanted \cup {l}
  /\ UNCHANGED <<tries, answer, err, result, dirmngr, disabled, launched>>

\* A transaction with a dirmngr that answers may also fail or be canceled.
InfoCodes == IF dirmngr = "on" THEN {"ok", "canceled", "error"} ELSE {"CONNECT_FAILED"}

GetInfo(l, code) == answer' = [answer EXCEPT ![l] = [NoAnswer EXCEPT !.command = "GETINFO", !.code = code]]

\* What an error is as a condition: GpgME++ takes one that says "canceled" for none.
IsError(code) == code \notin {"ok", "canceled"}

\* The function goes on at next, also after a cancel, or returns with the error code.
GoOn(l, code, next) ==
  /\ err' = [err EXCEPT ![l] = code]
  /\ pc' = [pc EXCEPT ![l] = IF IsError(code) THEN "return" ELSE next]

\* setUpDirmngrAssuanConnection(): engine file name, home directory, and a
\* first command that shows whether there is a dirmngr.
Connect(l) ==
  /\ pc[l] = "connect"
  /\ \/ GoOn(l, "error", "query") /\ UNCHANGED answer
     \/ \E code \in InfoCodes :
          /\ GetInfo(l, code)
          /\ IF code = "CONNECT_FAILED"
             THEN pc' = [pc EXCEPT ![l] = "readGpg"] /\ UNCHANGED err
             ELSE GoOn(l, code, "query")
  /\ UNCHANGED <<tries, result, dirmngr, disabled, launched, wanted>>

\* (Mutant of ReadGpgOption: the rule of the AD query for both kinds of lookups.)
ReadGpgOptionLikeAd(l) ==
  /\ pc[l] = "readGpg"
  /\ IF "gpg" \in disabled
     THEN pc' = [pc EXCEPT ![l] = "readGpgsm"] /\ UNCHANGED err
     ELSE GoOn(l, "ok", "spawn")
  /\ UNCHANGED <<tries, answer, result, dirmngr, disabled, launched, wanted>>

\* startDirmngr() of the WKD lookup respects the option of gpg. That of the AD
\* query asks gpgsm's, too, before it gives up.
ReadGpgOption(l) ==
  /\ pc[l] = "readGpg"
  /\ IF "gpg" \in disabled /\ l \in AdLookups
     THEN pc' = [pc EXCEPT ![l] = "readGpgsm"] /\ UNCHANGED err
     ELSE GoOn(l, IF "gpg" \in disabled THEN "NO_DIRMNGR" ELSE "ok", "spawn")
  /\ UNCHANGED <<tries, answer, result, dirmngr, disabled, launched, wanted>>

ReadGpgsmOption(l) ==
  /\ pc[l] = "readGpgsm"
  /\ GoOn(l, IF "gpgsm" \in disabled THEN "NO_DIRMNGR" ELSE "ok", "spawn")
  /\ UNCHANGED <<tries, answer, result, dirmngr, disabled, launched, wanted>>

\* gpgconf --launch dirmngr, in a context of its own; harmless if it runs already.
Spawn(l) ==
  /\ pc[l] = "spawn"
  /\ \/ /\ GoOn(l, "error", "wait")
        /\ UNCHANGED <<dirmngr, launched>>
     \/ /\ GoOn(l, "ok", "wait")
        /\ dirmngr' = IF dirmngr = "off" THEN "starting" ELSE dirmngr
        /\ launched' = launched \cup {l}
  /\ UNCHANGED <<tries, answer, result, disabled, wanted>>

\* (Mutant of Counted: the tries are not counted.)
NotCounted(n) == n

Counted(n) == n + 1

MoreTries(n) == n < MaxTries

\* Sleeps, each time longer, and tries to connect.
WaitAndTry(l) ==
  /\ pc[l] = "wait"
  /\ tries' = [tries EXCEPT ![l] = Counted(@)]
  /\ \E code \in InfoCodes :
       /\ GetInfo(l, code)
       /\ IF code = "CONNECT_FAILED" /\ MoreTries(tries'[l])
          THEN UNCHANGED <<pc, err>>
          ELSE GoOn(l, code, "query")
  /\ UNCHANGED <<result, dirmngr, disabled, launched, wanted>>

------------------------------------------------------------------------------
(* The command, its answer and the result.                                 *)

\* What dirmngr can answer. A command that fails or is cancelled may have sent some
\* data before.
WkdAnswers ==
  [command : {"WKD_GET"}, code : {"ok", "error", "canceled"}, key : BOOLEAN, lines : {<<>>}]
  \cup [command : {"WKD_GET"}, code : {"NO_NAME", "NO_DATA"}, key : {FALSE}, lines : {<<>>}]

AdAnswers ==
  [command : {"AD_QUERY"}, code : {"ok"}, key : {FALSE}, lines : Answers]
  \cup [command : {"AD_QUERY"}, code : {"canceled"}, key : {FALSE}, lines : {<<>>, <<"attribute">>}]
  \cup [command : {"AD_QUERY"}, code : {"NO_DATA", "error"}, key : {FALSE},
        lines : {<<"attribute">>}]

\* (Mutant of Benign: a failed connection counts as no key found.)
BenignConnection == {"NO_NAME", "NO_DATA", "error"}

\* run_wkd_get() ignores the errors that say that there is no key.
Benign == {"NO_NAME", "NO_DATA"}

Query(l) ==
  /\ pc[l] = "query"
  /\ IF dirmngr # "on"
     THEN answer' = [answer EXCEPT ![l] = [NoAnswer EXCEPT !.code = "error"]]
     ELSE \E a \in (IF l \in WkdLookups THEN WkdAnswers ELSE AdAnswers) :
            answer' = [answer EXCEPT ![l] = a]
  /\ LET code == answer'[l].code IN
       err' = [err EXCEPT ![l] = IF l \in WkdLookups /\ code \in Benign THEN "ok" ELSE code]
  /\ pc' = [pc EXCEPT ![l] = "return"]
  /\ UNCHANGED <<tries, result, dirmngr, disabled, launched, wanted>>

\* (Mutant of parse_query_result: a blank line ends an attribute.)
parse_query_result_blank(lines) ==
  FoldLeft(LAMBDA found, i :
             CASE lines[i] = "attribute" -> Append(found, <<i>>)
               [] lines[i] = "continuation" /\ found # <<>> /\ lines[i - 1] # "blank" ->
                    [found EXCEPT ![Len(found)] = Append(@, i)]
               [] OTHER -> found,
           <<>>, [i \in DOMAIN lines |-> i])

\* The attributes of the lines. Blank lines are skipped, and so are lines that
\* are not understood.
parse_query_result(lines) ==
  FoldLeft(LAMBDA found, i :
             CASE lines[i] = "attribute" -> Append(found, <<i>>)
               [] lines[i] = "continuation" /\ found # <<>> ->
                    [found EXCEPT ![Len(found)] = Append(@, i)]
               [] OTHER -> found,
           <<>>, [i \in DOMAIN lines |-> i])

\* The end of the WKD lookup: that there is no key is a result with data, too. What
\* arrived before a cancel is taken for the answer.
lookup_keys(l) ==
  IF IsError(err[l]) THEN WKDLookupResult(l, FALSE, err[l])
  ELSE WKDLookupResult(l, answer[l].key, "ok")

\* The end of the AD query: an answer without data makes a null result.
run_ad_query(l) ==
  IF IsError(err[l]) THEN ADQueryResult(<<>>, err[l])
  ELSE IF answer[l].lines = <<>> THEN NoResult
  ELSE ADQueryResult(parse_query_result(answer[l].lines), "ok")

\* An error, or the data of the last transaction.
Return(l) ==
  /\ pc[l] = "return"
  /\ result' = [result EXCEPT ![l] = IF l \in WkdLookups THEN lookup_keys(l) ELSE run_ad_query(l)]
  /\ pc' = [pc EXCEPT ![l] = "done"]
  /\ UNCHANGED <<tries, answer, err, dirmngr, disabled, launched, wanted>>

------------------------------------------------------------------------------
(* dirmngr and the application.                                            *)

DirmngrChanges ==
  /\ \/ dirmngr = "starting" /\ dirmngr' \in {"on", "off"}
     \/ dirmngr = "on" /\ dirmngr' = "off"
     \/ dirmngr = "off" /\ dirmngr' = "on"      \* launched by another program
  /\ UNCHANGED <<lookupVars, disabled, launched, wanted>>

OptionsChange ==
  /\ disabled' \in SUBSET {"gpg", "gpgsm"}
  /\ wanted' = wanted \cup {l \in Lookups : pc[l] \notin {"fresh", "done"} /\ ~DisabledFor(l, disabled')}
  /\ UNCHANGED <<lookupVars, dirmngr, launched>>

WorkerStep(l) ==
  \/ Connect(l) \/ ReadGpgOption(l) \/ ReadGpgsmOption(l) \/ Spawn(l) \/ WaitAndTry(l)
  \/ Query(l) \/ Return(l)

Next ==
  \/ \E l \in Lookups : Start(l) \/ WorkerStep(l)
  \/ DirmngrChanges
  \/ OptionsChange

\* Worker threads are scheduled. Of dirmngr it is only expected that it does not hang on
\* a command for ever.
Spec == Init /\ [][Next]_vars
FairSpec == Spec /\ \A l \in Lookups : WF_vars(WorkerStep(l))

------------------------------------------------------------------------------
(* Properties.                                                             *)

TypeOK ==
  /\ pc \in [Lookups -> PCs]
  /\ tries \in [Lookups -> 0..MaxTries]
  /\ \A l \in Lookups : answer[l].code \in Codes
  /\ err \in [Lookups -> Codes]
  /\ \A l \in Lookups : result[l].err \in Codes
  /\ dirmngr \in {"off", "starting", "on"}
  /\ disabled \subseteq {"gpg", "gpgsm"}
  /\ launched \subseteq Lookups
  /\ wanted \subseteq Lookups

\* The command of the lookup l, and what says that there is something to return: an
\* answer, that there is no key, or that the command was cancelled.
CommandOf(l) == IF l \in WkdLookups THEN "WKD_GET" ELSE "AD_QUERY"
Succeeded(l) ==
  /\ answer[l].command = CommandOf(l)
  /\ answer[l].code \in {"ok", "canceled"} \cup (IF l \in WkdLookups THEN {"NO_NAME", "NO_DATA"} ELSE {})

\* A result is without an error exactly if the command of the lookup itself was answered
\* or cancelled, and is then all that dirmngr sent for it: that there is no key is never
\* said if dirmngr could not be asked, and data that came before a failure are not taken
\* for an answer. Only an answer without any data gives a null result. That a lookup was
\* cancelled, no result says, so an answer without an error may be cut off
\* (qgpgmewkdlookupjob.cpp:163-176, qgpgmeadqueryjob.cpp:220-236).
ResultIsTheAnswer ==
  \A l \in Lookups : pc[l] = "done" =>
    /\ result[l].err # "canceled"
    /\ result[l].err = "ok" <=> Succeeded(l)
    /\ IF result[l].err = "ok"
       THEN /\ keyData(result[l]) = answer[l].key
            /\ l \in WkdLookups => pattern(result[l]) = l
            /\ isNull(result[l]) <=> l \in AdLookups /\ answer[l].lines = <<>>
       ELSE ~keyData(result[l]) /\ attributes(result[l]) = <<>>

\* The lines that belong to the attribute at line i: itself and the continuation
\* lines up to the next attribute.
LinesOf(lines, i) ==
  {i} \cup {k \in DOMAIN lines : /\ k > i /\ lines[k] = "continuation"
                                 /\ \A m \in (i + 1)..k : lines[m] # "attribute"}

InOrder(list) == \A i, k \in DOMAIN list : i < k => list[i] < list[k]

\* If all lines were understood, the attributes are those of the answer in their
\* order, each with all of its lines in order and nobody else's.
AttributesAreWhole ==
  \A l \in Lookups :
    LET lines == answer[l].lines
        list == attributes(result[l])
        firsts == [n \in DOMAIN list |-> list[n][1]] IN
    pc[l] = "done" /\ result[l].err = "ok" /\ (\A i \in DOMAIN lines : lines[i] # "unexpected") =>
      /\ Range(firsts) = {i \in DOMAIN lines : lines[i] = "attribute"}
      /\ InOrder(firsts)
      /\ \A n \in DOMAIN list : Range(list[n]) = LinesOf(lines, list[n][1]) /\ InOrder(list[n])

\* dirmngr is not launched for a lookup for which it was disabled all the time.
DirmngrIsWanted == launched \subseteq wanted

\* Every lookup comes to an end, though dirmngr may never come up, or come and go; once
\* it has taken a command it answers or ends.
LookupsEnd == \A l \in Lookups : pc[l] = "connect" ~> pc[l] = "done"
==============================================================================
