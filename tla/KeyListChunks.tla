---------------------------- MODULE KeyListChunks ----------------------------
(***************************************************************************)
(* QGpgMEKeyListJob (src/src/qgpgmekeylistjob.cpp): lists the keys that    *)
(* match a list of patterns. The channel to gpgsm takes a limited amount   *)
(* of patterns at a time, and only says so when there were too many: the   *)
(* job then tries again with smaller chunks of patterns.                   *)
(*                                                                         *)
(* A pattern is known by its position and length. Pattern i matches one    *)
(* key, key i. Limit is what the channel takes, which the job cannot know. *)
(***************************************************************************)
EXTENDS Naturals, Sequences, FiniteSetsExt

CONSTANTS
  Limit,         \* the total length of patterns the channel takes
  MaxPatterns,   \* bound: patterns of one job
  MaxLength      \* bound: length of a pattern

VARIABLES
  lengths,     \* the lengths of the patterns the job was started with
  pc,          \* "listing" in the worker thread, "returned" or "reported"
  first,       \* the position of the first pattern of pats
  chunkSize,
  keys,        \* the keys listed so far, in order
  result,      \* the error of the merged results
  emitted      \* the keys announced with nextKey()

vars == <<lengths, pc, first, chunkSize, keys, result, emitted>>

Patterns == 1..Len(lengths)
NullKey == 0
Codes == {"ok", "LINE_TOO_LONG", "error", "canceled"}

TypeOK ==
  /\ lengths \in Seq(1..MaxLength)
  /\ pc \in {"listing", "returned", "reported"}
  /\ first \in Nat \ {0}
  /\ chunkSize \in 0..MaxPatterns
  /\ keys \in Seq({NullKey} \cup Patterns)
  /\ result \in Codes
  /\ emitted \subseteq {NullKey} \cup Patterns

\* start(): list_keys() runs in the worker thread. Fewer than two patterns are
\* listed in one go.
Init ==
  /\ \E n \in 0..MaxPatterns : lengths \in [1..n -> 1..MaxLength]
  /\ pc = "listing"
  /\ first = 1
  /\ chunkSize = Len(lengths)
  /\ keys = <<>>
  /\ result = "ok"
  /\ emitted = {}

SingleCall == Len(lengths) < 2

\* pats.mid(0, chunkSize)
Last == IF first + chunkSize - 1 < Len(lengths) THEN first + chunkSize - 1 ELSE Len(lengths)
Chunk == first..Last
TooLong == MapThenSumSet(LAMBDA i : lengths[i], Chunk) > Limit
\* The keys of the first n patterns of the chunk.
KeysOfChunk(n) == [i \in 1..n |-> first + i - 1]

Return(code, listed) ==
  /\ pc' = "returned"
  /\ result' = code
  /\ keys' = listed

\* (Mutants of CannotShrink.)
CannotShrinkPairs == SingleCall \/ chunkSize < 3
CannotShrinkSingle == SingleCall

Smaller == chunkSize \div 2
CannotShrink == SingleCall \/ Smaller < 1

\* (Mutant of StartOver: the patterns start from the front, but the keys do not.)
StartOverPatterns ==
  /\ first' = 1
  /\ UNCHANGED <<keys, result>>

\* Only keys and result start from nothing, pats does not.
StartOver ==
  /\ keys' = <<>>
  /\ result' = "ok"
  /\ UNCHANGED first

\* LINE_TOO_LONG: try again with smaller chunks, unless they cannot shrink.
Retry ==
  /\ pc = "listing" /\ TooLong
  /\ IF CannotShrink
     THEN /\ Return("LINE_TOO_LONG", keys)
          /\ UNCHANGED <<chunkSize, first>>
     ELSE /\ chunkSize' = Smaller
          /\ StartOver
          /\ UNCHANGED pc
  /\ UNCHANGED <<lengths, emitted>>

\* (Mutant of NextChunk: a pattern between two chunks is left out.)
SkipToNextChunk == first + chunkSize + 1

NextChunk == first + chunkSize

\* The chunk is listed, and the next one follows if there are patterns left.
ListChunk ==
  /\ pc = "listing" /\ ~TooLong
  /\ keys' = keys \o KeysOfChunk(Last - first + 1)
  /\ IF SingleCall \/ Last = Len(lengths)
     THEN pc' = "returned" /\ UNCHANGED first
     ELSE first' = NextChunk /\ UNCHANGED pc
  /\ UNCHANGED <<lengths, chunkSize, result, emitted>>

\* The listing of the chunk fails or is canceled, after n of its keys. A nextKey() that is
\* canceled does not end the loop, which asks for one key more, and leaves its null key.
ListFails ==
  /\ pc = "listing" /\ ~TooLong
  /\ \E n \in 0..(Last - first + 1), error \in {"error", "canceled"}, left \in {<<>>, <<NullKey>>} :
       /\ left # <<>> => error = "canceled"
       /\ Return(error, (keys \o KeysOfChunk(n)) \o left)
  /\ UNCHANGED <<lengths, first, chunkSize, emitted>>

\* EOF (there is no ~/.gnupg): fakes an empty result.
EarlyEnd ==
  /\ pc = "listing" /\ ~TooLong /\ ~SingleCall
  /\ Return("ok", <<>>)
  /\ UNCHANGED <<lengths, first, chunkSize, emitted>>

\* slotFinished(): resultHook() announces the keys, then result() is emitted.
ResultHook ==
  /\ pc = "returned"
  /\ pc' = "reported"
  /\ emitted' = {keys[i] : i \in DOMAIN keys}
  /\ UNCHANGED <<lengths, first, chunkSize, keys, result>>

Next == Retry \/ ListChunk \/ ListFails \/ EarlyEnd \/ ResultHook

Spec == Init /\ [][Next]_vars

------------------------------------------------------------------------------
\* Trying again never lists a key twice, and keeps the order of the patterns; a null key
\* is only ever the last one, of a canceled listing.
KeysInOrder ==
  /\ \A i, k \in DOMAIN keys : i < k /\ keys[k] # NullKey => keys[i] < keys[k]
  /\ \A i \in DOMAIN keys : keys[i] = NullKey => i = Len(keys) /\ result = "canceled"

\* The job only gives up with LINE_TOO_LONG for a pattern that is too long by
\* itself.
GivesUpOnlyForALongPattern ==
  result = "LINE_TOO_LONG" => \E i \in Patterns : lengths[i] > Limit

\* Patterns of equal length, fingerprints for example, are all listed.
EqualPatternsAreComplete ==
  /\ \A i, k \in Patterns : lengths[i] = lengths[k]
  /\ pc # "listing" /\ result = "ok" /\ keys # <<>>
  => Len(keys) = Len(lengths)

\* keylistjob.h:81-82: "pattern is a list of patterns used to restrict the
\* list of keys returned." A result without an error that holds some keys
\* holds the keys of all patterns.
EveryPatternIsListed ==
  pc # "listing" /\ result = "ok" /\ keys # <<>> => Len(keys) = Len(lengths)
==============================================================================
