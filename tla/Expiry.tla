-------------------------------- MODULE Expiry --------------------------------
(***************************************************************************)
(* Expiration dates. The application gives a date, GpgME takes a number of *)
(* seconds from now as an unsigned long, or of days as text, and 0 means   *)
(* never (src/src/qgpgmechangeexpiryjob.cpp, src/src/qgpgmequickjob.cpp,   *)
(* src/src/qgpgmesignkeyjob.cpp, src/src/qgpgmeaddexistingsubkeyjob.cpp).  *)
(* The clock goes on between the start of a job and its worker function.   *)
(***************************************************************************)
EXTENDS Integers, FiniteSetsExt

CONSTANTS
  None,          \* an invalid date: no expiration asked for
  UnsignedLong,  \* bound: 2^64 in the code
  Unsigned32,    \* bound: 2^32 in the code
  LastDate       \* bound: the last date gpg can tell, 2106-02-05 in the code

ASSUME DatesAssumption == 
  /\ {UnsignedLong, Unsigned32, LastDate} \subseteq Nat
  /\ LastDate < Unsigned32 /\ Unsigned32 < UnsignedLong

Never == None
Unset == -1    \* no "cert-expire": the default of gpg.conf

ToUnsignedLong(n) == n % UnsignedLong

\* (Mutant of SecondsAtLeastOne: the date may be now.)
SecondsFromNow(date, now) == IF date = None THEN 0 ELSE Max({date - now, 0})

\* change_expiry(): dates before now are taken for 1 second from now.
SecondsAtLeastOne(date, now) == IF date = None THEN 0 ELSE Max({date - now, 1})

\* (Mutant of SecondsUntil: rounded away from now.)
SecondsUntilEnd(date, now) == IF date = None THEN 0 ELSE ToUnsignedLong(date - now + 1)

\* createWorker(), addSubkeyWorker(): no care is taken of dates that are not to come.
SecondsUntil(date, now) == IF date = None THEN 0 ELSE ToUnsignedLong(date - now)

\* sign_key(): days from now, up to the last date; a date that is not to come sets
\* nothing.
CertExpire(date, now) ==
  LET days == Min({date, LastDate}) - now IN
  IF date = None THEN 0 ELSE IF days > 0 THEN days ELSE Unset

\* add_subkey(): the time of the subkey itself, as an unsigned 32 bit number.
SubkeyTime(date) == IF date = None THEN None ELSE date % Unsigned32

\* What gpg makes of a number of seconds or days from now.
EngineExpiry(fromNow, now) == IF fromNow = 0 THEN Never ELSE now + fromNow
==============================================================================
