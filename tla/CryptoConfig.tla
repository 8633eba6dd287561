----------------------------- MODULE CryptoConfig -----------------------------
(***************************************************************************)
(* The configuration of the GnuPG components as the application sees it:   *)
(* QGpgMENewCryptoConfig (src/src/qgpgmenewcryptoconfig.cpp) loads all     *)
(* options from gpgconf at the first access, keeps changed values in       *)
(* memory, writes them back in sync(), and forgets everything in clear().  *)
(*                                                                         *)
(* The application works with it in the GUI thread and holds plain         *)
(* pointers to entries. A lookup of a key in a directory that has to start *)
(* dirmngr reads an entry, too (startDirmngr() in qgpgmewkdlookupjob.cpp   *)
(* and qgpgmeadqueryjob.cpp): from its worker thread, or in the GUI thread *)
(* when it is executed synchronously.                                      *)
(***************************************************************************)
EXTENDS Naturals, Sequences, SequencesExt, FiniteSets, LdapServer

CONSTANTS
  Lookups,           \* the lookups that have to start dirmngr
  Texts,             \* the values of string entries
  Urls,              \* the LDAP servers
  MaxServers,        \* bound: the number of LDAP servers in the list
  MaxNumber,         \* bound: the numbers that entries are set to
  MaxUsed,           \* bound: the entries the application changes
  None,              \* no value
  Default            \* what an entry is asked for that is reset

ASSUME InputAssumption == {MaxServers, MaxNumber, MaxUsed} \subseteq Nat

\* What an entry is asked for tells a reset from a value.
ASSUME DefaultAssumption == None # Default /\ Default \notin Texts /\ Default \notin 0..MaxNumber

\* The servers are those that can be written: see Readable.
ASSUME UrlsAssumption == \A url \in Urls : Readable(url)

------------------------------------------------------------------------------
(* The options that gpgconf lists, as two components with groups.          *)

Group(name) == [name |-> name, group |-> TRUE]
Option(name, type) == [name |-> name, group |-> FALSE, type |-> type]

Components == [
  gpg     |-> <<Group("Monitor"), Option("verbose", 0), Option("log-file", 32),
                Group("Configuration"), Option("compliance", 1), Option("disable-dirmngr", 0)>>,
  dirmngr |-> <<Group("Configuration"), Option("ldapserver", 33), Option("ldaptimeout", 3)>>]
Lists == {"verbose", "ldapserver"}     \* isList()
Optional == {"log-file"}               \* isOptional(): the argument may be left out

\* setComponent(): the entries of each group. `current' holds the entries of the
\* group being read, or nothing before the first group, whose options get lost.
setComponent(options) ==
  LET read == FoldLeft(LAMBDA acc, o :
                         IF o.group
                         THEN [groups |-> acc.groups \cup acc.current, current |-> {{}}]
                         ELSE [acc EXCEPT !.current = {entries \cup {o.name} : entries \in @}],
                       [groups |-> {}, current |-> {}], options)
  IN  read.groups \cup read.current

groupList == [c \in DOMAIN Components |-> setComponent(Components[c])]

\* CryptoConfig::entry() looks an entry up in all groups of its component.
Found == [c \in DOMAIN Components |-> UNION groupList[c]]
Entries == UNION {Found[c] : c \in DOMAIN Components}

ComponentOf == [e \in Entries |-> CHOOSE c \in DOMAIN Components : e \in Found[c]]
TypeOf ==
  [e \in Entries |->
     LET options == Components[ComponentOf[e]]
     IN  options[CHOOSE i \in DOMAIN options : options[i].name = e].type]

ArgTypes == {"None", "String", "Int", "UInt", "Path", "DirPath", "LDAPURL"}

\* knownArgType()
ArgType ==
  [e \in Entries |-> CASE TypeOf[e] = 0 -> "None"
                       [] TypeOf[e] = 1 -> "String"
                       [] TypeOf[e] = 2 -> "Int"
                       [] TypeOf[e] = 3 -> "UInt"
                       [] TypeOf[e] = 32 -> "Path"
                       [] TypeOf[e] = 33 -> "LDAPURL"]
OfType(types) == {e \in Entries : ArgType[e] \in types}

\* The values of the options that have a default.
DefaultOf ==
  [e \in Entries |-> CASE e = "compliance" -> <<<<"gnupg">>>>
                       [] e = "ldaptimeout" -> <<15>>
                       [] OTHER -> <<>>]

------------------------------------------------------------------------------
VARIABLES
  used,        \* the entries the application changes
  stored,      \* stored[e]: the values of e in gpgconf's files, a sequence of texts
  saved,       \* saved[e]: what the application has set and saved, or None
  parsed,      \* m_parsed: the options are in memory
  memory,      \* memory[e]: the current values of the entry in memory
  asked,       \* asked[e]: what the application set the entry in memory to, or None
  dirty,       \* the entries changed since they were loaded
  held,        \* the entries the application holds pointers to
  lookup,      \* lookup[w]: "off", "holds" a pointer to an entry, or "done"
  stale,       \* who holds a pointer to a deleted entry: lookups, or Application
  staleUsed,   \* who has used a deleted entry
  cleared      \* the lookups that held a pointer when the application called clear()

fileVars == <<stored, saved>>
memoryVars == <<parsed, memory, asked, dirty>>
pointerVars == <<held, lookup, stale, staleUsed, cleared>>
vars == <<used, fileVars, memoryVars, pointerVars>>

Application == "application"
Unset == <<>>    \* an option that is not set has no values

\* Configuration::Option::currentValue(): the value to be used.
currentValue(e, values) == IF values = Unset THEN DefaultOf[e] ELSE values

\* The getters of an entry. Each makes of no value the null value of its type.
First(values, null) == IF values = <<>> THEN null ELSE values[1]

boolValue(values) == values # <<>>
numberOfTimesSet(values) == First(values, 0)
uintValue(values) == First(values, 0)
stringValue(values) == First(values, <<>>)
urlValue(values) == First(values, <<>>)       \* of a local file: its path
urlValueList(values) == [i \in DOMAIN values |-> parseURL(values[i])]

\* What the application reads in an entry with these values.
View(e, values) ==
  LET current == currentValue(e, values)
  IN  CASE ArgType[e] = "None" /\ e \notin Lists -> boolValue(current)
        [] ArgType[e] = "None" /\ e \in Lists -> numberOfTimesSet(current)
        [] ArgType[e] \in {"Int", "UInt"} -> uintValue(current)
        [] ArgType[e] = "String" -> stringValue(current)
        [] ArgType[e] = "Path" -> urlValue(current)
        [] ArgType[e] = "LDAPURL" -> urlValueList(current)

\* A variant of the type of the entry; an invalid one without a default.
defaultValue(e) ==
  LET values == DefaultOf[e]
  IN  CASE values = <<>> -> None
        [] Len(values) = 1 /\ ArgType[e] = "None" -> values[1] # 0
        [] Len(values) = 1 /\ ArgType[e] # "None" -> values[1]
        [] Len(values) > 1 -> values

ServerLists == UNION {[1..n -> Urls] : n \in 0..MaxServers}

\* Who holds pointers to entries.
Holders == {w \in Lookups : lookup[w] = "holds"} \cup (IF held = {} THEN {} ELSE {Application})

Init ==
  /\ used \in {u \in SUBSET Entries : Cardinality(u) <= MaxUsed}
  /\ stored = [e \in Entries |-> Unset]
  /\ saved = [e \in Entries |-> None]
  /\ parsed = FALSE
  /\ memory = [e \in Entries |-> Unset]
  /\ asked = [e \in Entries |-> None]
  /\ dirty = {}
  /\ held = {}
  /\ lookup = [w \in Lookups |-> "off"]
  /\ stale = {}
  /\ staleUsed = {}
  /\ cleared = {}

\* clear() deletes all entries; pointers to them become stale.
\* reloadConfiguration() is clear(), and loads the components from gpgconf.
Forget(values, loaded) ==
  /\ parsed' = loaded
  /\ memory' = values
  /\ asked' = [e \in Entries |-> None]
  /\ dirty' = {}

ReloadConfiguration ==
  /\ Forget(stored, TRUE)
  /\ stale' = stale \cup Holders

\* (Mutant of Component: without the test of m_parsed.)
ComponentReloading == ReloadConfiguration

\* component() loads the configuration unless it is loaded.
Component ==
  \/ parsed /\ UNCHANGED <<memoryVars, stale>>
  \/ ~parsed /\ ReloadConfiguration

------------------------------------------------------------------------------
(* The application, in the GUI thread.                                     *)

\* componentList(), and what else is asked of the configuration without an entry.
ComponentList ==
  /\ Component
  /\ UNCHANGED <<fileVars, held, lookup, staleUsed, cleared>>

GetEntry(e) ==
  /\ Component
  /\ held' = held \cup {e}
  /\ UNCHANGED <<fileVars, lookup, staleUsed, cleared>>

\* An entry is changed through a pointer to it; view is what it shall show.
SetNewValue(e, view, values) ==
  /\ e \in held
  /\ memory' = [memory EXCEPT ![e] = values]
  /\ asked' = [asked EXCEPT ![e] = view]
  /\ dirty' = dirty \cup {e}
  /\ staleUsed' = staleUsed \cup ({Application} \cap stale)
  /\ UNCHANGED <<fileVars, parsed, held, lookup, stale, cleared>>

\* setBoolValue(): an entry without an argument is set or not.
SetBoolValue(e, b) ==
  /\ e \in OfType({"None"}) \ Lists
  /\ SetNewValue(e, b, IF b THEN <<1>> ELSE Unset)

SetNumberOfTimesSet(e, n) ==
  /\ e \in OfType({"None"}) \cap Lists
  /\ SetNewValue(e, n, IF n > 0 THEN <<n>> ELSE Unset)

\* setIntValue(), setUIntValue()
SetUIntValue(e, n) ==
  /\ e \in OfType({"Int", "UInt"}) \ Lists
  /\ SetNewValue(e, n, <<n>>)

\* (Mutant of TextArgument: the empty text is an argument like any other.)
TextArgumentKept(e, text) == <<text>>

\* An entry whose argument is not optional is not set to the empty text but reset.
TextArgument(e, text) == IF text = <<>> /\ e \notin Optional THEN Unset ELSE <<text>>

SetText(e, text) ==
  SetNewValue(e, IF TextArgument(e, text) = Unset THEN Default ELSE text, TextArgument(e, text))

SetStringValue(e, text) ==
  /\ e \in OfType({"String", "Path"}) \ Lists
  /\ SetText(e, text)

\* setURLValue(): the path of a local file.
SetURLValue(e, path) ==
  /\ e \in OfType({"Path"}) \ Lists
  /\ SetText(e, path)

SetURLValueList(e, urls) ==
  /\ e \in OfType({"LDAPURL"}) \cap Lists
  /\ SetNewValue(e, urls, [i \in DOMAIN urls |-> splitURL(urls[i])])

ResetToDefault(e) == SetNewValue(e, Default, Unset)

\* gpgconf refuses a component with an option whose argument is missing.
Refused(c) ==
  \E e \in (Found[c] \cap dirty \cap OfType({"String", "Path"})) \ Optional : memory[e] = <<<<>>>>

\* A component saves its changed options, and only logs that it cannot.
SavedBy(c, fails) == IF fails THEN {} ELSE Found[c] \cap dirty

\* sync() saves component by component. Whether GpgME goes on considering what was saved
\* as changed is left open.
Sync ==
  /\ parsed
  /\ \E failing \in SUBSET DOMAIN Components :
       /\ \A c \in DOMAIN Components : Refused(c) => c \in failing
       /\ LET ok == UNION {SavedBy(c, c \in failing) : c \in DOMAIN Components} IN
          /\ stored' = [e \in Entries |-> IF e \in ok THEN memory[e] ELSE stored[e]]
          /\ saved' = [e \in Entries |-> IF e \in ok THEN asked[e] ELSE saved[e]]
          /\ dirty' \in {dirty, dirty \ ok}
  /\ UNCHANGED <<parsed, memory, asked, pointerVars>>

\* The application clears the configuration when it holds no pointers any more
\* (cryptoconfig.h asks for that). Whether a lookup holds one it cannot know.
ApplicationClears ==
  /\ parsed
  /\ Forget([e \in Entries |-> Unset], FALSE)
  /\ held' = {}
  /\ stale' = {w \in Lookups : lookup[w] = "holds"}
  /\ cleared' = cleared \cup stale'
  /\ UNCHANGED <<fileVars, lookup, staleUsed>>

\* Other programs change the files: a server with the "ldap:" prefix and no flags.
OthersChange ==
  /\ stored' = [stored EXCEPT !["ldapserver"] =
                  <<<<Ldap, Colon, "x", Colon, Colon, Colon, Colon, "x">>>>]
  /\ saved' = [saved EXCEPT !["ldapserver"] = None]
  /\ UNCHANGED <<memoryVars, pointerVars>>

------------------------------------------------------------------------------
(* A lookup looks up the entry "disable-dirmngr" and reads it, in a thread *)
(* of its own. (Loading counts as one step; that the threads also race for *)
(* the hash tables of the configuration is not modelled.)                  *)

LookupGetsEntry(w) ==
  /\ lookup[w] = "off"
  /\ lookup' = [lookup EXCEPT ![w] = "holds"]
  /\ Component
  /\ UNCHANGED <<fileVars, held, staleUsed, cleared>>

LookupReadsEntry(w) ==
  /\ lookup[w] = "holds"
  /\ lookup' = [lookup EXCEPT ![w] = "done"]
  /\ staleUsed' = staleUsed \cup ({w} \cap stale)
  /\ stale' = stale \ {w}
  /\ UNCHANGED <<fileVars, memoryVars, held, cleared>>

\* exec() in the GUI thread does both without giving way to anybody.
LookupExecuted(w) ==
  /\ lookup[w] = "off"
  /\ lookup' = [lookup EXCEPT ![w] = "done"]
  /\ Component
  /\ UNCHANGED <<fileVars, held, staleUsed, cleared>>

------------------------------------------------------------------------------
Change(e) ==
  \/ GetEntry(e) \/ ResetToDefault(e)
  \/ \E b \in BOOLEAN : SetBoolValue(e, b)
  \/ \E n \in 0..MaxNumber : SetNumberOfTimesSet(e, n) \/ SetUIntValue(e, n)
  \/ \E text \in Texts : SetStringValue(e, text) \/ SetURLValue(e, text)
  \/ \E urls \in ServerLists : SetURLValueList(e, urls)

Next ==
  /\ \/ \E e \in used : Change(e)
     \/ ComponentList \/ Sync \/ ApplicationClears \/ OthersChange
     \/ \E w \in Lookups : LookupGetsEntry(w) \/ LookupReadsEntry(w) \/ LookupExecuted(w)
  /\ UNCHANGED used

Spec == Init /\ [][Next]_vars

------------------------------------------------------------------------------
(* Properties.                                                             *)

Values(e) ==
  {Unset} \cup (IF ArgType[e] \in {"String", "Path"} THEN {<<t>> : t \in Texts}
               ELSE {<<n>> : n \in 0..MaxNumber})

TypeOK ==
  /\ ArgType \in [Entries -> ArgTypes]
  /\ DOMAIN stored = Entries /\ DOMAIN memory = Entries
  /\ \A e \in Entries \ OfType({"LDAPURL"}) : stored[e] \in Values(e) /\ memory[e] \in Values(e)
  /\ DOMAIN saved = Entries /\ DOMAIN asked = Entries
  /\ parsed \in BOOLEAN
  /\ dirty \subseteq Entries
  /\ held \subseteq used
  /\ lookup \in [Lookups -> {"off", "holds", "done"}]
  /\ stale \subseteq Lookups \cup {Application}
  /\ staleUsed \subseteq Lookups \cup {Application}
  /\ cleared \subseteq Lookups

\* What the application has set and saved is what it reads after clear(), and the
\* default value after a reset (the test t-config.cpp does this for one string), as
\* long as no other program changes it. splitURL() is called "the opposite of parseURL".
\* And nothing that an entry can be set to makes gpgconf refuse the whole component
\* with all its other changes.
SavedIsReadBack ==
  /\ \A e \in Entries :
       CASE saved[e] = None -> TRUE
         [] saved[e] = Default -> defaultValue(e) \in {None, View(e, stored[e])}
         [] OTHER -> View(e, stored[e]) = saved[e]
  /\ \A c \in DOMAIN Components : ~Refused(c)

\* A deleted entry is only used by a lookup whose pointer the application has pulled
\* away with clear(): loading the configuration, from whatever thread, never deletes
\* an entry that somebody holds, and the application itself uses no deleted one.
\* (clear() during a lookup does what "who would have 2 threads talking to gpgconf
\* anyway", qgpgmenewcryptoconfig.cpp:62-63, expects nobody to do; nothing prevents it.)
OnlyClearPullsAway == staleUsed \subseteq cleared \cap Lookups
==============================================================================
