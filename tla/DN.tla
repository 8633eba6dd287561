---------------------------------- MODULE DN ----------------------------------
(***************************************************************************)
(* Distinguished names (src/src/dn.cpp, src/src/dn.h): the parser and the  *)
(* writer of their texts, and DN objects, which share a counted private    *)
(* object until one of them changes.                                       *)
(*                                                                         *)
(* A text is a sequence of characters; the name of an attribute counts as  *)
(* one character. "a" is the hexadecimal digit, "z" a letter that is none, *)
(* and "aa" the character that two digits stand for.                       *)
(***************************************************************************)
EXTENDS Integers, Sequences, FiniteSets, Folds, SequencesExt

CONSTANTS
  Handles,         \* DN objects
  Texts,           \* texts a DN is made of
  Attributes,      \* attributes that are appended
  Orders,          \* orders of attributes that are set
  MaxAttributes    \* bound: attributes of a DN

ASSUME DNBound == MaxAttributes \in Nat

VARIABLES
  text,    \* bound: all DNs are made of this text, or of none
  d,       \* the private object of each DN, 0 before construction and after destruction
  heap,    \* the private objects: [attributes, reorderedAttributes, order, mRefCount]
  value    \* what each DN was given: the attributes of its text and those appended to it,
           \* the order set last, and the one it was shown in since the attributes changed

vars == <<text, d, heap, value>>

Attribute(name, chars) ==
  [name |-> [i \in DOMAIN name |-> IF name[i] = "cn" THEN "CN" ELSE name[i]], value |-> chars]

------------------------------------------------------------------------------
(* Parsing. The parser is a state machine over the characters. *)

Digits == {"a"}
Stops == {",", "=", "+", "<", ">", "#", ";"}
Escapable == Stops \cup {"\\", "\"", " "}

oidmap == {
  <<"SP", "ST">>, <<"NameDistinguisher", "0.2.262.1.10.7.20">>,
  <<"EMAIL", "1.2.840.113549.1.9.1">>, <<"CN", "2.5.4.3">>, <<"SN", "2.5.4.4">>,
  <<"SerialNumber", "2.5.4.5">>, <<"T", "2.5.4.12">>, <<"D", "2.5.4.13">>, <<"BC", "2.5.4.15">>,
  <<"ADDR", "2.5.4.16">>, <<"PC", "2.5.4.17">>, <<"GN", "2.5.4.42">>, <<"Pseudo", "2.5.4.65">>}

\* With or without the prefix "OID."; no name for an unknown one.
attributeNameForOID(oid) ==
  LET bare == IF oid # <<>> /\ Head(oid) = "OID." THEN Tail(oid) ELSE oid
      known == {entry \in oidmap : <<entry[2]>> = bare}
  IN  IF known = {} THEN <<>> ELSE <<(CHOOSE entry \in known : TRUE)[1]>>

KeyOf(name) == IF attributeNameForOID(name) # <<>> THEN attributeNameForOID(name) ELSE name

removeTrailingSpaces(chars) ==
  FoldRight(LAMBDA c, kept : IF kept = <<>> /\ c = " " THEN kept ELSE <<c>> \o kept, chars, <<>>)

Parser == [at |-> "start", name |-> <<>>, value |-> <<>>, lastAddedEscapedSpace |-> FALSE, result |-> <<>>]
Failed(p) == [p EXCEPT !.at = "error"]
GoTo(p, at) == [p EXCEPT !.at = at]
Push(p, chars) == [p EXCEPT !.at = "plain", !.value = @ \o chars, !.lastAddedEscapedSpace = FALSE]

\* Attributes without a value are left out.
EndPart(p, chars) ==
  [p EXCEPT !.at = "after", !.name = <<>>, !.value = <<>>, !.lastAddedEscapedSpace = FALSE,
            !.result = IF chars = <<>> THEN @ ELSE Append(@, Attribute(p.name, chars))]

\* parseHexString(): pairs of digits.
EndHex(p) ==
  IF p.value = <<>> \/ Len(p.value) % 2 = 1 THEN Failed(p)
  ELSE EndPart(p, [i \in 1..(Len(p.value) \div 2) |-> "aa"])

EndPlain(p) ==
  EndPart(p, IF p.lastAddedEscapedSpace THEN p.value ELSE removeTrailingSpaces(p.value))

ParseAfter(p, c) ==
  CASE c = " " -> p
    [] c \in {",", ";", "+"} -> GoTo(p, "start")
    [] OTHER -> Failed(p)

ParsePlain(p, c) ==
  CASE c = "\\" -> GoTo(p, "escape")
    [] c = "\"" -> Failed(p)
    [] c \in Stops -> ParseAfter(EndPlain(p), c)
    [] OTHER -> Push(p, <<c>>)

ParseEscape(p, c) ==
  CASE c \in Escapable -> [Push(p, <<c>>) EXCEPT !.lastAddedEscapedSpace = (c = " ")]
    [] c \in Digits -> GoTo(p, "escape digit")
    [] OTHER -> Failed(p)

parse_dn_part(p, c) ==
  CASE p.at = "start" /\ c = " " -> p
    [] p.at = "start" /\ c # " " -> IF c = "=" THEN Failed(p) ELSE [GoTo(p, "name") EXCEPT !.name = <<c>>]
    [] p.at = "name" /\ c # "=" -> [p EXCEPT !.name = Append(@, c)]
    [] p.at = "name" /\ c = "=" ->
         [GoTo(p, "value") EXCEPT !.name = KeyOf(removeTrailingSpaces(@))]
    [] p.at = "value" /\ c = " " -> p
    [] p.at = "value" /\ c = "#" -> GoTo(p, "hex")
    [] p.at = "value" /\ c = "\"" -> GoTo(p, "quoted")
    [] p.at = "value" /\ c \notin {" ", "#", "\""} -> ParsePlain(GoTo(p, "plain"), c)
    [] p.at = "hex" -> IF c \in Digits THEN [p EXCEPT !.value = Append(@, c)]
                       ELSE LET ended == EndHex(p) IN
                            IF ended.at = "error" THEN ended ELSE ParseAfter(ended, c)
    [] p.at = "quoted" /\ c = "\\" -> GoTo(p, "quoted escape")
    [] p.at = "quoted" /\ c = "\"" -> EndPart(p, p.value)
    [] p.at = "quoted" /\ c \notin {"\\", "\""} -> [p EXCEPT !.value = Append(@, c)]
    [] p.at = "quoted escape" ->
         [GoTo(p, "quoted") EXCEPT !.value = @ \o (IF c = "\"" THEN <<c>> ELSE <<"\\", c>>)]
    [] p.at = "plain" -> ParsePlain(p, c)
    [] p.at = "escape" -> ParseEscape(p, c)
    [] p.at = "escape digit" -> IF c \in Digits THEN Push(p, <<"aa">>) ELSE Failed(p)
    [] p.at = "after" -> ParseAfter(p, c)
    [] p.at = "error" -> p

\* A text that ends inside a part, or breaks the syntax, yields no attributes at all.
parse_dn(chars) ==
  LET p == FoldLeft(parse_dn_part, Parser, chars)
      ended == CASE p.at = "plain" -> EndPlain(p)
                 [] p.at = "hex" -> EndHex(p)
                 [] OTHER -> p
  IN IF ended.at \in {"start", "after"} THEN ended.result ELSE <<>>

------------------------------------------------------------------------------
(* Writing *)

\* (Mutant of dn_escape: the backslash itself is left alone.)
dn_escape_some(chars) ==
  FlattenSeq([i \in DOMAIN chars |->
    IF chars[i] \in {",", "+", "\"", "<", ">", ";"} THEN <<"\\", chars[i]>> ELSE <<chars[i]>>])

dn_escape(chars) ==
  FlattenSeq([i \in DOMAIN chars |->
    IF chars[i] \in {",", "+", "\"", "\\", "<", ">", ";"} THEN <<"\\", chars[i]>> ELSE <<chars[i]>>])

trimmed(chars) == Reverse(removeTrailingSpaces(Reverse(removeTrailingSpaces(chars))))

listAttributes(list) ==
  LET shown == SelectSeq(list, LAMBDA a : a.value # <<>>) IN
  [i \in DOMAIN shown |-> shown[i].name \o <<"=">> \o dn_escape(trimmed(shown[i].value))]

serialise(list) ==
  FoldLeft(LAMBDA chars, part : IF chars = <<>> THEN part ELSE chars \o <<",">> \o part,
           <<>>, listAttributes(list))

Unknown == <<"_X_">>     \* the place of the attributes that the order does not name

reorder_dn(list, order) ==
  LET known == {order[i] : i \in DOMAIN order}
      others == SelectSeq(list, LAMBDA a : a.name \notin known)
      first(i) == \A k \in 1..(i - 1) : order[k] # Unknown
  IN FlattenSeq([i \in DOMAIN order |->
       IF order[i] = Unknown THEN (IF first(i) THEN others ELSE <<>>)
       ELSE SelectSeq(list, LAMBDA a : a.name = order[i])])

------------------------------------------------------------------------------
(* Objects *)

\* A private object made by the constructors, and the copy of one.
NewPrivate(list) == [attributes |-> list, reorderedAttributes |-> <<>>, order |-> <<>>, mRefCount |-> 1]
CopiedOrder == <<<<"CN">>, <<"L">>, Unknown, <<"OU">>, <<"O">>, <<"C">>>>
CopyOf(p) == [p EXCEPT !.order = CopiedOrder, !.mRefCount = 1]

Fresh == CHOOSE p \in 1..(Cardinality(Handles) + 1) : p \notin DOMAIN heap

ref(objects, p) == [objects EXCEPT ![p].mRefCount = @ + 1]

\* The last reference deletes the object.
unref(objects, p) ==
  IF objects[p].mRefCount - 1 <= 0
  THEN [q \in DOMAIN objects \ {p} |-> objects[q]]
  ELSE [objects EXCEPT ![p].mRefCount = @ - 1]

With(p, object) == [q \in DOMAIN heap \cup {p} |-> IF q = p THEN object ELSE heap[q]]

Sharers(h) == {k \in Handles : d[k] = d[h]}
Given(attributes, order) == [attributes |-> attributes, order |-> order, shown |-> {}]

Init ==
  /\ text \in Texts
  /\ d = [h \in Handles |-> 0]
  /\ heap = <<>>
  /\ value = [h \in Handles |-> Given(<<>>, <<>>)]

Construct(h, dn) ==
  /\ d[h] = 0
  /\ d' = [d EXCEPT ![h] = Fresh]
  /\ heap' = With(Fresh, NewPrivate(parse_dn(dn)))
  /\ value' = [value EXCEPT ![h] = Given(parse_dn(dn), <<>>)]
  /\ UNCHANGED text

CopyConstruct(h, other) ==
  /\ d[h] = 0 /\ d[other] # 0
  /\ d' = [d EXCEPT ![h] = d[other]]
  /\ heap' = ref(heap, d[other])
  /\ value' = [value EXCEPT ![h] = value[other]]
  /\ UNCHANGED text

Destruct(h) ==
  /\ d[h] # 0
  /\ d' = [d EXCEPT ![h] = 0]
  /\ heap' = unref(heap, d[h])
  /\ value' = [value EXCEPT ![h] = Given(<<>>, <<>>)]
  /\ UNCHANGED text

\* (Mutant of Assigned: a DN assigned to itself, or to one that shares its object, loses
\* a reference.)
AssignedAnyway(h, other) == unref(heap, d[h])

\* The objects after d[h] has been replaced by d[other].
Assigned(h, other) == IF d[h] = d[other] THEN heap ELSE unref(ref(heap, d[other]), d[h])

Assign(h, other) ==
  /\ d[h] # 0 /\ d[other] # 0
  /\ d' = [d EXCEPT ![h] = d[other]]
  /\ heap' = Assigned(h, other)
  /\ value' = [value EXCEPT ![h] = value[other]]
  /\ UNCHANGED text

\* (Mutant of detach: shared objects are changed in place.)
detach_never(h) == [place |-> d[h], objects |-> heap]

\* The object that h may change, and the objects with it.
detach(h) ==
  IF heap[d[h]].mRefCount > 1
  THEN [place |-> Fresh, objects |-> unref(With(Fresh, CopyOf(heap[d[h]])), d[h])]
  ELSE [place |-> d[h], objects |-> heap]

\* (Mutant of Appended: what was reordered before is kept.)
AppendedKeeping(p, a) == [p EXCEPT !.attributes = Append(@, a)]

Appended(p, a) == [p EXCEPT !.attributes = Append(@, a), !.reorderedAttributes = <<>>]

AppendAttribute(h, a) ==
  /\ d[h] # 0 /\ Len(value[h].attributes) < MaxAttributes
  /\ LET own == detach(h) IN
     /\ d' = [d EXCEPT ![h] = own.place]
     /\ heap' = [own.objects EXCEPT ![own.place] = Appended(@, a)]
  /\ value' = [value EXCEPT ![h] =
       Given(Append(@.attributes, a), IF Sharers(h) = {h} THEN @.order ELSE CopiedOrder)]
  /\ UNCHANGED text

\* setAttributeOrder() is const: it changes the object for all that share it, and does not
\* forget what was reordered before.
SetAttributeOrder(h, order) ==
  /\ d[h] # 0
  /\ heap' = [heap EXCEPT ![d[h]].order = order]
  /\ value' = [k \in Handles |->
       IF k \in Sharers(h) THEN [value[k] EXCEPT !.order = order] ELSE value[k]]
  /\ UNCHANGED <<text, d>>

\* prettyDN() and prettyAttributes() keep the reordered attributes.
PrettyDN(h) ==
  /\ d[h] # 0
  /\ heap[d[h]].reorderedAttributes = <<>>
  /\ heap' = [heap EXCEPT ![d[h]].reorderedAttributes = reorder_dn(heap[d[h]].attributes, heap[d[h]].order)]
  /\ value' = [k \in Handles |->
       IF k \in Sharers(h) THEN [value[k] EXCEPT !.shown = {value[k].order}] ELSE value[k]]
  /\ UNCHANGED <<text, d>>

Next == \E h \in Handles :
  \/ \E dn \in {text, <<>>} : Construct(h, dn)
  \/ \E other \in Handles : CopyConstruct(h, other) \/ Assign(h, other)
  \/ \E a \in Attributes : AppendAttribute(h, a)
  \/ \E order \in Orders : SetAttributeOrder(h, order)
  \/ PrettyDN(h) \/ Destruct(h)

Spec == Init /\ [][Next]_vars

------------------------------------------------------------------------------
TypeOK ==
  /\ d \in [Handles -> 0..(Cardinality(Handles) + 1)]
  /\ DOMAIN heap \subseteq 1..(Cardinality(Handles) + 1)
  /\ \A p \in DOMAIN heap : heap[p].mRefCount \in Nat

\* However DNs are copied, assigned, appended to, reordered and destroyed, a private object
\* lives as long as a DN refers to it and no longer, and the attributes of a DN are those that
\* it was given itself. Its order is no value of its own: it is the one set last for any DN
\* that shares the object, and a DN that is appended to while it shares falls back to the
\* order of the copying constructor. What was reordered is never older than the attributes,
\* but it is in the order of the first prettyDN() since then, whatever was set later.
OnlyOrdersAreShared ==
  /\ \A p \in DOMAIN heap : heap[p].mRefCount = Cardinality({h \in Handles : d[h] = p})
  /\ \A p \in DOMAIN heap : heap[p].mRefCount > 0
  /\ \A h \in Handles : d[h] # 0 =>
       /\ d[h] \in DOMAIN heap
       /\ heap[d[h]].attributes = value[h].attributes /\ heap[d[h]].order = value[h].order
       /\ value[h].shown = {} => heap[d[h]].reorderedAttributes = <<>>
       /\ \A order \in value[h].shown :
            heap[d[h]].reorderedAttributes = reorder_dn(value[h].attributes, order)

\* Values that the text of a DN can hold: dn_escape() leaves alone what the parser takes for
\* the end of a value, and listAttributes() takes blanks away at both ends.
Writable(a) ==
  /\ a.value # <<>> /\ a.value = trimmed(a.value)
  /\ \A i \in DOMAIN a.value : a.value[i] \notin {"=", "#"}
  /\ KeyOf(a.name) = a.name

\* The text of a DN is read back as the same DN, whatever commas, quotes and backslashes
\* its values hold.
DnIsReadBack ==
  \A h \in Handles :
    LET list == value[h].attributes IN
    (\A i \in DOMAIN list : Writable(list[i])) => parse_dn(serialise(list)) = list
==============================================================================
