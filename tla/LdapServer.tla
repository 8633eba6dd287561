------------------------------ MODULE LdapServer ------------------------------
(***************************************************************************)
(* How an entry of the type "LDAP server" is written to and read from      *)
(* gpgconf: splitURL() and parseURL() of qgpgmenewcryptoconfig.cpp.        *)
(*                                                                         *)
(* A text is a sequence of characters. Only the characters that the code   *)
(* tells apart are modelled: the separator, the percent sign, a character  *)
(* outside ASCII, and two words: "ldap" and a number. An encoded character *)
(* is one element. An LDAP URL is the record of its parts (what QUrl       *)
(* returns for host(), port(), userName(), password(), query() and         *)
(* fragment()), each a text; a part that is not set is the empty text.     *)
(***************************************************************************)
EXTENDS Naturals, Sequences, SequencesExt

Colon == ":"
Percent == "%"
Umlaut == "ue"             \* a character of Latin-1 outside ASCII
Replacement == "U+FFFD"    \* what fromUtf8() makes of bytes that are not UTF-8
Ldap == "ldap"
Number == "389"

Parts == {"host", "port", "user", "password", "baseDn", "flags"}

\* (Mutant of urlpart_encode: the percent sign is encoded last.)
urlpart_encode_swapped(text) ==
  [i \in DOMAIN text |->
     CASE text[i] = Percent -> "%25" [] text[i] = Colon -> "%253a" [] OTHER -> text[i]]

urlpart_encode(text) ==
  [i \in DOMAIN text |->
     CASE text[i] = Percent -> "%25" [] text[i] = Colon -> "%3a" [] OTHER -> text[i]]

\* fromPercentEncoding(str.toLatin1()) takes the bytes for UTF-8. A percent sign
\* is itself only in front of what is not an encoded character.
urlpart_decode(text) ==
  [i \in DOMAIN text |->
     CASE text[i] = "%25" -> Percent [] text[i] = "%3a" -> Colon
       [] text[i] = Umlaut -> Replacement [] OTHER -> text[i]]

\* QString::split(':').
Items(text) ==
  FoldLeft(LAMBDA items, c : IF c = Colon THEN Append(items, <<>>)
                             ELSE [items EXCEPT ![Len(items)] = Append(@, c)],
           <<<<>>>>, text)

HasOptionalPrefix(text) == IsPrefix(<<Ldap, Colon>>, text)

\* A port that is not a number is ignored.
PortOf(text) == IF text = <<Number>> THEN text ELSE <<>>

UrlOf(items) ==
  [host |-> urlpart_decode(items[1]), port |-> PortOf(items[2]),
   user |-> urlpart_decode(items[3]), password |-> urlpart_decode(items[4]),
   baseDn |-> urlpart_decode(items[5]),
   flags |-> IF Len(items) >= 6 THEN urlpart_decode(items[6]) ELSE <<>>]

NoUrl == [p \in Parts |-> <<>>]

\* [ldap:]hostname:port:username:password:base_dn[:flags[:]]. A malformed text
\* is taken for a URL, which it is not.
parseURL(text) ==
  LET items == Items(IF HasOptionalPrefix(text) THEN SubSeq(text, 3, Len(text)) ELSE text)
  IN  IF Len(items) >= 5 THEN UrlOf(items) ELSE NoUrl

\* portToString() makes an empty text of a port that is not set.
splitURL(url) ==
  urlpart_encode(url.host) \o <<Colon>> \o url.port \o <<Colon>>
    \o urlpart_encode(url.user) \o <<Colon>> \o urlpart_encode(url.password) \o <<Colon>>
    \o urlpart_encode(url.baseDn) \o <<Colon>> \o urlpart_encode(url.flags)

\* The URLs whose text stands for them alone: no part has a character outside ASCII
\* or, as a character of its own, what stands for an encoded one; the port is a number;
\* and the host is not called like the optional prefix.
Readable(url) ==
  /\ url \in [Parts -> Seq(STRING)]
  /\ \A p \in Parts : \A i \in DOMAIN url[p] : url[p][i] \notin {Umlaut, "%25", "%3a"}
  /\ url.port \in {<<>>, <<Number>>}
  /\ url.host # <<Ldap>>
==============================================================================
