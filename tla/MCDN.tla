--------------------------------- MODULE MCDN ---------------------------------
(***************************************************************************)
(* Small texts and few objects for the model checker.                      *)
(***************************************************************************)
EXTENDS DN, TLC

Characters == {"a", "z", ",", "\\", "\"", " ", "#", "="}

\* Short values, longer ones where the parser remembers something,
\* and texts with several attributes.
Values ==
  UNION {[1..n -> Characters] : n \in 0..1}
  \cup {<<b, c>> : b \in {"z", "\\", "\"", " ", "#"}, c \in Characters}
  \cup {<<"\\", c, " ">> : c \in Characters} \cup {<<"\"", c, "\"">> : c \in Characters}
  \cup {<<"z", " ", "\\", c>> : c \in {" ", "\\"}}
  \cup {<<"\"", "z", "\\", c, "\"", " ">> : c \in {"z", "\\", "\""}}
ManyTexts ==
  {<<"cn", "=">> \o characters : characters \in Values}
  \cup {<<"ST", " ", "=", "z", ",", "OID.", "2.5.4.3", "=", "\"", ",", "\"">>,
        <<" ", "O", "=", "#", "a", "a", "+", " ", "CN", "=", "\\", "a", "a", " ">>}

\* All of them are parsed, and one of each result is kept: what becomes of a DN depends on
\* the attributes that its text yields.
MCTexts == {CHOOSE t \in ManyTexts : parse_dn(t) = list : list \in {parse_dn(t) : t \in ManyTexts}}
MCAttributes == {Attribute(<<"O">>, <<"z">>)}
MCOrders == {<<<<"O">>, Unknown, <<"CN">>, Unknown>>}
Symmetric == Permutations(Handles)
==============================================================================
