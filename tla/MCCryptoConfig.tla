---------------------------- MODULE MCCryptoConfig ----------------------------
(***************************************************************************)
(* Inputs of CryptoConfig for TLC.                                         *)
(***************************************************************************)
EXTENDS CryptoConfig

CONSTANT w1

MCTexts == {<<>>, <<"x">>}

Url(host, port, user, password, baseDn, flags) ==
  [host |-> host, port |-> port, user |-> user, password |-> password,
   baseDn |-> baseDn, flags |-> flags]

\* Servers with and without a port, with separators and percent signs in the
\* user's name and password, and with and without a base DN and flags.
MCUrls == {
  Url(<<"x">>, <<>>, <<>>, <<>>, <<>>, <<>>),
  Url(<<"x">>, <<Number>>, <<"x", Colon>>, <<Percent, "3", "a">>, <<"x", Colon>>, <<Ldap>>),
  Url(<<"x", Ldap>>, <<Number>>, <<Percent>>, <<Colon, Colon>>, <<>>, <<"x">>)}
==============================================================================
