---------------------------- MODULE MCAuthorise ----------------------------
(* Model-checking instances of Authorise. *)
EXTENDS Authorise

CONSTANTS rent, fees, dRent, dFees, kBank, kApp

MCTransactions == {rent, fees}
MCDigest  == [t \in MCTransactions |-> IF t = rent THEN dRent ELSE dFees]
MCTrusted == [name \in {"bank", "app"} |-> IF name = "bank" THEN kBank ELSE kApp]

Bank == [name |-> "bank", key |-> kBank]
App  == [name |-> "app",  key |-> kApp]

OneIssuer  == {Bank}
TwoIssuers == {Bank, App}

\* A credential for the rent in the bank's name under the app's key.
MCStrays ==
  {Signed([name |-> "bank", key |-> kApp],
          [v |-> "", iss |-> "", jti |-> "j1", sub |-> "user", method |-> "passkey",
           binding |-> dRent, iat |-> 0, exp |-> 1])}

\* The theorems about Authorise speak of these instances.
ASSUME TheoremsApply == KeysAreHeld
=============================================================================
