--------------------------- MODULE MCPresentation ---------------------------
(* Model-checking instances of Presentation. *)
EXTENDS Presentation

CONSTANTS rent, fees, dRent, dFees, dOther, kBank, kApp, kForged

MCTransactions == {rent, fees}
MCDigest  == [t \in MCTransactions |-> IF t = rent THEN dRent ELSE dFees]
MCTrusted == [name \in {"bank", "app", "misconfigured"} |->
                CASE name = "bank" -> kBank [] name = "app" -> kApp [] OTHER -> ShortKey]

\* Every deviation from a good credential of the bank: in shape, in content, in
\* signer, and in the times an issuer may set.
Payload(v, jti, iss, sub, method, binding, iat, exp) ==
  [v |-> v, jti |-> jti, iss |-> iss, sub |-> sub, method |-> method,
   binding |-> binding, iat |-> iat, exp |-> exp]

Credential(shape, payload, signer) ==
  [shape |-> shape, payload |-> payload, signer |-> signer]

Issuances == 0..3
Lifetimes == (-1)..4

Misshapen ==
  {Credential(shape, Payload(v, "j", iss, "user", m, dRent, 2, 4), k) :
     shape \in Shapes, v \in {Version, "bounded-authority/2"},
     iss \in {"bank", "app", "misconfigured", "stranger"},
     m \in KnownMethods \cup {"", "passkey "}, k \in {kBank, kApp, kForged}}

Mistimed ==
  {Credential("exact", Payload(Version, j, "bank", "user", "passkey", d, iat, iat + life), kBank) :
     j \in {"j", ""}, d \in {dRent, dFees, dOther}, iat \in Issuances, life \in Lifetimes}

MCCredentials == Misshapen \cup Mistimed

\* A trusted issuer that leaves the subject out.
NoSubject ==
  {Credential("exact", Payload(Version, "j", "bank", sub, "passkey", dRent, 1, 2), kBank) :
     sub \in {"user", ""}}

\* Times at the two ends of the integers.
Extremes ==
  {Credential("exact", Payload(Version, "j", "bank", "user", "passkey", dRent, iat, exp), kBank) :
     iat \in {-8, 0}, exp \in {2, 7}}

\* The theorems about Presentation speak of these credentials; the two kinds of
\* credential left out of one of them each are the ones that break a property.
ASSUME TheoremsApply ==
  /\ TimesAreIntegers /\ DigestsAreHex
  /\ Identified      <=> Credentials # NoSubject
  /\ LifetimesFit    <=> Credentials # Extremes
  /\ IssuedAfterZero <=> Credentials # Extremes
=============================================================================
