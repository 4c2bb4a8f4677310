------------------------------ MODULE Authority ------------------------------
(***************************************************************************)
(* Credentials, as authority.go mints and verifies them.  Both ends are a  *)
(* list of checks in a fixed order of which the first that refuses decides *)
(* the error, and are written here as such lists.                          *)
(*                                                                         *)
(* Abstractions.  base64 and JSON are the shape of a credential: what each *)
(* decoder makes of it.  A signature is the key that made it over exactly  *)
(* these bytes.  Times are in ticks, of which Unix() keeps the whole seconds; *)
(* lifetimes are subtracted in the width of an int64, here IntBits.        *)
(***************************************************************************)
EXTENDS Integers, SequencesExt

CONSTANTS
  Transactions,     \* the values of Binding, what a host is about to do
  Digest,           \* Binding.Digest of each
  TrustedIssuers,   \* Verifier.TrustedIssuers: issuer name |-> public key
  ShortKey,         \* a key of the wrong size
  AllowTestMethod,  \* Verifier.AllowTestMethod
  MaxLifetime,      \* seconds
  MaxClockSkew,     \* seconds
  TicksPerSecond,   \* resolution of the clock
  IntBits           \* width of the issuance and expiry times

ASSUME LimitsArePositive == /\ MaxLifetime \in Nat \ {0}
                            /\ MaxClockSkew \in Nat
                            /\ TicksPerSecond \in Nat \ {0}
                            /\ IntBits \in Nat \ {0}
ASSUME AllowIsBoolean    == AllowTestMethod \in BOOLEAN
\* Length prefixes make the hashed bytes determine the fields (the theorem
\* DigestIsInjective of ReceiptProofs), and SHA-256 is taken to have no
\* collisions.
ASSUME DigestIsInjective == /\ DOMAIN Digest = Transactions
                            /\ \A s, t \in Transactions : Digest[s] = Digest[t] => s = t

Version      == "bounded-authority/1"
KnownMethods == {"passkey", "hardware_token", "delegated_mandate", "test_authenticator"}

\* What the strings on either side of the first dot decode to.
Shapes == {"no_dot",         \* one of the two parts is missing
           "bad_signature",  \* the signature is not base64url
           "bad_payload",    \* the payload is not base64url of JSON
           "extra_field",    \* JSON with a field the format does not have
           "exact"}

Errors == {"malformed", "untrusted_issuer", "bad_signature", "wrong_version",
           "test_method_refused", "lifetime_too_long", "not_yet_valid",
           "expired", "binding_mismatch"}

-----------------------------------------------------------------------------
(* Time *)

Skew == MaxClockSkew * TicksPerSecond

\* Time.Unix: whole seconds, rounded down.
Unix(t) == t \div TicksPerSecond

\* Two's complement in IntBits bits.
Wrap(n) == ((n + 2^(IntBits - 1)) % 2^IntBits) - 2^(IntBits - 1)

\* Faulty variants of the predicates below.
NoCeiling(p)                 == FALSE
ExpiredAtOnce(p, now)        == Unix(now) > p.exp
NotYetValidAtOnce(p, now)    == Unix(now) < p.iat

LifetimeTooLong(p)  == Wrap(p.exp - p.iat) > MaxLifetime
NotYetValid(p, now) == Unix(now + Skew) < p.iat
Expired(p, now)     == Unix(now - Skew) > p.exp

-----------------------------------------------------------------------------
(* Lists of checks *)

\* The first check of a list that refuses, if any, decides.
FirstRefusal(checks) ==
  LET k == SelectInSeq(checks, LAMBDA c : c.refuses)
  IN  IF k = 0 THEN "ok" ELSE checks[k].error

Check(refuses, error) == [refuses |-> refuses, error |-> error]

-----------------------------------------------------------------------------
(* Verifier.Verify *)

\* The lookup of the key, by the issuer the payload claims.
Known(name) == name \in DOMAIN TrustedIssuers

\* Faulty variants of WindowChecks.
BindingBeforeWindow(p, want, now) ==
  << Check(p.exp <= p.iat,            "malformed"),
     Check(LifetimeTooLong(p),        "lifetime_too_long"),
     Check(p.binding # Digest[want],  "binding_mismatch"),
     Check(NotYetValid(p, now),       "not_yet_valid"),
     Check(Expired(p, now),           "expired") >>

EmptyLifetimeAccepted(p, want, now) ==
  << Check(LifetimeTooLong(p),        "lifetime_too_long"),
     Check(NotYetValid(p, now),       "not_yet_valid"),
     Check(Expired(p, now),           "expired"),
     Check(p.binding # Digest[want],  "binding_mismatch") >>

\* Lifetime, clock and binding: steps 9 to 11 of SPEC 4.
WindowChecks(p, want, now) ==
  << Check(p.exp <= p.iat,            "malformed"),
     Check(LifetimeTooLong(p),        "lifetime_too_long"),
     Check(NotYetValid(p, now),       "not_yet_valid"),
     Check(Expired(p, now),           "expired"),
     Check(p.binding # Digest[want],  "binding_mismatch") >>

\* Faulty variant of ContentChecks: any trusted key will do.
AnyTrustedKey(c) ==
  LET p == c.payload IN
  << Check(c.shape # "exact",                "malformed"),
     Check(~ Known(p.iss),                   "untrusted_issuer"),
     Check(\A n \in DOMAIN TrustedIssuers : TrustedIssuers[n] # c.signer, "bad_signature"),
     Check(p.jti = "",                       "malformed") >>

\* Everything before them.  The assertion that the issuer did not change between
\* the two readings of the payload is left out: both read the same bytes, so it
\* can refuse nothing.
ContentChecks(c) ==
  LET p == c.payload IN
  << Check(c.shape = "no_dot",               "malformed"),
     Check(c.shape = "bad_signature",        "malformed"),
     Check(c.shape = "bad_payload",          "malformed"),
     Check(~ Known(p.iss),                   "untrusted_issuer"),
     Check(Known(p.iss) /\ TrustedIssuers[p.iss] = ShortKey, "malformed"),
     Check(Known(p.iss) /\ TrustedIssuers[p.iss] # c.signer, "bad_signature"),
     Check(c.shape = "extra_field",          "malformed"),
     Check(p.v # Version,                    "wrong_version"),
     Check(p.jti = "",                       "malformed"),
     Check(p.method \notin KnownMethods,     "malformed"),
     Check(p.method = "test_authenticator" /\ ~ AllowTestMethod, "test_method_refused") >>

\* Verify a credential against the transaction about to be performed.
Verify(c, want, now) ==
  FirstRefusal(ContentChecks(c) \o WindowChecks(c.payload, want, now))

-----------------------------------------------------------------------------
(* Issuer.Mint *)

MintChecks(issuer, p) ==
  << Check(issuer.key = ShortKey,            "malformed"),
     Check(issuer.name = "",                 "malformed"),
     Check(p.jti = "" \/ p.sub = "" \/ p.binding = "", "malformed"),
     Check(p.method = "",                    "malformed"),
     Check(p.method \notin KnownMethods,     "malformed"),
     Check(p.exp <= p.iat,                   "malformed"),
     Check(LifetimeTooLong(p),                 "lifetime_too_long") >>

MintError(issuer, p) == FirstRefusal(MintChecks(issuer, p))

\* What Mint signs: the payload with the version and the issuer filled in.
Signed(issuer, p) ==
  [shape   |-> "exact",
   payload |-> [p EXCEPT !.v = Version, !.iss = issuer.name],
   signer  |-> issuer.key]
=============================================================================
