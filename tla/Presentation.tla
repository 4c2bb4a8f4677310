---------------------------- MODULE Presentation ----------------------------
(***************************************************************************)
(* One credential presented again and again: time passes, and hosts verify *)
(* it against one transaction or another.  No store is involved, so this   *)
(* is what Verify alone promises, over every credential of a set that      *)
(* holds ones no honest Mint would have signed.                            *)
(***************************************************************************)
EXTENDS Authority

CONSTANTS
  Credentials,  \* the credentials somebody may hold
  MaxNow        \* bound on the clock, in ticks

VARIABLES
  credential,   \* the credential being presented
  want,         \* the transaction it is verified against
  now           \* the verifier's clock

vars == <<credential, want, now>>

Init ==
  /\ credential \in Credentials
  /\ want \in Transactions
  /\ now = 0

\* The verifier's clock advances.
Tick ==
  /\ now < MaxNow
  /\ now' = now + 1
  /\ UNCHANGED <<credential, want>>

\* The credential is presented for another transaction.
Present ==
  /\ want' \in Transactions \ {want}
  /\ UNCHANGED <<credential, now>>

Next == Tick \/ Present

Spec == Init /\ [][Next]_vars

-----------------------------------------------------------------------------
(* Conditions on credentials and verifiers, under which the properties hold *)

\* The times of a credential are integers.
TimesAreIntegers ==
  \A c \in Credentials : c.payload.iat \in Int /\ c.payload.exp \in Int

\* The subtraction of the lifetime does not leave the width of an int64.
LifetimesFit ==
  \A c \in Credentials :
    Wrap(c.payload.exp - c.payload.iat) = c.payload.exp - c.payload.iat

\* No credential was issued before the clock began.
IssuedAfterZero == \A c \in Credentials : c.payload.iat >= 0

\* Every credential names its subject, and no trusted issuer is nameless.
Identified ==
  /\ \A c \in Credentials : c.payload.sub # ""
  /\ "" \notin DOMAIN TrustedIssuers

\* Digest is the hexadecimal of a hash, which is not empty.
DigestsAreHex == \A t \in Transactions : Digest[t] # ""

-----------------------------------------------------------------------------
(* Properties *)

p       == credential.payload
Verdict == Verify(credential, want, now)

\* The transaction the credential was made for gets this verdict at time t.
OwnVerdict(t) == {Verify(credential, w, t) : w \in {x \in Transactions : Digest[x] = p.binding}}

\* Both ends enforce the same rules: Verify never accepts what an honest Mint
\* under the same key would have refused to sign.
EnforcedAtBothEnds ==
  Verdict = "ok" => MintError([name |-> p.iss, key |-> credential.signer], p) = "ok"

\* However an issuer sets iat and exp, a credential is accepted only within a
\* span of the maximum lifetime, the skew at both ends and the second that
\* Unix() rounds off.
UsableWithinCeiling ==
  Verdict = "ok" =>
    \A t \in 0..now :
      "ok" \in OwnVerdict(t) => now - t < (MaxLifetime + 1) * TicksPerSecond + 2 * Skew

\* Errors are worth telling apart: a binding mismatch is authority that is good
\* right now for another payment, and an expired one was good once.
ErrorsTellApart ==
  /\ Verdict = "binding_mismatch" => OwnVerdict(now) \subseteq {"ok"}
  /\ Verdict = "expired"          => \E t \in (-Skew)..(now - 1) : OwnVerdict(t) \subseteq {"ok"}

\* Modest drift does no harm: a credential minted at true time m by an issuer
\* whose clock is off by no more than the skew is never early, and is expired
\* for a verifier only once its whole lifetime has really passed.
DriftIsTolerated ==
  \A m \in 0..now, drift \in (-Skew)..Skew :
    p.iat = Unix(m + drift) =>
      /\ Verdict # "not_yet_valid"
      /\ Verdict = "expired" => now - m > (p.exp - p.iat) * TicksPerSecond

\* Expiry is final: neither time nor another transaction makes an expired
\* credential anything else, so a late repointing is not reported as a live one.
ExpiryIsFinal ==
  [][Verdict = "expired" => Verdict' = "expired"]_vars
=============================================================================
