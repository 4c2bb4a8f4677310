-------------------------- MODULE PresentationProofs --------------------------
(***************************************************************************)
(* Proofs about Presentation, for every verifier, every clock resolution   *)
(* and every set of credentials that meets the conditions a theorem names. *)
(***************************************************************************)
EXTENDS Presentation, AuthorityProofs

\* The clock only runs forward, from 0, and the credential stays the same.
IInv ==
  /\ credential \in Credentials
  /\ want \in Transactions
  /\ now \in Nat

\* What the proofs know of every reachable state.
LEMMA Invariance == Spec => []IInv
<1>1. Init => IInv
  BY DEF Init, IInv
<1>2. IInv /\ [Next]_vars => IInv'
  BY DEF IInv, Next, Tick, Present, vars
<1> QED
  BY <1>1, <1>2, PTL DEF Spec

-----------------------------------------------------------------------------
(* Both ends *)

\* Verify accepts what Mint would have signed, but for a subject, or the
\* issuer's name, left out: Mint requires both and Verify looks at neither.
THEOREM OnlyNamesAreUnchecked ==
  ASSUME DigestsAreHex
  PROVE  Spec => [](Verdict = "ok" =>
                      (MintError([name |-> p.iss, key |-> credential.signer], p) = "ok"
                         <=> p.sub # "" /\ p.iss # ""))
<1>1. ASSUME IInv, Verdict = "ok"
      PROVE  MintError([name |-> p.iss, key |-> credential.signer], p) = "ok"
               <=> p.sub # "" /\ p.iss # ""
  <2>1. Genuine(credential) /\ Bounded(p) /\ p.binding = Digest[want]
    BY <1>1, VerifyDecides DEF Verdict, p
  <2>2. p.binding # ""
    BY <1>1, <2>1, DigestsAreHex DEF IInv, DigestsAreHex
  <2> DEFINE issuer == [name |-> p.iss, key |-> credential.signer]
  <2>3. issuer.name = p.iss /\ issuer.key = credential.signer
    OBVIOUS
  <2> HIDE DEF issuer
  <2>4. /\ issuer.key # ShortKey
        /\ p.jti # "" /\ p.method \in KnownMethods
    BY <2>1, <2>3 DEF Genuine, p
  <2>5. MintError(issuer, p) = "ok" <=> p.sub # "" /\ p.iss # ""
    BY <2>1, <2>2, <2>3, <2>4, MintDecides
  <2> QED
    BY <2>5 DEF issuer
<1> QED
  BY <1>1, Invariance, PTL

\* So both ends enforce the same rules wherever credentials name their subject:
\* what Verify accepts, Mint would have signed.
THEOREM BothEndsAgree ==
  ASSUME DigestsAreHex, Identified
  PROVE  Spec => []EnforcedAtBothEnds
<1>1. ASSUME IInv,
             Verdict = "ok" =>
               (MintError([name |-> p.iss, key |-> credential.signer], p) = "ok"
                  <=> p.sub # "" /\ p.iss # "")
      PROVE  EnforcedAtBothEnds
  <2> SUFFICES ASSUME Verdict = "ok"
               PROVE  p.sub # "" /\ p.iss # ""
    BY <1>1 DEF EnforcedAtBothEnds
  <2>1. Known(p.iss)
    <3>1. Genuine(credential)
      BY VerifyDecides DEF Verdict
    <3> QED
      BY <3>1 DEF p, Genuine
  <2> QED
    BY <1>1, <2>1, Identified DEF IInv, Identified, Known, p
<1> QED
  BY <1>1, Invariance, OnlyNamesAreUnchecked, PTL

-----------------------------------------------------------------------------
(* The window, in ticks *)

\* The tolerance is a number of ticks.
LEMMA SkewIsNat == Skew \in Nat /\ TicksPerSecond \in Nat \ {0}
  BY LimitsArePositive DEF Skew

\* When a credential is early and when it is late.
LEMMA WindowInTicks ==
  ASSUME NEW q, q.iat \in Int, q.exp \in Int, NEW t \in Int
  PROVE  /\ NotYetValid(q, t) <=> t + Skew < q.iat * TicksPerSecond
         /\ Expired(q, t)     <=> t - Skew >= (q.exp + 1) * TicksPerSecond
<1>1. Skew \in Int /\ TicksPerSecond \in Int
  BY SkewIsNat
<1>2. q.iat * TicksPerSecond \in Int /\ (q.exp + 1) * TicksPerSecond \in Int
  BY <1>1
<1>3. Unix(t + Skew) \in Int /\ (q.iat <= Unix(t + Skew) <=> q.iat * TicksPerSecond <= t + Skew)
  BY <1>1, UnixReaches
<1>4. /\ Unix(t - Skew) \in Int
      /\ q.exp + 1 <= Unix(t - Skew) <=> (q.exp + 1) * TicksPerSecond <= t - Skew
  BY <1>1, UnixReaches
<1> QED
  BY <1>1, <1>2, <1>3, <1>4 DEF NotYetValid, Expired

\* However an issuer sets iat and exp, a credential is accepted only within the
\* maximum lifetime, the skew at both ends and the second Unix() rounds off.
THEOREM CeilingHolds ==
  ASSUME TimesAreIntegers, LifetimesFit
  PROVE  Spec => []UsableWithinCeiling
<1>1. ASSUME IInv PROVE UsableWithinCeiling
  <2> SUFFICES ASSUME Verdict = "ok", NEW t \in 0..now, "ok" \in OwnVerdict(t)
               PROVE  now - t < (MaxLifetime + 1) * TicksPerSecond + 2 * Skew
    BY DEF UsableWithinCeiling
  <2> DEFINE T == TicksPerSecond
  <2>1. p.iat \in Int /\ p.exp \in Int /\ now \in Int /\ t \in Int
    BY <1>1, TimesAreIntegers DEF IInv, TimesAreIntegers, p
  <2>2. Skew \in Nat /\ T \in Nat /\ MaxLifetime \in Nat
    BY SkewIsNat, LimitsArePositive
  <2>3. ~ Expired(p, now) /\ Bounded(p)
    BY VerifyDecides DEF Verdict, p
  <2>4. ~ NotYetValid(p, t)
    BY VerifyDecides DEF OwnVerdict, p
  <2>5. p.exp - p.iat <= MaxLifetime
    BY <1>1, <2>1, <2>2, <2>3, LifetimesFit
    DEF IInv, LifetimesFit, Bounded, LifetimeTooLong, p
  <2>6. now - Skew < (p.exp + 1) * T /\ t + Skew >= p.iat * T
    <3>1. (p.exp + 1) * T \in Int /\ p.iat * T \in Int
      BY <2>1, <2>2
    <3> QED
      BY <2>1, <2>2, <2>3, <2>4, <3>1, WindowInTicks
  <2>7. (p.exp + 1) * T <= (p.iat + MaxLifetime + 1) * T
    BY <2>1, <2>2, <2>5
  <2>8. (p.iat + MaxLifetime + 1) * T = p.iat * T + (MaxLifetime + 1) * T
    BY <2>1, <2>2
  <2>9. /\ (p.exp + 1) * T \in Int /\ p.iat * T \in Int
        /\ (MaxLifetime + 1) * T \in Int /\ (p.iat + MaxLifetime + 1) * T \in Int
    BY <2>1, <2>2
  <2> QED
    BY <2>1, <2>2, <2>6, <2>7, <2>8, <2>9
<1> QED
  BY <1>1, Invariance, PTL

\* An error says what it says: a mismatch is live authority for another payment,
\* and what has expired was good at some earlier time.
THEOREM ErrorsAreInformative ==
  ASSUME TimesAreIntegers, IssuedAfterZero
  PROVE  Spec => []ErrorsTellApart
<1>1. ASSUME IInv, Verdict = "binding_mismatch" PROVE OwnVerdict(now) \subseteq {"ok"}
  <2> SUFFICES ASSUME NEW w \in Transactions, Digest[w] = p.binding
               PROVE  Verify(credential, w, now) = "ok"
    BY DEF OwnVerdict
  <2> QED
    BY <1>1, VerifyDecides DEF Verdict, p
<1>2. ASSUME IInv, Verdict = "expired"
      PROVE  \E t \in (-Skew)..(now - 1) : OwnVerdict(t) \subseteq {"ok"}
  <2> DEFINE T == TicksPerSecond
             t == (p.exp + 1) * T + Skew - 1
  <2>1. /\ p.iat \in Int /\ p.exp \in Int /\ p.iat >= 0 /\ now \in Int
        /\ Skew \in Nat /\ T \in Nat \ {0}
    BY <1>2, TimesAreIntegers, IssuedAfterZero, SkewIsNat
    DEF IInv, TimesAreIntegers, IssuedAfterZero, p
  <2>2. Genuine(credential) /\ Bounded(p) /\ Expired(p, now)
    BY <1>2, VerifyDecides DEF Verdict, p
  <2>3. p.iat < p.exp
    BY <2>1, <2>2 DEF Bounded
  <2>4. /\ p.iat * T \in Int /\ (p.exp + 1) * T \in Int
        /\ p.iat * T >= 0 /\ p.iat * T < (p.exp + 1) * T
    BY <2>1, <2>3
  <2>5. t \in (-Skew)..(now - 1)
    <3>1. now - Skew >= (p.exp + 1) * T
      BY <2>1, <2>2, WindowInTicks
    <3> QED
      BY <2>1, <2>4, <3>1
  <2>6. ~ NotYetValid(p, t) /\ ~ Expired(p, t)
    BY <2>1, <2>4, <2>5, WindowInTicks
  <2> HIDE DEF t
  <2>7. ASSUME NEW w \in Transactions, Digest[w] = p.binding
        PROVE  Verify(credential, w, t) = "ok"
    BY <2>2, <2>6, <2>7, VerifyDecides DEF p
  <2> QED
    BY <2>5, <2>7 DEF OwnVerdict
<1> QED
  BY <1>1, <1>2, Invariance, PTL DEF ErrorsTellApart

\* Clocks may differ by the skew: nobody is turned away early, nor before the
\* lifetime has really passed.
THEOREM DriftIsHarmless ==
  ASSUME TimesAreIntegers
  PROVE  Spec => []DriftIsTolerated
<1>1. ASSUME IInv PROVE DriftIsTolerated
  <2> SUFFICES ASSUME NEW m \in 0..now, NEW drift \in (-Skew)..Skew, p.iat = Unix(m + drift)
               PROVE  /\ Verdict # "not_yet_valid"
                      /\ Verdict = "expired" => now - m > (p.exp - p.iat) * TicksPerSecond
    BY DEF DriftIsTolerated
  <2> DEFINE T == TicksPerSecond
  <2>1. /\ p.iat \in Int /\ p.exp \in Int /\ now \in Int
        /\ Skew \in Nat /\ T \in Nat \ {0} /\ m \in Int /\ drift \in Int
    BY <1>1, TimesAreIntegers, SkewIsNat DEF IInv, TimesAreIntegers, p
  <2>2. p.iat * T <= m + drift /\ m + drift < (p.iat + 1) * T
    <3>1. p.iat * T \in Int /\ (p.iat + 1) * T \in Int /\ m + drift \in Int
      BY <2>1
    <3>2. p.iat <= Unix(m + drift) <=> p.iat * T <= m + drift
      BY <2>1, UnixReaches
    <3>3. p.iat + 1 <= Unix(m + drift) <=> (p.iat + 1) * T <= m + drift
      BY <2>1, UnixReaches
    <3> QED
      BY <2>1, <3>1, <3>2, <3>3
  <2>3. ~ NotYetValid(p, now)
    BY <2>1, <2>2, WindowInTicks, p.iat * T \in Int
  <2>4. Verdict # "not_yet_valid"
    BY <2>3, VerifyDecides DEF Verdict, p
  <2>5. ASSUME Verdict = "expired" PROVE now - m > (p.exp - p.iat) * T
    <3>1. now - Skew >= (p.exp + 1) * T
      BY <2>1, <2>5, VerifyDecides, WindowInTicks DEF Verdict, p
    <3>2. (p.exp + 1) * T = (p.exp - p.iat) * T + (p.iat + 1) * T
      BY <2>1
    <3>3. (p.exp - p.iat) * T \in Int /\ (p.iat + 1) * T \in Int /\ (p.exp + 1) * T \in Int
      BY <2>1
    <3> QED
      BY <2>1, <2>2, <3>1, <3>2, <3>3
  <2> QED
    BY <2>4, <2>5
<1> QED
  BY <1>1, Invariance, PTL

\* Once expired, a credential stays expired whatever it is presented for.
THEOREM ExpiryLasts ==
  ASSUME TimesAreIntegers
  PROVE  Spec => ExpiryIsFinal
<1>1. ASSUME IInv, [Next]_vars PROVE Verdict = "expired" => Verdict' = "expired"
  <2> SUFFICES ASSUME Verdict = "expired" PROVE Verdict' = "expired"
    OBVIOUS
  <2>1. /\ p.iat \in Int /\ p.exp \in Int /\ now \in Int
        /\ Skew \in Nat /\ TicksPerSecond \in Nat \ {0}
    BY <1>1, TimesAreIntegers, SkewIsNat DEF IInv, TimesAreIntegers, p
  <2>2. credential' = credential /\ (now' = now \/ now' = now + 1)
    BY <1>1 DEF Next, Tick, Present, vars
  <2>3. /\ Genuine(credential) /\ Bounded(p)
        /\ ~ NotYetValid(p, now) /\ Expired(p, now)
    BY VerifyDecides DEF Verdict, p
  <2>4. ~ NotYetValid(p, now') /\ Expired(p, now')
    <3>1. p.iat * TicksPerSecond \in Int /\ (p.exp + 1) * TicksPerSecond \in Int
      BY <2>1
    <3> QED
      BY <2>1, <2>2, <2>3, <3>1, WindowInTicks
  <2>5. Verify(credential, want', now') = "expired"
    BY <2>3, <2>4, VerifyDecides DEF p
  <2> QED
    BY <2>2, <2>5 DEF Verdict
<1> QED
  BY <1>1, Invariance, PTL DEF Spec, ExpiryIsFinal
=============================================================================
