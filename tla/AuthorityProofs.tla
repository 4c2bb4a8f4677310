--------------------------- MODULE AuthorityProofs ---------------------------
(***************************************************************************)
(* What Authority's operators compute, for every verifier and credential:  *)
(* what a list of checks decides, when Verify and Mint accept, and the      *)
(* arithmetic of the clock.                                                *)
(***************************************************************************)
EXTENDS Authority, WellFoundedInduction, TLAPS

-----------------------------------------------------------------------------
(* Lists of checks *)

CheckList == Seq([refuses : BOOLEAN, error : Errors])

\* A set of indices that is not empty has a least one, and Min finds it.
LEMMA LeastIndex ==
  ASSUME NEW S, S \subseteq Nat, S # {}
  PROVE  Min(S) \in S /\ \A k \in S : Min(S) <= k
<1> DEFINE Less == {pair \in Nat \X Nat : pair[1] < pair[2]}
<1>1. IsWellFoundedOn(Less, Nat)
  BY NatLessThanWellFounded DEF OpToRel
<1>2. PICK m \in S : \A k \in S : <<k, m>> \notin Less
  BY <1>1, WFMin
<1>3. ASSUME NEW k \in S PROVE m <= k
  <2>1. m \in Nat /\ k \in Nat
    OBVIOUS
  <2>2. k < m => <<k, m>> \in Less
    BY <2>1
  <2> HIDE DEF Less
  <2> QED
    BY <1>2, <2>1, <2>2
<1> QED
  BY <1>3 DEF Min

\* Either no check refuses, or the first that does gives its error.
LEMMA FirstRefusalDecides ==
  ASSUME NEW checks \in CheckList
  PROVE  \/ /\ FirstRefusal(checks) = "ok"
            /\ \A k \in 1..Len(checks) : ~ checks[k].refuses
         \/ \E k \in 1..Len(checks) :
              /\ checks[k].refuses
              /\ FirstRefusal(checks) = checks[k].error
              /\ \A j \in 1..(k - 1) : ~ checks[j].refuses
<1> DEFINE I == {k \in 1..Len(checks) : checks[k].refuses}
<1>1. FirstRefusal(checks) = IF I = {} THEN "ok" ELSE checks[Min(I)].error
  <2>1. SelectInSeq(checks, LAMBDA c : c.refuses) = IF I # {} THEN Min(I) ELSE 0
    BY DEF SelectInSeq
  <2>2. I # {} => Min(I) \in 1..Len(checks)
    BY I \subseteq Nat, LeastIndex
  <2> QED
    BY <2>1, <2>2, Len(checks) \in Nat DEF FirstRefusal, CheckList
<1>2. CASE I = {}
  BY <1>1, <1>2
<1>3. CASE I # {}
  <2>1. Min(I) \in I /\ \A k \in I : Min(I) <= k
    BY <1>3, LeastIndex
  <2>2. \A j \in 1..(Min(I) - 1) : ~ checks[j].refuses
    BY <2>1, Len(checks) \in Nat DEF CheckList
  <2> QED
    BY <1>1, <1>3, <2>1, <2>2
<1> QED
  BY <1>2, <1>3

\* A list with a refusal has no other first one.
LEMMA SameRefusal ==
  ASSUME NEW checks \in CheckList, NEW k \in 1..Len(checks), checks[k].refuses,
         \A j \in 1..(k - 1) : ~ checks[j].refuses
  PROVE  FirstRefusal(checks) = checks[k].error
<1>1. PICK i \in 1..Len(checks) : /\ checks[i].refuses
                                  /\ FirstRefusal(checks) = checks[i].error
                                  /\ \A j \in 1..(i - 1) : ~ checks[j].refuses
  BY FirstRefusalDecides
<1>2. i = k
  <2>1. Len(checks) \in Nat
    BY DEF CheckList
  <2> QED
    BY <1>1, <2>1
<1> QED
  BY <1>1, <1>2

\* No error is taken for acceptance.
LEMMA ErrorsAreErrors ==
  ASSUME NEW checks \in CheckList, NEW k \in 1..Len(checks)
  PROVE  checks[k].error \in Errors /\ checks[k].error # "ok"
<1>1. \A R : checks \in Seq(R) => checks[k] \in R
  OBVIOUS
<1>2. checks[k] \in [refuses : BOOLEAN, error : Errors]
  BY <1>1 DEF CheckList
<1> QED
  BY <1>2 DEF Errors

\* Two lists one after the other: the second decides if the first has no
\* objection.
LEMMA FirstRefusalOfTwo ==
  ASSUME NEW s \in CheckList, NEW t \in CheckList
  PROVE  FirstRefusal(s \o t)
           = IF FirstRefusal(s) = "ok" THEN FirstRefusal(t) ELSE FirstRefusal(s)
<1> DEFINE u == s \o t
<1>1. /\ u \in CheckList
      /\ Len(u) = Len(s) + Len(t)
      /\ \A k \in 1..Len(s) : u[k] = s[k]
      /\ \A k \in 1..Len(t) : u[Len(s) + k] = t[k]
  BY DEF CheckList
<1>2. Len(s) \in Nat /\ Len(t) \in Nat
  BY DEF CheckList
<1>3. \A k \in 1..Len(u) : k \in 1..Len(s) \/ \E j \in 1..Len(t) : k = Len(s) + j
  <2> SUFFICES ASSUME NEW k \in 1..Len(u), k > Len(s)
               PROVE  k - Len(s) \in 1..Len(t) /\ k = Len(s) + (k - Len(s))
    BY <1>1, <1>2
  <2> QED
    BY <1>1, <1>2
<1> HIDE DEF u
<1>4. CASE \A k \in 1..Len(u) : ~ u[k].refuses
  <2>1. \A k \in 1..Len(s) : ~ s[k].refuses
    BY <1>1, <1>2, <1>4
  <2>2. \A k \in 1..Len(t) : ~ t[k].refuses
    BY <1>1, <1>2, <1>4
  <2>3. FirstRefusal(u) = "ok" /\ FirstRefusal(s) = "ok" /\ FirstRefusal(t) = "ok"
    BY <1>1, <1>4, <2>1, <2>2, FirstRefusalDecides
  <2> QED
    BY <2>3 DEF u
<1>5. ASSUME NEW k \in 1..Len(u), u[k].refuses, FirstRefusal(u) = u[k].error,
             \A j \in 1..(k - 1) : ~ u[j].refuses
      PROVE  FirstRefusal(u)
               = IF FirstRefusal(s) = "ok" THEN FirstRefusal(t) ELSE FirstRefusal(s)
  <2>1. CASE k \in 1..Len(s)
    <3>1. s[k].refuses /\ u[k] = s[k] /\ \A j \in 1..(k - 1) : ~ s[j].refuses
      BY <1>1, <1>2, <1>5, <2>1
    <3>2. FirstRefusal(s) = s[k].error
      BY <3>1, <2>1, <1>2, SameRefusal
    <3>3. s[k].error # "ok"
      BY <2>1, ErrorsAreErrors
    <3> QED
      BY <1>5, <3>1, <3>2, <3>3
  <2>2. CASE \E j \in 1..Len(t) : k = Len(s) + j
    <3>1. PICK i \in 1..Len(t) : k = Len(s) + i
      BY <2>2
    <3>2. FirstRefusal(s) = "ok"
      <4>1. \A j \in 1..Len(s) : ~ s[j].refuses
        BY <1>1, <1>2, <1>5, <3>1
      <4> QED
        BY <4>1, FirstRefusalDecides
    <3>3. t[i].refuses /\ u[k] = t[i] /\ \A j \in 1..(i - 1) : ~ t[j].refuses
      <4>1. \A j \in 1..(i - 1) : j \in 1..Len(t) /\ Len(s) + j \in 1..(k - 1)
        BY <1>2, <3>1
      <4> QED
        BY <1>1, <1>5, <3>1, <4>1
    <3>4. FirstRefusal(t) = t[i].error
      BY <3>1, <3>3, SameRefusal
    <3> QED
      BY <1>5, <3>2, <3>3, <3>4
  <2> QED
    BY <1>3, <2>1, <2>2
<1> QED
  BY <1>1, <1>4, <1>5, FirstRefusalDecides DEF u

-----------------------------------------------------------------------------
(* What Verify and Mint accept *)

\* A payload both ends would let an issuer sign, but for its subject and issuer.
Bounded(p) == ~ p.exp <= p.iat /\ ~ LifetimeTooLong(p)

\* Steps 1 to 8: a payload of the format, under the key of the issuer it names.
Genuine(c) ==
  /\ c.shape \notin {"no_dot", "bad_signature", "bad_payload", "extra_field"}
  /\ Known(c.payload.iss)
  /\ TrustedIssuers[c.payload.iss] # ShortKey
  /\ TrustedIssuers[c.payload.iss] = c.signer
  /\ c.payload.v = Version
  /\ c.payload.jti # ""
  /\ c.payload.method \in KnownMethods
  /\ c.payload.method = "test_authenticator" => AllowTestMethod

\* The errors of the steps before the window.
ContentErrors == {"malformed", "untrusted_issuer", "bad_signature", "wrong_version",
                  "test_method_refused"}

\* The checks before the window refuse all but genuine credentials.
LEMMA ContentVerdict ==
  ASSUME NEW c
  PROVE  /\ ContentChecks(c) \in CheckList
         /\ FirstRefusal(ContentChecks(c)) \in ContentErrors \cup {"ok"}
         /\ FirstRefusal(ContentChecks(c)) = "ok" <=> Genuine(c)
<1> DEFINE s == ContentChecks(c)
           p == c.payload
<1>1. s \in CheckList /\ Len(s) = 11
  BY AllowIsBoolean DEF ContentChecks, Check, CheckList, Errors
<1>2. /\ s[1].refuses <=> c.shape = "no_dot"
      /\ s[2].refuses <=> c.shape = "bad_signature"
      /\ s[3].refuses <=> c.shape = "bad_payload"
      /\ s[4].refuses <=> ~ Known(p.iss)
      /\ s[5].refuses <=> Known(p.iss) /\ TrustedIssuers[p.iss] = ShortKey
      /\ s[6].refuses <=> Known(p.iss) /\ TrustedIssuers[p.iss] # c.signer
      /\ s[7].refuses <=> c.shape = "extra_field"
      /\ s[8].refuses <=> p.v # Version
      /\ s[9].refuses <=> p.jti = ""
      /\ s[10].refuses <=> p.method \notin KnownMethods
      /\ s[11].refuses <=> p.method = "test_authenticator" /\ ~ AllowTestMethod
  BY DEF ContentChecks, Check
<1>3. \A k \in {1, 2, 3, 4, 5, 6, 7, 8, 9, 10, 11} : s[k].error \in ContentErrors
  <2>1. /\ s[1].error = "malformed" /\ s[2].error = "malformed" /\ s[3].error = "malformed"
        /\ s[4].error = "untrusted_issuer" /\ s[5].error = "malformed"
        /\ s[6].error = "bad_signature" /\ s[7].error = "malformed"
        /\ s[8].error = "wrong_version" /\ s[9].error = "malformed"
        /\ s[10].error = "malformed" /\ s[11].error = "test_method_refused"
    BY DEF ContentChecks, Check
  <2> HIDE DEF s
  <2> QED
    BY <2>1 DEF ContentErrors
<1> HIDE DEF s
<1>4. \A k : k \in 1..11 <=> k \in {1, 2, 3, 4, 5, 6, 7, 8, 9, 10, 11}
  OBVIOUS
<1>5. Genuine(c) <=> \A k \in {1, 2, 3, 4, 5, 6, 7, 8, 9, 10, 11} : ~ s[k].refuses
  BY <1>2 DEF Genuine
<1>6. /\ FirstRefusal(s) \in ContentErrors \cup {"ok"}
      /\ FirstRefusal(s) = "ok" <=> Genuine(c)
  <2>1. CASE \A k \in 1..Len(s) : ~ s[k].refuses
    BY <1>1, <1>4, <1>5, <2>1, FirstRefusalDecides
  <2>2. ASSUME NEW k \in 1..Len(s), s[k].refuses, FirstRefusal(s) = s[k].error
        PROVE  FirstRefusal(s) \in ContentErrors /\ ~ Genuine(c)
    BY <1>1, <1>3, <1>4, <1>5, <2>2
  <2>3. "ok" \notin ContentErrors
    BY DEF ContentErrors
  <2> QED
    BY <1>1, <1>4, <1>5, <2>1, <2>2, <2>3, FirstRefusalDecides
<1> QED
  BY <1>1, <1>6 DEF s

\* The window and the binding, in the order in which they are checked.
LEMMA WindowVerdict ==
  ASSUME NEW p, NEW want, NEW now
  PROVE  LET r == FirstRefusal(WindowChecks(p, want, now))
         IN  /\ WindowChecks(p, want, now) \in CheckList
             /\ ~ Bounded(p) => r \in {"malformed", "lifetime_too_long"}
             /\ Bounded(p) =>
                  /\ r = "not_yet_valid" <=> NotYetValid(p, now)
                  /\ r = "expired" <=> ~ NotYetValid(p, now) /\ Expired(p, now)
                  /\ r \in {"binding_mismatch", "ok"}
                       <=> ~ NotYetValid(p, now) /\ ~ Expired(p, now)
                  /\ r = "ok" => p.binding = Digest[want]
                  /\ r = "binding_mismatch" => p.binding # Digest[want]
<1> DEFINE s == WindowChecks(p, want, now)
<1>1. s \in CheckList /\ Len(s) = 5
  BY DEF WindowChecks, Check, CheckList, Errors, LifetimeTooLong, NotYetValid, Expired
<1>2. /\ s[1].refuses <=> p.exp <= p.iat
      /\ s[2].refuses <=> LifetimeTooLong(p)
      /\ s[3].refuses <=> NotYetValid(p, now)
      /\ s[4].refuses <=> Expired(p, now)
      /\ s[5].refuses <=> p.binding # Digest[want]
      /\ s[1].error = "malformed" /\ s[2].error = "lifetime_too_long"
      /\ s[3].error = "not_yet_valid" /\ s[4].error = "expired"
      /\ s[5].error = "binding_mismatch"
  BY DEF WindowChecks, Check
<1> HIDE DEF s
<1>3. \A k : k \in 1..5 <=> k \in {1, 2, 3, 4, 5}
  OBVIOUS
<1>4. /\ 1..(1 - 1) = {} /\ 1..(2 - 1) = {1} /\ 1..(3 - 1) = {1, 2}
      /\ 1..(4 - 1) = {1, 2, 3} /\ 1..(5 - 1) = {1, 2, 3, 4}
  OBVIOUS
<1>5. \/ FirstRefusal(s) = "ok" /\ \A k \in {1, 2, 3, 4, 5} : ~ s[k].refuses
      \/ FirstRefusal(s) = s[1].error /\ s[1].refuses
      \/ FirstRefusal(s) = s[2].error /\ s[2].refuses /\ ~ s[1].refuses
      \/ FirstRefusal(s) = s[3].error /\ s[3].refuses /\ \A k \in {1, 2} : ~ s[k].refuses
      \/ FirstRefusal(s) = s[4].error /\ s[4].refuses /\ \A k \in {1, 2, 3} : ~ s[k].refuses
      \/ FirstRefusal(s) = s[5].error /\ s[5].refuses /\ \A k \in {1, 2, 3, 4} : ~ s[k].refuses
  BY <1>1, <1>3, <1>4, FirstRefusalDecides
<1> QED
  BY <1>1, <1>2, <1>5 DEF s, Bounded

\* What Verify answers, error by error.
LEMMA VerifyDecides ==
  ASSUME NEW c, NEW want, NEW now
  PROVE  LET p == c.payload
             r == Verify(c, want, now)
             good == Genuine(c) /\ Bounded(p) /\ ~ NotYetValid(p, now)
         IN  /\ r \in Errors \cup {"ok"}
             /\ r = "ok"               <=> good /\ ~ Expired(p, now) /\ p.binding = Digest[want]
             /\ r = "binding_mismatch" <=> good /\ ~ Expired(p, now) /\ p.binding # Digest[want]
             /\ r = "expired"          <=> good /\ Expired(p, now)
             /\ r = "not_yet_valid"    <=> Genuine(c) /\ Bounded(p) /\ NotYetValid(p, now)
<1> DEFINE content == FirstRefusal(ContentChecks(c))
           window  == FirstRefusal(WindowChecks(c.payload, want, now))
<1>1. Verify(c, want, now) = IF content = "ok" THEN window ELSE content
  BY ContentVerdict, WindowVerdict, FirstRefusalOfTwo DEF Verify
<1>2. content \in ContentErrors \cup {"ok"} /\ (content = "ok" <=> Genuine(c))
  BY ContentVerdict
<1>3. /\ ~ Bounded(c.payload) => window \in {"malformed", "lifetime_too_long"}
      /\ Bounded(c.payload) =>
           /\ window = "not_yet_valid" <=> NotYetValid(c.payload, now)
           /\ window = "expired" <=> ~ NotYetValid(c.payload, now) /\ Expired(c.payload, now)
           /\ window \in {"binding_mismatch", "ok"}
                <=> ~ NotYetValid(c.payload, now) /\ ~ Expired(c.payload, now)
           /\ window = "ok" => c.payload.binding = Digest[want]
           /\ window = "binding_mismatch" => c.payload.binding # Digest[want]
  BY WindowVerdict
<1> HIDE DEF content, window
<1>4. window \in {"malformed", "lifetime_too_long", "not_yet_valid", "expired",
                  "binding_mismatch", "ok"}
  BY <1>3
<1> QED
  BY <1>1, <1>2, <1>3, <1>4 DEF ContentErrors, Errors

\* When Mint signs.
LEMMA MintDecides ==
  ASSUME NEW issuer, NEW p
  PROVE  MintError(issuer, p) = "ok"
           <=> /\ issuer.key # ShortKey /\ issuer.name # ""
               /\ p.jti # "" /\ p.sub # "" /\ p.binding # ""
               /\ p.method \in KnownMethods
               /\ Bounded(p)
<1> DEFINE s == MintChecks(issuer, p)
<1>1. s \in CheckList /\ Len(s) = 7
  BY DEF MintChecks, Check, CheckList, Errors, LifetimeTooLong
<1>2. /\ s[1].refuses <=> issuer.key = ShortKey
      /\ s[2].refuses <=> issuer.name = ""
      /\ s[3].refuses <=> p.jti = "" \/ p.sub = "" \/ p.binding = ""
      /\ s[4].refuses <=> p.method = ""
      /\ s[5].refuses <=> p.method \notin KnownMethods
      /\ s[6].refuses <=> p.exp <= p.iat
      /\ s[7].refuses <=> LifetimeTooLong(p)
  BY DEF MintChecks, Check
<1> HIDE DEF s
<1>3. \A k : k \in 1..7 <=> k \in {1, 2, 3, 4, 5, 6, 7}
  OBVIOUS
<1>4. FirstRefusal(s) = "ok" <=> \A k \in 1..7 : ~ s[k].refuses
  <2>1. ASSUME NEW k \in 1..Len(s), s[k].refuses, FirstRefusal(s) = s[k].error
        PROVE  FirstRefusal(s) # "ok"
    BY <1>1, <2>1, ErrorsAreErrors
  <2> QED
    BY <1>1, <2>1, FirstRefusalDecides
<1>5. "" \notin KnownMethods
  BY DEF KnownMethods
<1> QED
  BY <1>2, <1>3, <1>4, <1>5 DEF s, MintError, Bounded

-----------------------------------------------------------------------------
(* Time *)

\* Whole seconds and ticks: rounding down neither reaches a second early nor
\* misses one.
LEMMA UnixReaches ==
  ASSUME NEW t \in Int, NEW n \in Int
  PROVE  Unix(t) \in Int /\ (n <= Unix(t) <=> n * TicksPerSecond <= t)
<1> DEFINE T == TicksPerSecond
           q == t \div T
<1>1. T \in Int /\ T > 0 /\ q \in Int
  BY LimitsArePositive
<1>2. q * T <= t /\ t < (q + 1) * T
  BY <1>1
<1> HIDE DEF T, q
<1>3. n <= q => n * T <= q * T
  BY <1>1
<1>4. n > q => n * T >= (q + 1) * T
  BY <1>1
<1>5. n * T \in Int /\ q * T \in Int /\ (q + 1) * T \in Int
  BY <1>1
<1>6. n <= q <=> n * T <= t
  BY <1>1, <1>2, <1>3, <1>4, <1>5
<1> QED
  BY <1>1, <1>6 DEF Unix, T, q
=============================================================================
