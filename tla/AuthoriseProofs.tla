---------------------------- MODULE AuthoriseProofs ----------------------------
(***************************************************************************)
(* Proofs about Authorise, for any issuers, calls, credentials and hosts,  *)
(* over any store that keeps the contract SingleUse.                       *)
(*                                                                         *)
(* The one thing taken for granted is what a signature is for.             *)
(***************************************************************************)
EXTENDS Authorise, AuthorityProofs

\* Identifiers are what the code makes them: fresh, whoever mints, in one mode.
Identifiers ==
  /\ \A c \in minted : c.payload.jti \in Ids
  /\ FreshIds = "all issuers" =>
       \A c, d \in minted : c.payload.jti = d.payload.jti => c = d

\* What a call was given, and what the two sides hold while it runs.
Requests ==
  /\ DOMAIN request = Calls /\ DOMAIN rec = Calls
  /\ \A a \in Calls : pc[a] # "idle" =>
       request[a] = [credential |-> request[a].credential, want |-> request[a].want]

\* A call is with the store from Consume on.
Phases ==
  \A a \in Calls :
    /\ pc[a] \in {"idle", "verify", "record"} => verdict[a] = "idle"
    /\ pc[a] = "consume" <=> verdict[a] = "open"

\* Every call that got past Verify holds a credential some issuer minted for
\* exactly the transaction requested.
Vouched ==
  \A a \in Calls : pc[a] = "record" \/ verdict[a] # "idle" =>
    /\ request[a].credential \in minted
    /\ Genuine(request[a].credential)
    /\ request[a].credential.payload.binding = Digest[request[a].want]

\* The record a store is given is that of the verified payload.
Recorded ==
  \A a \in Calls : verdict[a] # "idle" =>
    LET p == request[a].credential.payload IN
    /\ rec[a].jti = p.jti /\ rec[a].iss = p.iss /\ rec[a].binding = p.binding
    /\ rec[a].reference = request[a].want
    /\ rec[a].consumedAt \in 0..MaxClock
    /\ presented[a] = p.jti

\* The durable records are those of the calls whose effect is durable.
Ledger ==
  /\ \A a \in applied : verdict[a] # "idle" /\ spent[presented[a]] = a
  /\ \A i \in Ids : spent[i] # None => spent[i] \in applied /\ presented[spent[i]] = i
  /\ \A a \in Calls : verdict[a] = "replay" => spent[presented[a]] \notin {None, a}

IInv == TypeOK /\ Identifiers /\ Requests /\ Phases /\ Vouched /\ Recorded /\ Ledger

-----------------------------------------------------------------------------
(* The inductive invariant *)

\* Nothing has been minted, asked or spent.
LEMMA InductiveInit == Init => IInv
  BY NoneIsNotACall, ClockIsNatural
  DEF Init, Store!Init, IInv, TypeOK, PCs, Store!TypeOK, Store!Open, Identifiers, Requests,
      Phases, Vouched, Recorded, Ledger

\* A genuine credential in circulation was minted by the issuer it names.
LEMMA GenuineMeansMinted ==
  ASSUME KeysAreHeld, NEW c \in minted \cup Strays, Genuine(c) PROVE c \in minted
  BY DEF KeysAreHeld, Genuine

\* Every step of every issuer, call and store keeps the invariant.
LEMMA InductiveStep == ASSUME KeysAreHeld PROVE IInv /\ [Next]_vars => IInv'
<1> SUFFICES ASSUME IInv, [Next]_vars PROVE IInv'
  OBVIOUS
<1> USE NoneIsNotACall DEF IInv
<1>1. CASE UNCHANGED vars
  BY <1>1 DEF vars, TypeOK, Store!TypeOK, Identifiers, Requests, Phases, Vouched, Recorded,
     Ledger
<1>2. CASE Tick
  <2>1. clock' \in 0..MaxClock
    BY <1>2, ClockIsNatural DEF Tick, TypeOK
  <2>2. UNCHANGED <<minted, pc, request, rec, error, presented, spent, applied, verdict>>
    BY <1>2 DEF Tick, call, store
  <2> QED
    BY <2>1, <2>2 DEF TypeOK, Store!TypeOK, Identifiers, Requests, Phases, Vouched,
       Recorded, Ledger
<1>3. ASSUME NEW issuer \in Issuers, NEW i \in Ids, NEW t \in Transactions,
             NEW life \in Lifetimes, Mint(issuer, i, t, life)
      PROVE  IInv'
  <2>1. PICK c : /\ minted' = minted \cup {c} /\ c.payload.jti = i
                 /\ FreshIds = "all issuers" => \A d \in minted : d.payload.jti # i
    BY <1>3 DEF Mint, Signed
  <2>2. UNCHANGED <<clock, pc, request, rec, error, presented, spent, applied, verdict>>
    BY <1>3 DEF Mint, call, store
  <2>3. TypeOK'
    BY <2>1, <2>2 DEF TypeOK, Store!TypeOK
  <2>4. Identifiers'
    BY <2>1 DEF Identifiers
  <2>5. Requests'
    BY <2>1, <2>2 DEF Requests
  <2>6. Phases' /\ Vouched' /\ Recorded' /\ Ledger'
    BY <2>1, <2>2 DEF Phases, Vouched, Recorded, Ledger
  <2> QED
    BY <2>3, <2>4, <2>5, <2>6
<1>4. ASSUME NEW a \in Calls, NEW c \in minted \cup Strays, NEW t \in Transactions,
             Start(a, c, t)
      PROVE  IInv'
  <2>1. UNCHANGED <<clock, minted, rec, error, presented, spent, applied, verdict>>
    BY <1>4 DEF Start, store
  <2>2. verdict[a] = "idle" /\ pc[a] = "idle"
    BY <1>4 DEF Start, Phases
  <2>3. /\ pc' = [pc EXCEPT ![a] = "verify"]
        /\ request' = [request EXCEPT ![a] = [credential |-> c, want |-> t]]
    BY <1>4 DEF Start
  <2>4. Requests'
    BY <2>1, <2>3 DEF Requests, TypeOK
  <2>5. TypeOK'
    BY <2>1, <2>3 DEF TypeOK, PCs, Store!TypeOK, Requests
  <2>6. Phases'
    BY <2>1, <2>2, <2>3 DEF Phases, TypeOK
  <2>7. \A b \in Calls \ {a} : pc'[b] = pc[b] /\ request'[b] = request[b]
    BY <2>3 DEF TypeOK, Requests
  <2>8. Vouched' /\ Recorded'
    BY <2>1, <2>2, <2>3, <2>7 DEF Vouched, Recorded, TypeOK
  <2> QED
    BY <2>1, <2>4, <2>5, <2>6, <2>8 DEF Identifiers, Ledger
<1>5. ASSUME NEW a \in Calls, Refuse(a) PROVE IInv'
  <2>1. UNCHANGED <<clock, minted, request, rec, presented, spent, applied, verdict>>
    BY <1>5 DEF Refuse, store
  <2>2. pc[a] = "verify" /\ pc' = [pc EXCEPT ![a] = "done"]
    BY <1>5 DEF Refuse
  <2>3. error' \in [Calls -> Errors \cup {"none"}]
    <3>1. Outcome(a) \in Errors
      BY <1>5, VerifyDecides DEF Refuse, Outcome
    <3> QED
      BY <1>5, <3>1 DEF Refuse, TypeOK
  <2>4. TypeOK'
    BY <2>1, <2>2, <2>3 DEF TypeOK, PCs, Store!TypeOK
  <2> QED
    BY <2>1, <2>2, <2>4 DEF TypeOK, Identifiers, Requests, Phases, Vouched, Recorded, Ledger
<1>6. ASSUME NEW a \in Calls, Accept(a) PROVE IInv'
  <2>1. UNCHANGED <<clock, minted, request, rec, error, presented, spent, applied, verdict>>
    BY <1>6 DEF Accept, store
  <2>2. pc[a] = "verify" /\ pc' = [pc EXCEPT ![a] = "record"]
    BY <1>6 DEF Accept
  <2>3. /\ Genuine(request[a].credential)
        /\ request[a].credential.payload.binding = Digest[request[a].want]
    BY <1>6, VerifyDecides DEF Accept, Outcome
  <2>4. request[a].credential \in minted
    <3>1. request[a].credential \in minted \cup Strays
      BY <2>2 DEF TypeOK
    <3> QED
      BY <2>3, <3>1, GenuineMeansMinted
  <2>5. TypeOK'
    BY <2>1, <2>2 DEF TypeOK, PCs, Store!TypeOK
  <2>6. Vouched'
    BY <2>1, <2>2, <2>3, <2>4 DEF Vouched, TypeOK
  <2>7. Requests' /\ Phases'
    BY <2>1, <2>2 DEF TypeOK, Requests, Phases
  <2>8. Identifiers' /\ Recorded' /\ Ledger'
    BY <2>1 DEF Identifiers, Recorded, Ledger
  <2> QED
    BY <2>5, <2>6, <2>7, <2>8
<1>7. ASSUME NEW a \in Calls, Consume(a) PROVE IInv'
  <2> DEFINE p == request[a].credential.payload
  <2>1. /\ UNCHANGED <<clock, minted, request, error, spent, applied>>
        /\ pc[a] = "record" /\ pc' = [pc EXCEPT ![a] = "consume"]
        /\ verdict[a] = "idle" /\ verdict' = [verdict EXCEPT ![a] = "open"]
        /\ presented' = [presented EXCEPT ![a] = p.jti]
    BY <1>7 DEF Consume, Store!Present
  <2>2. /\ rec'[a].jti = p.jti /\ rec'[a].iss = p.iss /\ rec'[a].binding = p.binding
        /\ rec'[a].reference = request[a].want /\ rec'[a].consumedAt = clock
        /\ \A b \in Calls \ {a} : rec'[b] = rec[b]
        /\ DOMAIN rec' = Calls
    BY <1>7 DEF Consume, Requests
  <2>3. p.jti \in Ids
    BY <2>1 DEF Vouched, Identifiers
  <2>4. a \notin applied /\ \A i \in Ids : spent[i] # a
    BY <2>1 DEF Ledger
  <2>5. TypeOK'
    BY <2>1, <2>2, <2>3 DEF TypeOK, PCs, Store!TypeOK, Store!Open
  <2>6. Requests' /\ Phases'
    BY <2>1, <2>2 DEF TypeOK, Requests, Phases, Store!TypeOK
  <2>7. Vouched'
    BY <2>1 DEF TypeOK, Vouched, Store!TypeOK
  <2>8. Recorded'
    BY <2>1, <2>2 DEF TypeOK, Recorded, Store!TypeOK
  <2>9. Ledger'
    BY <2>1, <2>4 DEF TypeOK, Ledger, Store!TypeOK
  <2> QED
    BY <2>1, <2>5, <2>6, <2>7, <2>8, <2>9 DEF Identifiers
<1>8. ASSUME NEW a \in Calls, Spend(a) PROVE IInv'
  <2>1. /\ UNCHANGED <<clock, minted, pc, request, rec, error, presented, verdict>>
        /\ verdict[a] \in {"open", "unknown"}
        /\ spent[presented[a]] = None
        /\ spent' = [spent EXCEPT ![presented[a]] = a]
        /\ applied' = applied \cup {a}
    BY <1>8 DEF Spend, Store!Spend, call
  <2>2. presented[a] \in Ids
    BY <2>1 DEF Recorded, Vouched, Identifiers
  <2>3. TypeOK'
    BY <2>1, <2>2 DEF TypeOK, Store!TypeOK
  <2>4. Ledger'
    BY <2>1, <2>2 DEF TypeOK, Ledger, Store!TypeOK
  <2> QED
    BY <2>1, <2>3, <2>4 DEF Identifiers, Requests, Phases, Vouched, Recorded
<1>9. ASSUME NEW a \in Calls, Return(a) PROVE IInv'
  <2>1. PICK v \in Store!Verdicts : Store!Report(a, v)
    BY <1>9 DEF Return
  <2>2. /\ UNCHANGED <<clock, minted, request, rec, error, presented, spent, applied>>
        /\ pc[a] = "consume" /\ pc' = [pc EXCEPT ![a] = "done"]
        /\ verdict[a] = "open" /\ verdict' = [verdict EXCEPT ![a] = v]
        /\ v = "replay" => spent[presented[a]] \notin {None, a}
    BY <1>9, <2>1 DEF Return, Store!Report
  <2>3. v \notin {"idle", "open"}
    BY DEF Store!Verdicts
  <2>4. TypeOK'
    BY <2>2 DEF TypeOK, PCs, Store!TypeOK
  <2>5. Requests' /\ Phases'
    BY <2>2, <2>3 DEF TypeOK, Requests, Phases, Store!TypeOK
  <2>6. Vouched' /\ Recorded' /\ Ledger'
    BY <2>2, <2>3 DEF TypeOK, Vouched, Recorded, Ledger, Store!TypeOK
  <2> QED
    BY <2>2, <2>4, <2>5, <2>6 DEF Identifiers
<1> QED
  BY <1>1, <1>2, <1>3, <1>4, <1>5, <1>6, <1>7, <1>8, <1>9 DEF Next

\* The invariant holds in every reachable state.
LEMMA Invariance == ASSUME KeysAreHeld PROVE Spec => []IInv
  BY InductiveInit, InductiveStep, PTL DEF Spec

-----------------------------------------------------------------------------
(* Theorems *)

\* Calls, records and the store keep their types.
THEOREM TypeCorrectness == ASSUME KeysAreHeld PROVE Spec => []TypeOK
<1>1. IInv => TypeOK
  BY DEF IInv
<1> QED
  BY <1>1, Invariance, PTL

\* No effect without a credential minted for exactly its transaction.
THEOREM NothingWithoutAuthority ==
  ASSUME KeysAreHeld PROVE Spec => []AuthorityBehindEveryEffect
<1>1. ASSUME IInv PROVE AuthorityBehindEveryEffect
  <2> SUFFICES ASSUME NEW a \in applied
               PROVE  /\ rec[a].binding = Digest[request[a].want]
                      /\ rec[a].reference = request[a].want
                      /\ \E c \in minted :
                           /\ c.payload.jti = rec[a].jti /\ c.payload.iss = rec[a].iss
                           /\ c.signer = TrustedIssuers[rec[a].iss]
                           /\ c.payload.binding = Digest[request[a].want]
    BY DEF AuthorityBehindEveryEffect
  <2>1. a \in Calls /\ verdict[a] # "idle"
    BY <1>1 DEF IInv, TypeOK, Store!TypeOK, Ledger
  <2> QED
    BY <1>1, <2>1 DEF IInv, Vouched, Recorded, Genuine
<1> QED
  BY <1>1, Invariance, PTL

\* A credential authorises one transaction and is spent once, whatever the
\* number of calls that hold it.
THEOREM SpentOnce == ASSUME KeysAreHeld PROVE Spec => []OneEffectPerCredential
<1>1. IInv => OneEffectPerCredential
  BY DEF IInv, TypeOK, Store!TypeOK, Ledger, Recorded, OneEffectPerCredential
<1> QED
  BY <1>1, Invariance, PTL

\* Told that a credential has been spent, a host knows what it has paid for:
\* the very payment asked for.  This needs identifiers that are unique among
\* all issuers, not only each one's own.
THEOREM ReplayIsTruthful ==
  ASSUME KeysAreHeld, FreshIds = "all issuers" PROVE Spec => []ReplayMeansSpent
<1>1. ASSUME IInv PROVE ReplayMeansSpent
  <2> SUFFICES ASSUME NEW a \in Calls, verdict[a] = "replay"
               PROVE  \E b \in applied \ {a} : request[b] = request[a]
    BY DEF ReplayMeansSpent
  <2> DEFINE b == spent[presented[a]]
  <2>1. b \notin {None, a} /\ presented[a] \in Ids
    BY <1>1 DEF IInv, Ledger, Recorded, Vouched, Identifiers
  <2>2. b \in applied /\ b \in Calls /\ presented[b] = presented[a] /\ verdict[b] # "idle"
    BY <1>1, <2>1 DEF IInv, Ledger, TypeOK, Store!TypeOK
  <2> HIDE DEF b
  <2>3. request[b].credential = request[a].credential
    <3>1. request[a].credential.payload.jti = request[b].credential.payload.jti
      BY <1>1, <2>2 DEF IInv, Recorded
    <3>2. request[a].credential \in minted /\ request[b].credential \in minted
      BY <1>1, <2>2 DEF IInv, Vouched
    <3> QED
      BY <1>1, <3>1, <3>2 DEF IInv, Identifiers
  <2>4. pc[a] # "idle" /\ pc[b] # "idle"
    BY <1>1, <2>2 DEF IInv, Phases
  <2>5. /\ request[a].want \in Transactions /\ request[b].want \in Transactions
        /\ request[a] = [credential |-> request[a].credential, want |-> request[a].want]
        /\ request[b] = [credential |-> request[b].credential, want |-> request[b].want]
    BY <1>1, <2>2, <2>4 DEF IInv, TypeOK, Requests
  <2>6. Digest[request[a].want] = Digest[request[b].want]
    BY <1>1, <2>2, <2>3 DEF IInv, Vouched
  <2>7. request[a].want = request[b].want
    BY <2>5, <2>6, DigestIsInjective
  <2>8. request[b] = request[a]
    BY <2>3, <2>5, <2>7
  <2> QED
    BY <2>1, <2>2, <2>8
<1> QED
  BY <1>1, Invariance, PTL

=============================================================================
