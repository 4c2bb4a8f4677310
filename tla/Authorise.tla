------------------------------ MODULE Authorise ------------------------------
(***************************************************************************)
(* Authorise of store.go: verify a credential against the transaction a    *)
(* host is about to perform, then spend it together with the effect.       *)
(* Issuers mint, calls run concurrently and the clock advances between any *)
(* two of their steps.                                                     *)
(*                                                                         *)
(* The store is the contract of Store.Consume (SingleUse), which           *)
(* PostgresStore implements.  An attempt's effect performs the transaction *)
(* that was verified and cites the record it was given.                    *)
(***************************************************************************)
EXTENDS Authority, FiniteSets

CONSTANTS
  Calls,           \* calls of Authorise
  Ids,             \* values of jti
  Issuers,         \* Issuer values, [name, key]
  Lifetimes,       \* lifetimes an issuer may ask for, in seconds
  Strays,          \* credentials in circulation that no Issuer minted
  FreshIds,        \* among whose credentials a jti is unique
  MaxMinted,       \* bound on the credentials minted
  MaxClock,        \* bound on the clock, in ticks
  None

ASSUME NoneIsNotACall   == None \notin Calls
ASSUME ClockIsNatural   == MaxClock \in Nat
ASSUME FreshIdsIsKnown  == FreshIds \in {"all issuers", "one issuer"}

VARIABLES
  clock,      \* the clock of issuers and verifier
  minted,     \* credentials the issuers have signed
  pc,         \* where each call is
  request,    \* the credential and the transaction each call was given
  rec,        \* the Consumption each call has built
  error,      \* what Verify refused a call with
  presented, spent, applied, verdict   \* the store

Store == INSTANCE SingleUse WITH Attempts <- Calls

call  == <<pc, request, rec, error>>
store == <<presented, spent, applied, verdict>>
vars  == <<clock, minted, pc, request, rec, error, presented, spent, applied, verdict>>

PCs == {"idle", "verify", "record", "consume", "done"}

TypeOK ==
  /\ clock \in 0..MaxClock
  /\ pc \in [Calls -> PCs]
  /\ \A a \in Calls :
       /\ pc[a] # "idle" => request[a].credential \in minted \cup Strays
       /\ pc[a] # "idle" => request[a].want \in Transactions
       /\ pc[a] = "consume" => rec[a].jti \in Ids /\ rec[a].consumedAt \in 0..MaxClock
  /\ error \in [Calls -> Errors \cup {"none"}]
  /\ Store!TypeOK

Init ==
  /\ clock = 0
  /\ minted = {}
  /\ pc = [a \in Calls |-> "idle"]
  /\ request = [a \in Calls |-> None]
  /\ rec = [a \in Calls |-> None]
  /\ error = [a \in Calls |-> "none"]
  /\ Store!Init

-----------------------------------------------------------------------------
(* Issuers and time *)

Tick ==
  /\ clock < MaxClock
  /\ clock' = clock + 1
  /\ UNCHANGED <<minted, call, store>>

\* An issuer authenticates the human and mints for transaction t.
Mint(issuer, i, t, life) ==
  LET p == [v |-> "", iss |-> "", jti |-> i, sub |-> "user", method |-> "passkey",
            binding |-> Digest[t], iat |-> Unix(clock), exp |-> Unix(clock) + life]
  IN /\ Cardinality(minted) < MaxMinted
     /\ \A c \in minted : c.payload.jti = i =>
          FreshIds = "one issuer" /\ c.payload.iss # issuer.name
     /\ MintError(issuer, p) = "ok"
     /\ minted' = minted \cup {Signed(issuer, p)}
     /\ UNCHANGED <<clock, call, store>>

-----------------------------------------------------------------------------
(* Authorise *)

\* Faulty variant of Outcome: the binding is left for later.
OutcomeForAnyBinding(a) ==
  IF \E t \in Transactions : Verify(request[a].credential, t, clock) = "ok"
  THEN "ok" ELSE Verify(request[a].credential, request[a].want, clock)

\* What v.Verify(credential, want) answers now.
Outcome(a) == Verify(request[a].credential, request[a].want, clock)

\* A host calls Authorise with a credential someone handed to it.
Start(a, c, t) ==
  /\ pc[a] = "idle"
  /\ pc' = [pc EXCEPT ![a] = "verify"]
  /\ request' = [request EXCEPT ![a] = [credential |-> c, want |-> t]]
  /\ UNCHANGED <<clock, minted, rec, error, store>>

\* Verification refuses, and nothing is spent.
Refuse(a) ==
  /\ pc[a] = "verify"
  /\ Outcome(a) # "ok"
  /\ pc' = [pc EXCEPT ![a] = "done"]
  /\ error' = [error EXCEPT ![a] = Outcome(a)]
  /\ UNCHANGED <<clock, minted, request, rec, store>>

Accept(a) ==
  /\ pc[a] = "verify"
  /\ Outcome(a) = "ok"
  /\ pc' = [pc EXCEPT ![a] = "record"]
  /\ UNCHANGED <<clock, minted, request, rec, error, store>>

\* Faulty variant: a field of the payload is copied to the wrong place.
ConsumeBySubject(a) ==
  LET p == request[a].credential.payload IN
  /\ pc[a] = "record"
  /\ pc' = [pc EXCEPT ![a] = "consume"]
  /\ rec' = [rec EXCEPT ![a] = [jti |-> p.sub, iss |-> p.iss, sub |-> p.sub,
                                method |-> p.method, binding |-> p.binding,
                                reference |-> request[a].want, consumedAt |-> clock]]
  /\ Store!Present(a, p.sub)
  /\ UNCHANGED <<clock, minted, request, error>>

\* Faulty variant: the record gets an identifier of its own.
ConsumeUnderFreshId(a) ==
  LET p == request[a].credential.payload IN
  /\ pc[a] = "record"
  /\ pc' = [pc EXCEPT ![a] = "consume"]
  /\ \E i \in Ids :
       /\ \A b \in Calls : rec[b] # None => rec[b].jti # i
       /\ rec' = [rec EXCEPT ![a] = [jti |-> i, iss |-> p.iss, sub |-> p.sub,
                                     method |-> p.method, binding |-> p.binding,
                                     reference |-> request[a].want, consumedAt |-> clock]]
       /\ Store!Present(a, i)
  /\ UNCHANGED <<clock, minted, request, error>>

\* The record is built from the verified payload and a second reading of the
\* clock, and handed to store.Consume.
Consume(a) ==
  LET p == request[a].credential.payload IN
  /\ pc[a] = "record"
  /\ pc' = [pc EXCEPT ![a] = "consume"]
  /\ rec' = [rec EXCEPT ![a] = [jti |-> p.jti, iss |-> p.iss, sub |-> p.sub,
                                method |-> p.method, binding |-> p.binding,
                                reference |-> request[a].want, consumedAt |-> clock]]
  /\ Store!Present(a, p.jti)
  /\ UNCHANGED <<clock, minted, request, error>>

\* The store commits the record and the effect, whenever it gets to it.
Spend(a) ==
  /\ pc[a] \in {"consume", "done"}
  /\ Store!Spend(a)
  /\ UNCHANGED <<clock, minted, call>>

\* Consume returns, and Authorise with it.
Return(a) ==
  /\ pc[a] = "consume"
  /\ \E v \in Store!Verdicts : Store!Report(a, v)
  /\ pc' = [pc EXCEPT ![a] = "done"]
  /\ UNCHANGED <<clock, minted, request, rec, error>>

Next ==
  \/ Tick
  \/ \E issuer \in Issuers, i \in Ids, t \in Transactions, life \in Lifetimes :
       Mint(issuer, i, t, life)
  \/ \E a \in Calls :
       \/ \E c \in minted \cup Strays, t \in Transactions : Start(a, c, t)
       \/ Refuse(a) \/ Accept(a) \/ Consume(a) \/ Spend(a) \/ Return(a)

Spec == Init /\ [][Next]_vars

-----------------------------------------------------------------------------
(* What a signature is for *)

\* Only an issuer holds its private key: what no Issuer minted is not signed by
\* the trusted issuer it names.
KeysAreHeld ==
  \A c \in Strays : Known(c.payload.iss) => TrustedIssuers[c.payload.iss] # c.signer

-----------------------------------------------------------------------------
(* Properties *)

\* Nothing is posted without authority: behind every durable effect is a
\* credential that the issuer its record names has minted for exactly the
\* transaction performed, and the record ties the two together.
AuthorityBehindEveryEffect ==
  \A a \in applied :
    LET want == request[a].want IN
    /\ rec[a].binding = Digest[want] /\ rec[a].reference = want
    /\ \E c \in minted :
         /\ c.payload.jti = rec[a].jti /\ c.payload.iss = rec[a].iss
         /\ c.signer = TrustedIssuers[rec[a].iss]
         /\ c.payload.binding = Digest[want]

\* One credential, one effect: no two calls post on the same credential, which
\* Authorise achieves by spending it under the identifier it was minted with.
OneEffectPerCredential ==
  \A a, b \in applied : request[a].credential = request[b].credential => a = b

\* ErrAlreadyConsumed means the credential was already spent, on the payment it
\* is bound to: presenting it elsewhere does not burn it.
ReplayMeansSpent ==
  \A a \in Calls : verdict[a] = "replay" =>
    \E b \in applied \ {a} : request[b] = request[a]
=============================================================================
