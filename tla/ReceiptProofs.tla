---------------------------- MODULE ReceiptProofs ----------------------------
(***************************************************************************)
(* Proofs about Framing and Receipt, for texts of any bytes and lengths and *)
(* receipts of any contents: the framed encoding determines the fields,    *)
(* hence Digest and hash are injective, hence the properties of Receipt.   *)
(***************************************************************************)
EXTENDS Receipt, SequenceTheorems, TLAPS

-----------------------------------------------------------------------------
(* The encoding *)

\* Eight bytes of a number and whatever follows them can be told apart.
LEMMA IntIsFramed ==
  ASSUME NEW v \in Int, NEW w \in Int, NEW s \in Text, NEW t \in Text
  PROVE  /\ writeInt(v, s) \in Text
         /\ writeInt(v, s) = writeInt(w, t) => v = w
         /\ writeInt(v, s) = writeInt(w, t) => s = t
<1>1. /\ <<v>> \in Text /\ Len(<<v>>) = 1 /\ <<v>>[1] = v
      /\ <<w>> \in Text /\ Len(<<w>>) = 1 /\ <<w>>[1] = w
  BY DEF Text
<1>2. writeInt(v, s) \in Text
  BY <1>1, ConcatProperties DEF writeInt, Text
<1>3. ASSUME writeInt(v, s) = writeInt(w, t) PROVE v = w
  <2>1. (<<v>> \o s)[1] = v /\ (<<w>> \o t)[1] = w
    BY <1>1, ConcatProperties, LenProperties DEF Text
  <2> QED
    BY <1>3, <2>1 DEF writeInt
<1>4. ASSUME writeInt(v, s) = writeInt(w, t) PROVE s = t
  <2>1. <<v>> \o s = <<v>> \o t
    BY <1>3, <1>4 DEF writeInt
  <2> QED
    BY <1>1, <2>1, ConcatSimplifications DEF Text
<1> QED
  BY <1>2, <1>3, <1>4

\* So can a length-prefixed text and whatever follows it.
LEMMA FieldIsFramed ==
  ASSUME NEW b \in Text, NEW c \in Text, NEW s \in Text, NEW t \in Text
  PROVE  /\ writeField(b, s) \in Text
         /\ writeField(b, s) = writeField(c, t) => b = c
         /\ writeField(b, s) = writeField(c, t) => s = t
<1>1. /\ Len(b) \in Nat /\ Len(c) \in Nat
      /\ b \o s \in Text /\ c \o t \in Text
  BY LenProperties, ConcatProperties DEF Text
<1>2. /\ writeField(b, s) = writeInt(Len(b), b \o s)
      /\ writeField(c, t) = writeInt(Len(c), c \o t)
  <2>1. <<Len(b)>> \in Text /\ <<Len(c)>> \in Text
    BY <1>1 DEF Text
  <2> QED
    BY <2>1, ConcatAssociative DEF writeField, writeInt, Text
<1>3. writeField(b, s) \in Text
  BY <1>1, <1>2, IntIsFramed
<1>4. ASSUME writeField(b, s) = writeField(c, t)
      PROVE  Len(b) = Len(c) /\ b \o s = c \o t
  <2>1. writeInt(Len(b), b \o s) = writeInt(Len(c), c \o t)
    BY <1>2, <1>4
  <2>2. Len(b) \in Int /\ Len(c) \in Int
    BY <1>1
  <2> QED
    BY <1>1, <2>1, <2>2, IntIsFramed
<1>5. ASSUME writeField(b, s) = writeField(c, t) PROVE b = c
  <2>1. \A i \in 1 .. Len(b) : b[i] = (b \o s)[i] /\ c[i] = (c \o t)[i]
    BY <1>1, <1>4, <1>5, ConcatProperties, LenProperties DEF Text
  <2> QED
    BY <2>1, <1>4, <1>5, SeqEqual DEF Text
<1>6. ASSUME writeField(b, s) = writeField(c, t) PROVE s = t
  BY <1>4, <1>5, <1>6, ConcatSimplifications DEF Text
<1> QED
  BY <1>3, <1>5, <1>6

\* A hash that starts with a text is over something.
LEMMA FieldIsNotEmpty == ASSUME NEW b \in Text, NEW s \in Text PROVE writeField(b, s) # <<>>
<1>1. /\ <<Len(b)>> \in Text /\ Len(<<Len(b)>>) = 1 /\ b \o s \in Text
  BY LenProperties, ConcatProperties DEF Text
<1>2. writeField(b, s) = <<Len(b)>> \o (b \o s)
  BY <1>1, ConcatAssociative DEF writeField, Text
<1> QED
  BY <1>1, <1>2, ConcatEqualIffEmpty, EmptySeq DEF Text

\* The empty text is one.
LEMMA EmptyIsText == <<>> \in Text
BY DEF Text

\* Two transactions with one digest are the same transaction: no rearrangement
\* of adjacent field values produces it (Binding.Digest).
THEOREM DigestIsInjective ==
  ASSUME NEW b \in Bindings, NEW c \in Bindings
  PROVE  /\ Digest(b) = Digest(c) => b = c
         /\ Digest(b) # <<>>
<1> DEFINE ctx(x)  == writeField(x.Context, <<>>)
           ref(x)  == writeField(x.Reference, ctx(x))
           cur(x)  == writeField(x.Currency, ref(x))
           fee(x)  == writeInt(x.FeeMinor, cur(x))
           amt(x)  == writeInt(x.AmountMinor, fee(x))
           payee(x) == writeField(x.Payee, amt(x))
           payer(x) == writeField(x.Payer, payee(x))
<1>t. ASSUME NEW x \in Bindings
      PROVE  /\ x.Payer \in Text /\ x.Payee \in Text /\ x.AmountMinor \in Int
             /\ x.FeeMinor \in Int /\ x.Currency \in Text /\ x.Reference \in Text
             /\ x.Context \in Text
             /\ ctx(x) \in Text /\ ref(x) \in Text /\ cur(x) \in Text
             /\ fee(x) \in Text /\ amt(x) \in Text /\ payee(x) \in Text
             /\ payer(x) \in Text
  <2>1. /\ x.Payer \in Text /\ x.Payee \in Text /\ x.AmountMinor \in Int
        /\ x.FeeMinor \in Int /\ x.Currency \in Text /\ x.Reference \in Text
        /\ x.Context \in Text
    BY DEF Bindings
  <2>2. ctx(x) \in Text BY <2>1, EmptyIsText, FieldIsFramed
  <2>3. ref(x) \in Text BY <2>1, <2>2, FieldIsFramed
  <2>4. cur(x) \in Text BY <2>1, <2>3, FieldIsFramed
  <2>5. fee(x) \in Text BY <2>1, <2>4, IntIsFramed
  <2>6. amt(x) \in Text BY <2>1, <2>5, IntIsFramed
  <2>7. payee(x) \in Text BY <2>1, <2>6, FieldIsFramed
  <2>8. payer(x) \in Text BY <2>1, <2>7, FieldIsFramed
  <2> QED BY <2>1, <2>2, <2>3, <2>4, <2>5, <2>6, <2>7, <2>8
<1>h. Digest(b) = writeField(Version, payer(b)) /\ Digest(c) = writeField(Version, payer(c))
  BY DEF Digest
<1> HIDE DEF ctx, ref, cur, fee, amt, payee, payer
<1>z. Digest(b) # <<>>
  BY <1>h, <1>t, VersionIsText, FieldIsNotEmpty
<1>y. SUFFICES ASSUME Digest(b) = Digest(c) PROVE b = c
  BY <1>z
<1>1. payer(b) = payer(c)
  BY <1>h, <1>y, <1>t, VersionIsText, FieldIsFramed
<1>2. b.Payer = c.Payer /\ payee(b) = payee(c)
  BY <1>1, <1>t, FieldIsFramed DEF payer
<1>3. b.Payee = c.Payee /\ amt(b) = amt(c)
  BY <1>2, <1>t, FieldIsFramed DEF payee
<1>4. b.AmountMinor = c.AmountMinor /\ fee(b) = fee(c)
  BY <1>3, <1>t, IntIsFramed DEF amt
<1>5. b.FeeMinor = c.FeeMinor /\ cur(b) = cur(c)
  BY <1>4, <1>t, IntIsFramed DEF fee
<1>6. b.Currency = c.Currency /\ ref(b) = ref(c)
  BY <1>5, <1>t, FieldIsFramed DEF cur
<1>7. b.Reference = c.Reference /\ ctx(b) = ctx(c)
  BY <1>6, <1>t, FieldIsFramed DEF ref
<1>8. b.Context = c.Context
  BY <1>7, <1>t, EmptyIsText, FieldIsFramed DEF ctx
<1> QED
  BY <1>2, <1>3, <1>4, <1>5, <1>6, <1>7, <1>8 DEF Bindings

\* The instant of a time determines what is hashed of it, and the other way round.
LEMMA FormatKeepsTheInstant ==
  ASSUME NEW t \in Times, NEW u \in Times
  PROVE  /\ Format(UTC(t)) \in Text
         /\ Format(UTC(t)) = Format(UTC(u)) => t.micro = u.micro /\ t.rest = u.rest
         /\ Format(UTC(Truncate(UTC(t)))) = <<t.micro, 0>>
BY DEF Times, Format, UTC, Truncate, Text

\* The fields the hash covers.
Covered(r) ==
  <<r.ID, r.Reference, r.EffectID, r.Payer, r.Payee, r.Currency, r.Description,
    r.GrantID, r.Method, r.Binding, r.IssuedAt.micro, r.IssuedAt.rest,
    r.AmountMinor, r.FeeMinor, r.Context>>

\* Receipts with one content hash agree in every field the hash covers, the
\* instant of issue among them (Receipt.hash).
LEMMA HashIsInjective ==
  ASSUME NEW q \in Receipts, NEW r \in Receipts
  PROVE  /\ hash(q) \in Text
         /\ hash(q) # <<>>
         /\ hash(q) = hash(r) => Covered(q) = Covered(r)
<1> DEFINE ctx(x) == writeField(x.Context, <<>>)
           fee(x) == writeInt(x.FeeMinor, ctx(x))
           amt(x) == writeInt(x.AmountMinor, fee(x))
           at(x) == writeField(Format(UTC(x.IssuedAt)), amt(x))
           bind(x) == writeField(x.Binding, at(x))
           method(x) == writeField(x.Method, bind(x))
           grant(x) == writeField(x.GrantID, method(x))
           desc(x) == writeField(x.Description, grant(x))
           cur(x) == writeField(x.Currency, desc(x))
           payee(x) == writeField(x.Payee, cur(x))
           payer(x) == writeField(x.Payer, payee(x))
           eff(x) == writeField(x.EffectID, payer(x))
           ref(x) == writeField(x.Reference, eff(x))
           id(x) == writeField(x.ID, ref(x))
<1>f. ASSUME NEW x \in Receipts
      PROVE  /\ x.ID \in Text /\ x.Reference \in Text /\ x.EffectID \in Text
             /\ x.Payer \in Text /\ x.Payee \in Text /\ x.Currency \in Text
             /\ x.Description \in Text /\ x.GrantID \in Text /\ x.Method \in Text
             /\ x.Binding \in Text /\ x.IssuedAt \in Times /\ x.Context \in Text
             /\ x.AmountMinor \in Int /\ x.FeeMinor \in Int
  BY DEF Receipts
<1>t. ASSUME NEW x \in Receipts
      PROVE  /\ ctx(x) \in Text /\ fee(x) \in Text /\ amt(x) \in Text /\ at(x) \in Text
             /\ bind(x) \in Text /\ method(x) \in Text /\ grant(x) \in Text /\ desc(x) \in Text
             /\ cur(x) \in Text /\ payee(x) \in Text /\ payer(x) \in Text /\ eff(x) \in Text
             /\ ref(x) \in Text /\ id(x) \in Text
  <2>1. ctx(x) \in Text BY <1>f, EmptyIsText, FieldIsFramed
  <2>2. fee(x) \in Text BY <1>f, <2>1, IntIsFramed
  <2>3. amt(x) \in Text BY <1>f, <2>2, IntIsFramed
  <2>4. at(x) \in Text BY <1>f, <2>3, FormatKeepsTheInstant, FieldIsFramed
  <2>5. bind(x) \in Text BY <1>f, <2>4, FieldIsFramed
  <2>6. method(x) \in Text BY <1>f, <2>5, FieldIsFramed
  <2>7. grant(x) \in Text BY <1>f, <2>6, FieldIsFramed
  <2>8. desc(x) \in Text BY <1>f, <2>7, FieldIsFramed
  <2>9. cur(x) \in Text BY <1>f, <2>8, FieldIsFramed
  <2>10. payee(x) \in Text BY <1>f, <2>9, FieldIsFramed
  <2>11. payer(x) \in Text BY <1>f, <2>10, FieldIsFramed
  <2>12. eff(x) \in Text BY <1>f, <2>11, FieldIsFramed
  <2>13. ref(x) \in Text BY <1>f, <2>12, FieldIsFramed
  <2>14. id(x) \in Text BY <1>f, <2>13, FieldIsFramed
  <2> QED BY <2>1, <2>2, <2>3, <2>4, <2>5, <2>6, <2>7, <2>8, <2>9, <2>10, <2>11, <2>12, <2>13, <2>14
<1>h. hash(q) = writeField(Version, id(q)) /\ hash(r) = writeField(Version, id(r))
  BY DEF hash
<1> HIDE DEF ctx, fee, amt, at, bind, method, grant, desc, cur, payee, payer, eff, ref, id
<1>z. hash(q) \in Text /\ hash(q) # <<>>
  BY <1>h, <1>t, VersionIsText, FieldIsFramed, FieldIsNotEmpty
<1>y. SUFFICES ASSUME hash(q) = hash(r) PROVE Covered(q) = Covered(r)
  BY <1>z
<1>1. id(q) = id(r)
  BY <1>h, <1>y, <1>t, VersionIsText, FieldIsFramed
<1>2. q.ID = r.ID /\ ref(q) = ref(r)
  BY <1>1, <1>f, <1>t, FieldIsFramed DEF id
<1>3. q.Reference = r.Reference /\ eff(q) = eff(r)
  BY <1>2, <1>f, <1>t, FieldIsFramed DEF ref
<1>4. q.EffectID = r.EffectID /\ payer(q) = payer(r)
  BY <1>3, <1>f, <1>t, FieldIsFramed DEF eff
<1>5. q.Payer = r.Payer /\ payee(q) = payee(r)
  BY <1>4, <1>f, <1>t, FieldIsFramed DEF payer
<1>6. q.Payee = r.Payee /\ cur(q) = cur(r)
  BY <1>5, <1>f, <1>t, FieldIsFramed DEF payee
<1>7. q.Currency = r.Currency /\ desc(q) = desc(r)
  BY <1>6, <1>f, <1>t, FieldIsFramed DEF cur
<1>8. q.Description = r.Description /\ grant(q) = grant(r)
  BY <1>7, <1>f, <1>t, FieldIsFramed DEF desc
<1>9. q.GrantID = r.GrantID /\ method(q) = method(r)
  BY <1>8, <1>f, <1>t, FieldIsFramed DEF grant
<1>10. q.Method = r.Method /\ bind(q) = bind(r)
  BY <1>9, <1>f, <1>t, FieldIsFramed DEF method
<1>11. q.Binding = r.Binding /\ at(q) = at(r)
  BY <1>10, <1>f, <1>t, FieldIsFramed DEF bind
<1>12. /\ q.IssuedAt.micro = r.IssuedAt.micro /\ q.IssuedAt.rest = r.IssuedAt.rest
      /\ amt(q) = amt(r)
  <2>1. Format(UTC(q.IssuedAt)) \in Text /\ Format(UTC(r.IssuedAt)) \in Text
    BY <1>f, FormatKeepsTheInstant
  <2>2. Format(UTC(q.IssuedAt)) = Format(UTC(r.IssuedAt)) /\ amt(q) = amt(r)
    BY <1>11, <1>t, <2>1, FieldIsFramed DEF at
  <2> QED
    BY <2>2, <1>f, FormatKeepsTheInstant
<1>13. q.AmountMinor = r.AmountMinor /\ fee(q) = fee(r)
  BY <1>12, <1>f, <1>t, IntIsFramed DEF amt
<1>14. q.FeeMinor = r.FeeMinor /\ ctx(q) = ctx(r)
  BY <1>13, <1>f, <1>t, IntIsFramed DEF fee
<1>15. q.Context = r.Context
  BY <1>14, <1>f, <1>t, EmptyIsText, FieldIsFramed DEF ctx
<1> QED
  BY <1>2, <1>3, <1>4, <1>5, <1>6, <1>7, <1>8, <1>9, <1>10, <1>11, <1>12, <1>13, <1>14, <1>15 DEF Covered

-----------------------------------------------------------------------------
(* The life of a receipt *)

\* Operations on receipts yield receipts.
LEMMA OperationsAreTyped ==
  ASSUME NEW r \in Receipts
  PROVE  Said(r) \in Receipts /\ Issue(r) \in Receipts /\ selfBinding(r) \in Bindings
<1>1. Truncate(UTC(r.IssuedAt)) \in Times
  BY UTCIsAZone DEF Receipts, Times, UTC, Truncate
<1>2. [r EXCEPT !.IssuedAt = Truncate(UTC(@))] \in Receipts
  BY <1>1 DEF Receipts
<1> QED
  BY <1>1, <1>2, EmptyIsText, HashIsInjective DEF Receipts, Bindings, Said, Issue, selfBinding

\* A receipt that was issued, or stored, says what it said before; and a time
\* without a rest is hashed as it is said.
LEMMA SayingIsStable ==
  ASSUME NEW r \in Receipts
  PROVE  /\ Said(Said(r)) = Said(r)
         /\ Issue(r).ContentHash = hash(Said(r))
         /\ Said(Issue(r)) = Said(r) /\ Issue(r).IssuedAt.rest = 0
         /\ r.IssuedAt.rest = 0 => hash(r) = hash(Said(r))
<1>1. r.IssuedAt \in Times /\ Truncate(UTC(r.IssuedAt)) \in Times
  BY UTCIsAZone DEF Receipts, Times, UTC, Truncate
<1>2. /\ UTC(Truncate(UTC(r.IssuedAt))) = Truncate(UTC(r.IssuedAt))
      /\ Truncate(Truncate(UTC(r.IssuedAt))) = Truncate(UTC(r.IssuedAt))
      /\ Truncate(UTC(r.IssuedAt)).rest = 0
      /\ r.IssuedAt.rest = 0
           => Format(UTC(Truncate(UTC(r.IssuedAt)))) = Format(UTC(r.IssuedAt))
  BY <1>1 DEF Times, UTC, Truncate, Format
<1> HIDE DEF Truncate
<1>3. Said(Said(r)) = Said(r)
  BY <1>1, <1>2 DEF Receipts, Said
<1>4. Said(Issue(r)) = Said(r) /\ Issue(r).IssuedAt.rest = 0
  BY <1>1, <1>2 DEF Receipts, Said, Issue
<1>5. Issue(r).ContentHash = hash(Said(r))
  BY <1>1, <1>2 DEF Receipts, Said, Issue, hash
<1>6. r.IssuedAt.rest = 0 => hash(r) = hash(Said(r))
  BY <1>1, <1>2 DEF Receipts, Said, hash
<1> QED
  BY <1>3, <1>4, <1>5, <1>6

\* Covered fields and a truncated time determine what is said.
LEMMA CoveredIsSaid ==
  ASSUME NEW q \in Receipts, NEW r \in Receipts, Covered(q) = Covered(r)
  PROVE  Said(q) = Said(r)
<1>1. Truncate(UTC(q.IssuedAt)) = Truncate(UTC(r.IssuedAt))
  BY DEF Covered, Receipts, Times, UTC, Truncate
<1> QED
  BY <1>1 DEF Covered, Receipts, Said

\* The inductive invariant: the content hash is that of what was written, and
\* a receipt nobody altered still says it, at the resolution of the store.
IInv ==
  /\ TypeOK
  /\ written # None =>
       /\ written \in Receipts /\ Said(written) = written
       /\ receipt.ContentHash = hash(written)
       /\ ~ altered => Said(receipt) = written /\ receipt.IssuedAt.rest = 0

\* Every step keeps the invariant.
LEMMA Inductive == IInv /\ [Next]_vars => IInv'
<1> SUFFICES ASSUME IInv, [Next]_vars PROVE IInv'
  OBVIOUS
<1>t. receipt \in Receipts /\ altered \in BOOLEAN
  BY DEF IInv, TypeOK
<1>1. CASE IssueIt
  <2>1. receipt' \in Receipts /\ written' \in Receipts /\ altered' = FALSE
    BY <1>1, <1>t, OperationsAreTyped DEF IssueIt
  <2>2. /\ Said(written') = written' /\ Said(receipt') = written'
        /\ receipt'.ContentHash = hash(written') /\ receipt'.IssuedAt.rest = 0
    BY <1>1, <1>t, SayingIsStable DEF IssueIt
  <2> QED
    BY <2>1, <2>2 DEF IInv, TypeOK
<1>2. ASSUME NEW zone \in Zones, StoreAndLoad(zone) PROVE IInv'
  <2> DEFINE loaded == [Truncate(receipt.IssuedAt) EXCEPT !.zone = zone]
  <2>1. /\ loaded \in Times /\ loaded.rest = 0
        /\ Truncate(UTC(loaded)) = Truncate(UTC(receipt.IssuedAt))
    BY <1>t DEF Receipts, Times, Truncate, UTC
  <2>2. receipt' = [receipt EXCEPT !.IssuedAt = loaded]
    BY <1>2 DEF StoreAndLoad
  <2> HIDE DEF loaded
  <2>3. /\ receipt' \in Receipts /\ receipt'.ContentHash = receipt.ContentHash
        /\ Said(receipt') = Said(receipt) /\ receipt'.IssuedAt.rest = 0
    BY <1>t, <2>1, <2>2 DEF Receipts, Said
  <2> QED
    BY <1>2, <2>3 DEF StoreAndLoad, IInv, TypeOK
<1>3. ASSUME NEW r \in Contents, Alter(r) PROVE IInv'
  <2>1. r \in Receipts
    BY ContentsAreDrafts
  <2>2. receipt' \in Receipts /\ receipt'.ContentHash = receipt.ContentHash
    BY <1>3, <1>t, <2>1 DEF Alter, Receipts
  <2> QED
    BY <1>3, <2>2 DEF Alter, IInv, TypeOK
<1>4. CASE UNCHANGED vars
  BY <1>4 DEF vars, IInv, TypeOK
<1> QED
  BY <1>1, <1>2, <1>3, <1>4 DEF Next

\* The invariant holds in every reachable state.
LEMMA Invariance == Spec => []IInv
<1>1. Init => IInv
  BY ContentsAreDrafts DEF Init, IInv, TypeOK
<1> QED
  BY <1>1, Inductive, PTL DEF Spec

\* The fields of a receipt keep their kinds.
THEOREM TypeCorrectness == Spec => []TypeOK
<1>1. IInv => TypeOK
  BY DEF IInv
<1> QED
  BY <1>1, Invariance, PTL

\* An issued receipt that nobody altered is intact, wherever it was stored.
THEOREM SurvivalOfReceipts == Spec => []SurvivesTheStore
<1>1. IInv => SurvivesTheStore
  <2> SUFFICES ASSUME IInv, written # None, ~ altered PROVE Intact(receipt)
    BY DEF SurvivesTheStore
  <2>1. receipt \in Receipts /\ receipt.ContentHash = hash(Said(receipt))
        /\ receipt.IssuedAt.rest = 0
    BY DEF IInv, TypeOK
  <2>2. receipt.ContentHash = hash(receipt)
    BY <2>1, SayingIsStable
  <2> QED
    BY <2>1, <2>2, HashIsInjective DEF Intact
<1> QED
  BY <1>1, Invariance, PTL

\* An intact receipt says what it said when it was issued.
THEOREM AlterationShows == Spec => []IntactMeansUnaltered
<1>1. IInv => IntactMeansUnaltered
  <2> SUFFICES ASSUME IInv, written # None, Intact(receipt)
               PROVE  Said(receipt) = written
    BY DEF IntactMeansUnaltered
  <2>1. /\ receipt \in Receipts /\ written \in Receipts
        /\ Said(written) = written /\ hash(receipt) = hash(written)
    BY DEF IInv, TypeOK, Intact
  <2>2. Covered(receipt) = Covered(written)
    BY <2>1, HashIsInjective
  <2> QED
    BY <2>1, <2>2, CoveredIsSaid
<1> QED
  BY <1>1, Invariance, PTL

\* A receipt matches exactly the authority it shows and cites.
THEOREM AuthorityOfReceipts == Spec => []MatchesWhatItShows
<1>1. IInv => MatchesWhatItShows
  <2> SUFFICES ASSUME IInv, NEW b \in Authorities
               PROVE  MatchesAuthority(receipt, b)
                        <=> selfBinding(receipt) = b /\ receipt.Binding = Digest(b)
    BY DEF MatchesWhatItShows
  <2>1. b \in Bindings /\ selfBinding(receipt) \in Bindings
    BY AuthoritiesAreBound, OperationsAreTyped DEF IInv, TypeOK
  <2>2. Digest(b) # <<>>
    BY <2>1, DigestIsInjective
  <2>3. Digest(selfBinding(receipt)) = Digest(b) => selfBinding(receipt) = b
    BY <2>1, DigestIsInjective
  <2> QED
    BY <2>2, <2>3 DEF MatchesAuthority
<1> QED
  BY <1>1, Invariance, PTL
=============================================================================
