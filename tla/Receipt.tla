------------------------------- MODULE Receipt -------------------------------
(***************************************************************************)
(* The evidence half, receipt.go: a receipt is drafted by issuing code that *)
(* may be wrong, issued, stored and loaded, altered by whoever presents it *)
(* later, and possibly issued again.  At any moment someone may ask whether *)
(* it is intact and whether it matches a transaction's authority.          *)
(*                                                                         *)
(* A time is its whole microseconds, what an instant has beyond them, and  *)
(* the zone it is displayed in.                                            *)
(***************************************************************************)
EXTENDS Framing

CONSTANTS
  Contents,        \* receipts as a host may draft them, rightly or wrongly
  Authorities,     \* the transactions a receipt may be compared with
  Zones,           \* time zones a store may hand times back in; "UTC" is one
  None

Times    == [micro : Int, rest : Nat, zone : Zones]
Receipts == [ID : Text, Reference : Text, IssuedAt : Times, EffectID : Text,
             Payer : Text, Payee : Text, AmountMinor : Int, FeeMinor : Int,
             Currency : Text, Description : Text, Context : Text, GrantID : Text,
             Method : Text, Binding : Text, ContentHash : Text]

ASSUME UTCIsAZone           == "UTC" \in Zones
ASSUME ContentsAreDrafts    == Contents \subseteq Receipts
ASSUME AuthoritiesAreBound  == Authorities \subseteq Bindings

VARIABLES
  receipt,   \* the receipt as it is now
  written,   \* what it said when it was last issued, or None
  altered    \* some field has been set since it was issued

vars == <<receipt, written, altered>>

-----------------------------------------------------------------------------
(* Receipt *)

\* Time.UTC and Time.Truncate(time.Microsecond)
UTC(t)      == [t EXCEPT !.zone = "UTC"]
Truncate(t) == [t EXCEPT !.rest = 0]

\* Time.Format(time.RFC3339Nano) of a time in UTC keeps the instant.
Format(t) == <<t.micro, t.rest>>

\* Receipt.hash
hash(r) ==
  writeField(Version,
  writeField(r.ID,
  writeField(r.Reference,
  writeField(r.EffectID,
  writeField(r.Payer,
  writeField(r.Payee,
  writeField(r.Currency,
  writeField(r.Description,
  writeField(r.GrantID,
  writeField(r.Method,
  writeField(r.Binding,
  writeField(Format(UTC(r.IssuedAt)),
  writeInt(r.AmountMinor,
  writeInt(r.FeeMinor,
  writeField(r.Context, <<>>)))))))))))))))

\* Faulty variant of Issue: the hash covers what the store does not keep.
IssueUntruncated(r) == [r EXCEPT !.ContentHash = hash(r)]

Issue(r) ==
  LET stamped == [r EXCEPT !.IssuedAt = Truncate(UTC(@))]
  IN  [stamped EXCEPT !.ContentHash = hash(stamped)]

Intact(r) == r.ContentHash # <<>> /\ r.ContentHash = hash(r)

selfBinding(r) ==
  [Payer |-> r.Payer, Payee |-> r.Payee, AmountMinor |-> r.AmountMinor,
   FeeMinor |-> r.FeeMinor, Currency |-> r.Currency, Reference |-> r.Reference,
   Context |-> r.Context]

\* Faulty variant of MatchesAuthority: what an earlier version compared.
MatchesStoredBinding(r, b) == r.Binding # <<>> /\ r.Binding = Digest(b)

MatchesAuthority(r, b) ==
  /\ r.Binding # <<>>
  /\ Digest(selfBinding(r)) = r.Binding
  /\ r.Binding = Digest(b)

-----------------------------------------------------------------------------
(* The life of a receipt *)

\* What a receipt says, at the resolution it is stored in.
Said(r) == [r EXCEPT !.IssuedAt = Truncate(UTC(@)), !.ContentHash = <<>>]

Init == receipt \in Contents /\ written = None /\ altered = FALSE

\* The host issues the receipt, or issues it again as it now reads.
IssueIt ==
  /\ receipt' = Issue(receipt)
  /\ written' = Said(receipt)
  /\ altered' = FALSE

\* The host stores the receipt and loads it: instants come back at the store's
\* resolution and in whatever zone the session has.
StoreAndLoad(zone) ==
  /\ receipt' = [receipt EXCEPT !.IssuedAt = [Truncate(@) EXCEPT !.zone = zone]]
  /\ UNCHANGED <<written, altered>>

\* Someone composes the receipt anew from other values and keeps its hash;
\* doing so twice is doing it once.
Alter(r) ==
  /\ ~ altered
  /\ receipt' = [r EXCEPT !.ContentHash = receipt.ContentHash]
  /\ altered' = TRUE
  /\ UNCHANGED written

Next ==
  \/ IssueIt
  \/ \E zone \in Zones : StoreAndLoad(zone)
  \/ \E r \in Contents : Alter(r)

Spec == Init /\ [][Next]_vars

-----------------------------------------------------------------------------
(* Properties *)

\* The kinds of value a receipt's fields have, whatever happens to it.
TypeOK ==
  /\ receipt \in Receipts
  /\ written \in Receipts \cup {None}
  /\ altered \in BOOLEAN

\* Storing and loading do not break a receipt: as long as nobody sets a field,
\* an issued receipt is intact, whatever resolution and zone its times had.
SurvivesTheStore == written # None /\ ~ altered => Intact(receipt)

\* An intact receipt says what it said when it was issued: no other set of
\* field values passes under the same content hash.
IntactMeansUnaltered ==
  written # None /\ Intact(receipt) => Said(receipt) = written

\* A receipt matches a transaction's authority exactly when the payment it
\* shows is that transaction and it cites that transaction's authority, be it
\* intact or not.
MatchesWhatItShows ==
  \A b \in Authorities :
    MatchesAuthority(receipt, b)
      <=> selfBinding(receipt) = b /\ receipt.Binding = Digest(b)
=============================================================================
