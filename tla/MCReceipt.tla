------------------------------ MODULE MCReceipt ------------------------------
(* Model-checking instance of Receipt. *)
EXTENDS Receipt, FiniteSets

Texts == {<<1>>, <<1, 1>>}

MCVersion == <<1>>

\* Texts that run into one another, and a context that may be absent.
MCAuthorities ==
  [Payer : Texts, Payee : Texts, AmountMinor : {1, 2}, FeeMinor : {0, 1},
   Currency : {<<1>>}, Reference : Texts, Context : {<<>>, <<1>>}]

Base == [ID |-> <<1>>, Reference |-> <<1>>, IssuedAt |-> [micro |-> 1, rest |-> 0, zone |-> "UTC"],
         EffectID |-> <<1>>, Payer |-> <<1>>, Payee |-> <<1, 1>>, AmountMinor |-> 1,
         FeeMinor |-> 0, Currency |-> <<1>>, Description |-> <<1, 1>>, Context |-> <<>>,
         GrantID |-> <<1>>, Method |-> <<1, 1>>, Binding |-> <<>>, ContentHash |-> <<>>]

TextFields == {"ID", "Reference", "EffectID", "Payer", "Payee", "Currency",
               "Description", "GrantID", "Method", "Context"}

Shows(r, b) ==
  [r EXCEPT !.Payer = b.Payer, !.Payee = b.Payee, !.AmountMinor = b.AmountMinor,
            !.FeeMinor = b.FeeMinor, !.Reference = b.Reference, !.Context = b.Context]

\* Right and wrong drafts: any payment shown, under its own authority, that of
\* another or none; any two texts exchanged; any instant and zone.
MCContents ==
  LET cited == {b \in MCAuthorities : b.AmountMinor = 1 /\ b.FeeMinor = 0 /\ b.Reference = <<1>>
                                   /\ b.Context = <<>> /\ b.Payee = <<1>>}
  IN  {[Shows(Base, b) EXCEPT !.Binding = Digest(c)] : b \in MCAuthorities, c \in cited}
      \cup {[Shows(Base, b) EXCEPT !.Binding = Digest(b)] : b \in MCAuthorities}
      \cup {Base}
      \cup {[Base EXCEPT ![f] = Base[g], ![g] = Base[f]] : f, g \in TextFields}
      \cup {[Base EXCEPT !.IssuedAt = t] : t \in [micro : {0, 1}, rest : {0, 1}, zone : Zones]}
=============================================================================
