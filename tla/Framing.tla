------------------------------- MODULE Framing -------------------------------
(***************************************************************************)
(* What authority.go and receipt.go feed to SHA-256.  Every text is written *)
(* behind its length in eight bytes and every integer in eight bytes, so   *)
(* that the bytes determine the fields.                                    *)
(*                                                                         *)
(* Abstractions.  A text is the sequence of its bytes; eight bytes that    *)
(* hold one number are one element of the sequence.  SHA-256 in hexadecimal *)
(* is taken to have no collisions and is written as the identity: a digest *)
(* is the sequence that was hashed.                                        *)
(***************************************************************************)
EXTENDS Integers, Sequences

CONSTANT Version   \* the format's version, the first field of every hash

Text == Seq(Int)

ASSUME VersionIsText == Version \in Text

\* Faulty variant of writeField: no length prefix.
writeUnframed(b, rest) == b \o rest

\* writeField and writeInt, followed by what is written after them.
writeField(b, rest) == (<<Len(b)>> \o b) \o rest
writeInt(v, rest)   == <<v>> \o rest

\* The fields that determine where money goes.
Bindings == [Payer : Text, Payee : Text, AmountMinor : Int, FeeMinor : Int,
             Currency : Text, Reference : Text, Context : Text]

\* Binding.Digest
Digest(b) ==
  writeField(Version,
  writeField(b.Payer,
  writeField(b.Payee,
  writeInt(b.AmountMinor,
  writeInt(b.FeeMinor,
  writeField(b.Currency,
  writeField(b.Reference,
  writeField(b.Context, <<>>))))))))
=============================================================================
