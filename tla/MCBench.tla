------------------------------- MODULE MCBench -------------------------------
(* Model-checking instances of Bench. *)
EXTENDS Bench

MCPayments  == <<1, 2, 3, 4>>
MCHotSet    == <<1, 2>>
MCSpreadSet == <<3, 4>>
=============================================================================
