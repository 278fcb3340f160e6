-------------------------- MODULE MCPaymentModal --------------------------
(* Instances of PaymentModal for TLC: two of the five sources. *)
EXTENDS PaymentModal

CONSTANTS other, okx

TwoSources == [s \in Sources |-> IF s = other THEN 1 ELSE 2]
=============================================================================
