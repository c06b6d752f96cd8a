---------------------------- MODULE MCPaymentFlow ----------------------------
(* Small instances of PaymentFlow for TLC. *)
EXTENDS PaymentFlow, TLC

MCProject == {"roof"}
MCProjectOf == [c \in Contribution |-> "roof"]
(* Distinct amounts, so that crediting one for the other shows in the sum.   *)
MCAmountOf == [c \in Contribution |-> c]
(* Odd contributions go through M-Pesa, even ones through Airtel.            *)
MCProviderOf == [c \in Contribution |-> IF c % 2 = 1 THEN "mpesa" ELSE "airtel"]
OnlyAcceptance == {"acceptance"}
(* Workers are alike, and so are deliveries. *)
Symmetry == Permutations(Worker) \cup Permutations(Delivery)
=============================================================================
