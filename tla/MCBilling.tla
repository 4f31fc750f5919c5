------------------------------ MODULE MCBilling ------------------------------
(* Small instances of BillingCharge for TLC.                                 *)
EXTENDS BillingCharge, TLC

(* Requests are interchangeable processes.                                   *)
SlotSymmetry == Permutations(Slot)
==============================================================================
