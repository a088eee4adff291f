----------------------------- MODULE MCAccounts -----------------------------
(* Model-checking instance of Accounts: the bootstrap superadmin and one   *)
(* that it has made, one organization, two requests at a time, of which    *)
(* either may be in either slot.                                           *)
EXTENDS Accounts, TLC

SlotSymmetry == Permutations(Slots)
=============================================================================
