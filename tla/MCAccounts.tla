----------------------------- MODULE MCAccounts -----------------------------
(* A small instance of Accounts: clients and names are interchangeable.     *)
EXTENDS Accounts, TLC

CONSTANTS c1, c2, ann, bob

TwoClients == {c1, c2}
TwoNames == {ann, bob}
Symmetry == Permutations(TwoClients) \cup Permutations(TwoNames)
=============================================================================
