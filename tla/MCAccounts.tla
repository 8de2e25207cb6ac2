----------------------------- MODULE MCAccounts -----------------------------
(* Two overlapping requests, two users, two phones, two passwords, three    *)
(* addresses with a limit of two.                                           *)
EXTENDS Accounts, TLC

CONSTANTS w1, w2, p1, p2, s1, s2, d1, d2

Alike == Permutations(Workers) \cup Permutations(Phones) \cup Permutations(Places)
         \cup Permutations(Passwords)
=============================================================================
