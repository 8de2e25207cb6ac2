-------------------------- MODULE MCDeviceRegistry --------------------------
(* Two overlapping requests, two users sharing four phones, one order, and  *)
(* a limit of two devices.                                                  *)
EXTENDS DeviceRegistry, TLC

CONSTANTS w1, w2, u1, u2, t1, t2, t3, t4

Alike == Permutations(Workers) \cup Permutations(Users) \cup Permutations(Tokens)
=============================================================================
