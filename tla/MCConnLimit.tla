---------------------------- MODULE MCConnLimit -----------------------------
(* ConnLimit for TLC. *)
EXTENDS ConnLimit, TLC

SlotSymmetry == Permutations(Socks \ {Listener}) \cup Permutations(Keys)
=============================================================================
