--------------------------- MODULE MCClientSession ---------------------------
(***************************************************************************)
(* An instance of ClientSession for TLC: two users at one tab.             *)
(***************************************************************************)
EXTENDS ClientSession, TLC

CONSTANTS ann, bob, q1

ASSUME ConstantsOK

TwoUsers == {ann, bob}
OneRead == {q1}
Symmetry == Permutations(Users)
=============================================================================
