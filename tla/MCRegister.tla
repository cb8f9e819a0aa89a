----------------------------- MODULE MCRegister -----------------------------
(***************************************************************************)
(* An instance of Register for TLC: one submit, and edits that go on while *)
(* it is answered.                                                         *)
(***************************************************************************)
EXTENDS Register, TLC
=============================================================================
