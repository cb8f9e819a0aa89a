---------------------------- MODULE MCSubmitOnce ----------------------------
(***************************************************************************)
(* An instance of SubmitOnce for TLC: a job that is created, against an    *)
(* API whose answers may be lost.                                          *)
(***************************************************************************)
EXTENDS SubmitOnce, TLC
=============================================================================
