----------------------------- MODULE MCFrameTx -----------------------------
(* Instances of FrameTx for TLC.                                           *)
EXTENDS FrameTx
=============================================================================
