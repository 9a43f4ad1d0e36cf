----------------------------- MODULE MCAudioRx -----------------------------
(* Instances of AudioRx.tla for TLC. *)
EXTENDS AudioRx

CONSTANTS t1, t2, t3
=============================================================================
