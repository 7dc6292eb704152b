----------------------------- MODULE MCRtcTimer -----------------------------
(* A small instance of RtcTimer for TLC. *)
EXTENDS RtcTimer
=============================================================================
