------------------------------ MODULE MCLiveLog ------------------------------
(* Two pages and three rows, for TLC. *)
EXTENDS LiveLog
=============================================================================
