---------------------------- MODULE MCVrfyToken ----------------------------
(* A small instance of VrfyToken for TLC. *)
EXTENDS VrfyToken

\* -1 is an amount a caller may pass and the contract must refuse.
MCAmount == {-1, 1, 2}
=============================================================================
