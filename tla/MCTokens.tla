-------------------------------- MODULE MCTokens --------------------------------
(* Small instances of Tokens for TLC. *)
EXTENDS Tokens

CONSTANTS alice, bob, carol, forwarder, T1, T2
================================================================================
