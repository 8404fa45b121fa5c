--------------------------------- MODULE MCGift ---------------------------------
(* Small instances of Gift for TLC. *)
EXTENDS Gift, TLC

CONSTANTS alice, new1, new2

\* The accounts to be created play the same part.
NewAccounts == Permutations({new1, new2})
================================================================================
