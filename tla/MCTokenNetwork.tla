--------------------------- MODULE MCTokenNetwork ---------------------------
(* Constants of TokenNetwork for TLC. *)
EXTENDS TokenNetwork, TLC

CONSTANTS a, b, c, h1, none

mcSymmetry == Permutations(Participants)
mcSecretHashes == {h1}
mcLocks == << [expiration |-> 3, amount |-> 1, secrethash |-> h1] >>
mcLockLists == {<<>>, mcLocks}
mcBalanceHashes ==
  {[transferred |-> 1, locked |-> 0, locksroot |-> <<>>],
   [transferred |-> 2, locked |-> 1, locksroot |-> mcLocks]}
mcOneBalanceHash == {[transferred |-> 0, locked |-> 1, locksroot |-> mcLocks]}
=============================================================================
