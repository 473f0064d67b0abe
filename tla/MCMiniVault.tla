---------------------------- MODULE MCMiniVault ----------------------------
(***************************************************************************)
(* MiniVaultDB for TLC: the constants are in the .cfg files.               *)
(***************************************************************************)
EXTENDS MiniVaultPromise, TLC

Symmetry == Permutations(Keys) \union Permutations(Vals)
=============================================================================
