---------------------- MODULE MCVaultDependencyProvider ----------------------
(***************************************************************************)
(* VaultDependencyProvider for TLC.                                        *)
(***************************************************************************)
EXTENDS VaultDependencyProvider, TLC
=============================================================================
