--------------------------- MODULE MCVaultProvider ---------------------------
(***************************************************************************)
(* VaultProvider for TLC: three versions of a secret, of which the last    *)
(* two print alike (the number 1 rewritten as the string "1").             *)
(***************************************************************************)
EXTENDS VaultProvider, TLC

CONSTANTS c1, c2

Printed(v) == IF v = 3 THEN 2 ELSE v
=============================================================================
