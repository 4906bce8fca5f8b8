------------------------------ MODULE MCVault -------------------------------
(***************************************************************************)
(* Two master passwords, so that an initialisation can change it; two rows *)
(* and three entries, so that a lost update shows; two faults, so that one *)
(* can hit the recovery from the other.                                    *)
(***************************************************************************)
EXTENDS Vault

CONSTANTS p, q, none, torn
=============================================================================
