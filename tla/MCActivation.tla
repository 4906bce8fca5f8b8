---------------------------- MODULE MCActivation ----------------------------
(***************************************************************************)
(* Two users, of whom one may be bound by an earlier onboarding, and one   *)
(* message at a time beside another onboarding.                            *)
(***************************************************************************)
EXTENDS Activation, TLC

CONSTANTS ann, bob, nobody

UserSymmetry == Permutations(Users)
=============================================================================
