------------------------------- MODULE MCFile -------------------------------
(* DurableFile with interchangeable file identities. *)
EXTENDS DurableFile, TLC

IdentitySymmetry == Permutations(Identity)
=============================================================================
