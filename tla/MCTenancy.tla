----------------------------- MODULE MCTenancy -----------------------------
(* Instances of Tenancy for TLC.                                           *)
EXTENDS Tenancy, TLC

CONSTANTS a1, a2, t1, t2, n1, n2, g1, g2, g3

TenancySymmetry ==
    Permutations(Admins) \cup Permutations(Tenants)
    \cup Permutations(Names) \cup Permutations(RagIds)
=============================================================================
