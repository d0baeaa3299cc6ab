-------------------------- MODULE MCNodeMembership --------------------------
(* TLC instances of NodeMembership. *)
EXTENDS NodeMembership, TLC
CONSTANTS c1, c2
CallSymmetry == Permutations({c1, c2})
=============================================================================
