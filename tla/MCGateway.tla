----------------------------- MODULE MCGateway ------------------------------
(* The properties are invariants, for which the symmetry is sound.          *)
EXTENDS Gateway, TLC

MCAppOf == [k \in Keys |-> CHOOSE a \in Apps : TRUE]

MCSymmetry == Permutations(Slots)
=============================================================================
