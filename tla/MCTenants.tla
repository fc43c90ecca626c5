----------------------------- MODULE MCTenants ------------------------------
(* Two accounts and two handlers at a time.  The checked properties are     *)
(* safety properties, for which the symmetry is sound.                     *)
EXTENDS Tenants, TLC

CONSTANTS ann, bob, gh, gh2, gg

\* Two identities of one provider, of which an account keeps the last, and one
\* of the other.
MCProviderOf == [i \in Idents |-> IF i \in {gh, gh2} THEN "github" ELSE "google"]

MCSymmetry ==
  Permutations(Slots) \cup Permutations({gh, gh2})
    \cup Permutations(SessionIds) \cup Permutations(Passwords)
=============================================================================
