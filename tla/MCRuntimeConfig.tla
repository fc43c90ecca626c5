-------------------------- MODULE MCRuntimeConfig ---------------------------
(* A small instance of RuntimeConfig for TLC. *)
EXTENDS RuntimeConfig, TLC

CONSTANTS c1, c2, c3, m1, m2, v1, v2, s1, s2, k1, k2

\* Requests set the key, set the other secret, or switch the provider off.
MCBodies ==
  {[secrets |-> [f \in Fields |-> IF f = "api_key" THEN s1 ELSE None], enabled |-> None],
   [secrets |-> [f \in Fields |-> IF f = "key_secret" THEN s2 ELSE None], enabled |-> FALSE]}

MCEnv == [secrets |-> [f \in Fields |-> IF f = "api_key" THEN s2 ELSE None], enabled |-> TRUE]

Sym == Permutations(Calls)
=============================================================================
