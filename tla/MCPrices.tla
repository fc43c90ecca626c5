------------------------------ MODULE MCPrices ------------------------------
(* A small instance of Prices for TLC: a seeded model and one that a page may list. *)
EXTENDS Prices, TLC

CONSTANTS m1, m2, s1, s2, e1, e2

MCOverride == [m \in Models |-> None]

MCSeed == [m \in Models |-> IF m = m1 THEN 1 ELSE None]

\* The page lists both models or only the known one, at another amount than the seed's.
MCPages == {[m \in Models |-> 2], [m \in Models |-> IF m = m1 THEN 2 ELSE None]}

Sym == Permutations(Scrapes) \cup Permutations(Edits)
=============================================================================
