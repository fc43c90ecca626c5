----------------------------- MODULE MCDispatch -----------------------------
(* Two requests that fall back from one provider to another, or go direct. *)
EXTENDS Dispatch

CONSTANTS p1, p2, r1, r2

MCPlans ==
  {[gated |-> TRUE,  deps |-> <<[provider |-> p1, retries |-> 1],
                                [provider |-> p2, retries |-> 0]>>],
   [gated |-> FALSE, deps |-> <<[provider |-> p1, retries |-> 1]>>],
   [gated |-> TRUE,  deps |-> <<>>]}
============================================================================
