------------------------------ MODULE MCLimits ------------------------------
(* A key with a lifetime budget in an organization with a windowed one. *)
EXTENDS Limits, TLC

CONSTANTS key, org, member, r1, r2, m, x

MCRow == [max |-> Nil, soft |-> Nil, dur |-> Nil, spend |-> 0, resetAt |-> Nil,
          alerted |-> FALSE, allowed |-> {m}, rpm |-> FALSE, parallel |-> Nil]

MCRows0 ==
  key :> [MCRow EXCEPT !.max = 3, !.soft = 2, !.parallel = 1] @@
  org :> [MCRow EXCEPT !.max = 1, !.soft = 1, !.dur = 1, !.resetAt = 1,
                       !.parallel = 2, !.rpm = TRUE] @@
  member :> NoRow

MCRoutes   == {<<key, org, member>>}
MCEstimate == [y \in Models |-> 1]
MCActuals  == [y \in Models |-> {1, 2}]
============================================================================
