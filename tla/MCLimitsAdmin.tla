--------------------------- MODULE MCLimitsAdmin ---------------------------
(* Two requests of a key with a windowed budget beside a management call. *)
EXTENDS LimitsAdmin, TLC

CONSTANTS key, org, r1, r2, a1, a2, m

MCInput == [max |-> 2, soft |-> Nil, dur |-> Nil, allowed |-> {m}, rpm |-> FALSE,
            parallel |-> 1]

MCRow == [max |-> 2, soft |-> 1, dur |-> 1, spend |-> 0, resetAt |-> 1,
          alerted |-> FALSE, allowed |-> {m}, rpm |-> FALSE, parallel |-> 2]

\* A key whose budget is windowed, and the key's budget as a lifetime one.
MCWindowed == key :> MCRow
MCLifetime == key :> [MCRow EXCEPT !.dur = Nil, !.resetAt = Nil]

\* Keep the window, drop it, or lengthen it; the last body is refused.
MCInputs == {MCInput, [MCInput EXCEPT !.dur = 1], [MCInput EXCEPT !.soft = 1, !.dur = 2],
             [MCInput EXCEPT !.soft = 3]}

\* The key stands for any principal, an end user among them.
MCEndUsers == {key}
MCRoutes   == {<<key>>}
MCEstimate == m :> 1
MCActuals  == m :> {1, 2}
============================================================================
