---------------------------- MODULE OneTimeToken ----------------------------
(***************************************************************************)
(* What a mailed token promises.  It lets requests in while it is open:    *)
(* once it has lapsed or was used, nobody new gets anything for it, ever.  *)
(* A request that was let in gets what the token is for at most once.      *)
(* There are two kinds of requests.  An eager one takes it as soon as it   *)
(* is ready and uses the token up after that, so several that were let in  *)
(* together may all get it.  A patient one uses the token up first: of     *)
(* those, one for each token gets it at most, and none when an eager       *)
(* request has used the token up before.                                   *)
(***************************************************************************)
EXTENDS Naturals

CONSTANTS Tokens, Requests

VARIABLES
  state,     \* "none" before it is issued, then "open", "shut" or "used"
  eager,     \* <<r, t>>: request r was let in for t and may take it
  patient,   \* <<r, t>>: request r was let in for t and has to claim it
  claimed,   \* <<r, t>>: request r has claimed t and may take it
  redeemed   \* how many requests got what the token is for

vars == <<state, eager, patient, claimed, redeemed>>

Init ==
  /\ state = [t \in Tokens |-> "none"]
  /\ eager = {} /\ patient = {} /\ claimed = {}
  /\ redeemed = [t \in Tokens |-> 0]

Issue(t) ==
  /\ state[t] = "none"
  /\ state' = [state EXCEPT ![t] = "open"]
  /\ UNCHANGED <<eager, patient, claimed, redeemed>>

LetIn(r, t) ==
  /\ state[t] = "open"
  /\ \/ eager' = eager \cup {<<r, t>>} /\ UNCHANGED patient
     \/ patient' = patient \cup {<<r, t>>} /\ UNCHANGED eager
  /\ UNCHANGED <<state, claimed, redeemed>>

Lapse(t) ==
  /\ state[t] = "open"
  /\ state' = [state EXCEPT ![t] = "shut"]
  /\ UNCHANGED <<eager, patient, claimed, redeemed>>

\* An eager request uses its token up, or issued tokens are withdrawn.
UseUp(T) ==
  /\ \A t \in T : state[t] # "none"
  /\ state' = [t \in Tokens |-> IF t \in T THEN "used" ELSE state[t]]
  /\ UNCHANGED <<eager, patient, claimed, redeemed>>

Claim(r, t) ==
  /\ <<r, t>> \in patient
  /\ state[t] \in {"open", "shut"}
  /\ state' = [state EXCEPT ![t] = "used"]
  /\ patient' = patient \ {<<r, t>>}
  /\ claimed' = claimed \cup {<<r, t>>}
  /\ UNCHANGED <<eager, redeemed>>

Redeem(r, t) ==
  /\ <<r, t>> \in eager \cup claimed
  /\ eager' = eager \ {<<r, t>>}
  /\ claimed' = claimed \ {<<r, t>>}
  /\ redeemed' = [redeemed EXCEPT ![t] = @ + 1]
  /\ UNCHANGED <<state, patient>>

\* A request gives up, or is refused.
Leave(r, t) ==
  /\ eager' = eager \ {<<r, t>>}
  /\ patient' = patient \ {<<r, t>>}
  /\ claimed' = claimed \ {<<r, t>>}
  /\ UNCHANGED <<state, redeemed>>

Next ==
  \/ \E t \in Tokens : Issue(t) \/ Lapse(t)
  \/ \E r \in Requests, t \in Tokens :
       LetIn(r, t) \/ Claim(r, t) \/ Redeem(r, t) \/ Leave(r, t)
  \/ \E T \in SUBSET Tokens : UseUp(T)

Spec == Init /\ [][Next]_vars
=============================================================================
