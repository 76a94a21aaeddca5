--------------------------- MODULE MCDeliveryLive ---------------------------
(* One message that requests send and a webhook reports on, or the failed  *)
(* messages that sweeps retry: each behaviour follows one of the two.      *)
EXTENDS MCDelivery, RetrySweep

VARIABLE focus

liveVars == <<vars, sweepVars, focus>>

LiveInit == Init /\ SweepInit /\ focus \in {"message", "sweep"}

LiveNext ==
  \/ focus = "message" /\ Next /\ UNCHANGED <<sweepVars, focus>>
  \/ focus = "sweep" /\ SweepNext /\ UNCHANGED <<vars, focus>>

LiveSpec == LiveInit /\ [][LiveNext]_liveVars /\ Fairness /\ SweepFairness
=============================================================================
