------------------------------ MODULE MCBilling ------------------------------
(* Two subscriptions, so that a workspace may come back after the first     *)
(* one ended or hold two at once, and requests that overlap with webhooks.  *)
EXTENDS Billing, TLC

CONSTANTS s1, s2, r1

MCSubs == {s1, s2}
OneRequest == {r1}
Symmetry == Permutations(MCSubs)
=============================================================================
