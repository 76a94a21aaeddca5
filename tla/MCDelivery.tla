----------------------------- MODULE MCDelivery -----------------------------
(* The instance of Delivery for TLC: one marketing message that up to      *)
(* three processes work on.                                                *)
EXTENDS Delivery, TLC

CONSTANTS followUp, alice

MCAddresses == {alice}

MCOneMessage   == {followUp}
MCOneRecipient == [m \in MCOneMessage |-> alice]
MCOneMarketing == {followUp}

Symmetry == Permutations(Processes)
=============================================================================
