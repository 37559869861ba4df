------------------------------ MODULE MCAmmApp ------------------------------
(* Two networks' deployments and two sequencers, each as good as the other, for TLC. *)
EXTENDS AmmApp, TLC

CONSTANTS ammA, ammB, configA, configB

MCDeployments ==
    {[program |-> ammA, config |-> configA], [program |-> ammB, config |-> configB]}

MCSymmetry ==
    Permutations(Identities) \cup Permutations(Sequencers)
      \cup {ammA :> ammB @@ ammB :> ammA @@ configA :> configB @@ configB :> configA}
=============================================================================
