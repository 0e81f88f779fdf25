---------------------------- MODULE MCBugCampaign ----------------------------
(* Two seeds, of which one is run; one of two children may go to a concolic  *)
(* campaign with two queries.                                                *)
EXTENDS LinuxBugCampaign

CONSTANTS i1, i2, i3

MCSeeds == <<i1, i2>>
MCReach == [i \in Inputs |-> IF i = i1 THEN {i1, i2} ELSE {i1, i3}]
MCSymmetry == Permutations(Blocks)
=============================================================================
