--------------------------- MODULE MCFuzzCampaign ---------------------------
(* Two of three buffers are seeds; a corpus of two, three blocks, three children. *)
EXTENDS FuzzCampaign

CONSTANTS i1, i2, i3

MCSeeds == <<i1, i2>>
MCReach == [i \in Inputs |-> CASE i = i1 -> {i1, i2} [] i = i2 -> {i2, i3} [] i = i3 -> {i1, i3}]
MCSymmetry == Permutations(Blocks)
=============================================================================
