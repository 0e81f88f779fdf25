------------------------------ MODULE MCLinuxRuns ------------------------------
(* Two bytes and as many calls as it takes to write, copy, close and read   *)
(* back; the events overflow before the calls do.                           *)
EXTENDS ShellcodeRun, TLC

Symmetry == Permutations(Data)
=============================================================================
