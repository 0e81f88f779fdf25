---------------------------- MODULE MCGuestMemory ----------------------------
(* Three pages of two units; the region mapped before the guest runs        *)
(* overlaps the guest's allocations, or lies above them.                    *)
EXTENDS GuestMemory

MCMapped == <<Region(2, 4, {"R", "W"}, "commit")>>
MCHarnessAbove == <<Region(4, 2, {"R", "W"}, "commit")>>
MCProts == {{"R", "W"}, {"R", "G"}}

\* No action reads last: states that differ in it only are one state.
MCView == <<regions, nextVa>>
=============================================================================
