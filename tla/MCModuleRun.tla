----------------------------- MODULE MCModuleRun -----------------------------
(* Three harvested entries, one of them twice, of which two are looked at;   *)
(* each mode of the automatic drive, the canned one and none with explicit   *)
(* operations and the cleanup, none with the second attempt.                 *)
EXTENDS ModuleRun

CONSTANTS i1, i2, read, ioctl

MCHarvests == {<<read, ioctl, read>>, <<read, read, ioctl>>}
MCSeeds == <<i1, i2>>
MCOptions ==
    [auto : {"fuzz", "concolic", "both"}, explicit : {0}, cleanup : {FALSE}, fallback : {FALSE}]
    \cup [auto : {"canned"}, explicit : {1}, cleanup : {TRUE}, fallback : {FALSE}]
    \cup [auto : {"off"}, explicit : {0, 2}, cleanup : BOOLEAN, fallback : {FALSE}]
    \cup [auto : {"off"}, explicit : {1}, cleanup : {FALSE}, fallback : {TRUE}]
=============================================================================
