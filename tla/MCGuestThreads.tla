--------------------------- MODULE MCGuestThreads ---------------------------
(* Two threads beside main and three APCs, so that APCs queue behind each   *)
(* other, across threads, and while a drain is on; or fewer APCs and calls  *)
(* on slots, events and mutexes in between.                                 *)
EXTENDS ThreadObjects
=============================================================================
