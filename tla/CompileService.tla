--------------------------- MODULE CompileService ---------------------------
(***************************************************************************)
(* What compiler-worker promises its callers (index.browser.mjs and the    *)
(* header of browser.client.mjs), with no worker, message or instance in   *)
(* sight: a compile returns the object made from the source it was given,  *)
(* or fails; a warm-up says whether the toolchain is available; a call is  *)
(* answered once and every call is answered.                               *)
(***************************************************************************)
CONSTANTS Compiles,   \* the compile calls, each named by its source
          Warmups,    \* the warm-up calls
          None        \* "no outcome yet"

VARIABLES asked,      \* the calls made so far
          outcome     \* the answer of each call

svars == <<asked, outcome>>

Answers(c) == IF c \in Compiles THEN {c, "error"} ELSE {"ready", "unavailable"}

SInit == /\ asked = {}
         /\ outcome = [c \in Compiles \cup Warmups |-> None]

\* A new call; a refused one may be answered in the same step.
Ask(c) == /\ c \notin asked
          /\ asked' = asked \cup {c}
          /\ \E a \in Answers(c) \cup {None} : outcome' = [outcome EXCEPT ![c] = a]

\* Any of the calls still open is answered; the worker's failure answers
\* several warm-ups at once.
Answer == /\ \E C \in SUBSET asked :
               /\ C # {}
               /\ \A c \in C : outcome[c] = None /\ outcome'[c] \in Answers(c)
               /\ \A c \in DOMAIN outcome \ C : outcome'[c] = outcome[c]
          /\ asked' = asked

SNext == Answer \/ \E c \in Compiles \cup Warmups : Ask(c)

SSpec == SInit /\ [][SNext]_svars
=============================================================================
