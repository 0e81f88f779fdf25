-------------------------------- MODULE Corpus --------------------------------
(***************************************************************************)
(* What the fuzz, concolic and bug campaigns share: the CoverageTracker of *)
(* ntsim-analyzer/src/coverage.mjs, and the hit counts and the eviction of *)
(* a corpus, which fuzz.mjs and bug/engine.mjs both have.  An entry of a   *)
(* corpus is a record with the coverage of its run in the field cov.       *)
(***************************************************************************)
EXTENDS Naturals, Sequences, FiniteSets, FiniteSetsExt, SequencesExt

CONSTANTS Blocks,   \* blocks of the driver image
          Cap       \* opts.corpusCap

\* The callers' caps are 8 and more.
ASSUME CorpusAssumption ==
    /\ IsFiniteSet(Blocks)
    /\ Cap \in Nat \ {0}

-----------------------------------------------------------------------------
(* Coverage: the hook sees every executed block of the image.              *)

\* resume after reset; pause and reset.
Recording == [enabled |-> TRUE, blocks |-> {}]
Paused == [enabled |-> FALSE, blocks |-> {}]

\* Mutant of Hooked: the range check is gone.
HookedAnywhere(t, b) == IF t.enabled THEN [t EXCEPT !.blocks = @ \cup {b}] ELSE t

Hooked(t, b) == IF t.enabled /\ b \in Blocks THEN [t EXCEPT !.blocks = @ \cup {b}] ELSE t

-----------------------------------------------------------------------------
(* Hit counts and eviction.                                                *)

Covers(c, b) == {i \in DOMAIN c : b \in c[i].cov}

\* buildGlobalHitCounts
Counts(c) == [b \in Blocks |-> Cardinality(Covers(c, b))]

\* The hits of a coverage, one by one; a block that is not counted has 1.
HitsOf(cov, h) == UNION {{b} \X (1..(IF h[b] = 0 THEN 1 ELSE h[b])) : b \in cov}

\* The average hit count of a coverage as <<sum, n>>.  An entry that covers nothing has the
\* given score.
Score(cov, h, empty) ==
    IF cov = {} THEN <<empty, 1>> ELSE <<Cardinality(HitsOf(cov, h)), Cardinality(cov)>>

Below(x, y) == x[1] * y[2] < y[1] * x[2]

\* The entry an eviction drops: the first with the highest score.
Worst(c, h) ==
    LET S(j) == Score(c[j].cov, h, 0) IN
    CHOOSE i \in DOMAIN c : \A j \in DOMAIN c :
        ~Below(S(i), S(j)) /\ (j < i => Below(S(j), S(i)))

\* Over the cap one entry goes, by the counts from before the new entry.
Evict(c, h) == IF Len(c) > Cap THEN RemoveAt(c, Worst(c, h)) ELSE c
=============================================================================
