-------------------------------- MODULE MCReads --------------------------------
(* Reads of a cluster on small instances: pages through the cache, the coalescer  *)
(* and the scheduler (Reads), or the clients that carry them while the selection   *)
(* changes (Runtime).                                                          *)
EXTENDS Reads, Runtime, TLC

CONSTANTS boot, s1, n1, l1, r1, a, b

MCCallers == Visible \cup Prefetch
MCKeys == (1..MaxGeneration) \X {"visible", "speculative"}

Symmetry == Permutations(Visible)

MCDestination == [p \in {boot, s1} |-> IF p = boot THEN a ELSE b]

-----------------------------------------------------------------------------

VARIABLE scene

everyVars == <<readsVars, allVars, scene>>

\* The prefetch is asked in the first generation: it is the stale one.
PagesInit == ReadsInit /\ \A p \in Prefetch : call[p].key[1] = 1

\* The calls of the scenes of clients do not matter.
AnyCalls == \A c \in Callers : call[c].key = <<1, IF c \in Prefetch THEN "speculative" ELSE "visible">>

ReadingInit ==
    /\ PagesInit /\ RuntimeInit
    /\ scene \in IF AnyCalls THEN {"pages", "list", "review"} ELSE {"pages"}

\* Two requests of the first generation race each other, the prefetch races those
\* of which one is of the second.
Beside == (\A v \in Visible : call[v].key[1] = 1) => \A p \in Prefetch : caller'[p] = caller[p]

\* Beside Bootstrap, a selection and a change of scope: a list, or a review.
Inside ==
    /\ scene = "list" => \A p \in Reviews : proc'[p] = proc[p]
    /\ scene = "review" => \A p \in Lists : proc'[p] = proc[p]

ReadingNext ==
    \/ scene = "pages" /\ ReadsNext /\ Beside /\ UNCHANGED <<allVars, scene>>
    \/ scene # "pages" /\ RuntimeNext /\ Inside /\ UNCHANGED <<readsVars, scene>>

ReadingSpec == ReadingInit /\ [][ReadingNext]_everyVars
=============================================================================
