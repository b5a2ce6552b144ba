---------------------------- MODULE MCSelection ----------------------------
(* Selection on small instances. *)
EXTENDS Selection, TLC

\* The database of a first run, and one where every row is a scope of the
\* same context and the first row is its default.
MCStoredRows ==
    {EmptyTable} \cup
    {[id \in ScopeIDs |-> [ctx |-> c, ver |-> 1, def |-> id = 1]] : c \in Contexts}

Symmetry == Permutations(Requests) \cup Permutations(Contexts)
=============================================================================
