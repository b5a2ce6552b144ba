------------------------------ MODULE FencedCell ------------------------------
(***************************************************************************)
(* What internal/services/resources/cache.go promises about one key: a      *)
(* cell that holds the data of the newest refresh or nothing.  A refresh    *)
(* takes a number when it begins and may only fill the cell while no later  *)
(* refresh began and nothing was invalidated.  The cell may lose its data   *)
(* at any time (eviction) or turn stale, and dies with its generation.      *)
(*                                                                          *)
(* ResourceCache implements one such cell for every key; Watch is built on  *)
(* the cell of its key.                                                     *)
(***************************************************************************)
EXTENDS Naturals

CONSTANTS Data, Empty

VARIABLES held, begun, dead

cellVars == <<held, begun, dead>>

Held == [data : Data, fresh : BOOLEAN, issue : Nat]

CellTypeOK == held \in Held \cup {Empty} /\ begun \in Nat /\ dead \in BOOLEAN

CellInit == held = Empty /\ begun = 0 /\ dead = FALSE

Begin == ~ dead /\ begun' = begun + 1 /\ UNCHANGED <<held, dead>>

Install(issue, d) ==
    /\ ~ dead
    /\ issue = begun
    /\ held' = [data |-> d, fresh |-> TRUE, issue |-> issue]
    /\ UNCHANGED <<begun, dead>>

\* Marked stale, or grown old; a refresh that failed leaves the data alone.
Stale ==
    /\ held # Empty
    /\ held' = [held EXCEPT !.fresh = FALSE]
    /\ UNCHANGED <<begun, dead>>

Drop == held' = Empty /\ UNCHANGED <<begun, dead>>

Void == held' = Empty /\ begun' = begun + 1 /\ UNCHANGED dead

Kill == held' = Empty /\ begun' = begun + 1 /\ dead' = TRUE

CellNext ==
    \/ Begin \/ Stale \/ Drop \/ Void \/ Kill
    \/ \E d \in Data : Install(begun, d)

CellSpec == CellInit /\ [][CellNext]_cellVars
=============================================================================
