-------------------------------- MODULE MCDiff --------------------------------
(* Diff on small documents. *)
EXTENDS Diff

CONSTANTS Texts, MaxLines

VARIABLES previous, current, diff

Documents == UNION {[1..n -> Texts] : n \in 1..MaxLines}

DiffInit ==
    /\ previous \in Documents /\ current \in Documents
    /\ diff = [lines |-> <<>>, truncated |-> FALSE]

\* One request compares the two documents.
Compare ==
    /\ diff.lines = <<>>
    /\ diff' = DiffYAML(current, previous)
    /\ UNCHANGED <<previous, current>>

DiffSpec == DiffInit /\ [][Compare]_<<previous, current, diff>>

\* DiffYAML "renders a bounded line diff from previous to current": the lines of a
\* diff that was not cut lead from the one document to the other.
DiffLeads ==
    (diff.lines # <<>> /\ ~ diff.truncated) => LeadsFrom(previous, current, diff.lines)
=============================================================================
