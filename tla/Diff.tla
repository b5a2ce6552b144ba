---------------------------------- MODULE Diff ----------------------------------
(***************************************************************************)
(* internal/services/resources/diff.go: the line diff between the manifest    *)
(* kubectl last applied and the live document.  A document is a sequence of    *)
(* lines, a line a number; a script is a sequence of kept, added and removed    *)
(* lines, which is shown up to MaximumDiffLines.                               *)
(*                                                                          *)
(* An index outside a slice is a panic: the script is Panic then.             *)
(***************************************************************************)
EXTENDS Integers, Sequences, FiniteSetsExt, SequencesExt

CONSTANTS
    MaximumDiffLines,    \* the lines shown
    MaximumInputLines    \* maximumDiffInputLines: the lines of a document compared

Op(kind, text) == [kind |-> kind, text |-> text]
Same(doc) == [i \in DOMAIN doc |-> Op("same", doc[i])]

Panic == <<Op("panic", 0)>>

-----------------------------------------------------------------------------
(* myersMiddle: the furthest x on each diagonal, round by round *)

\* Lines count from 0 in the source: line x of a document is doc[x + 1].
\* The lines that agree from (x, y) on.
Snake(prev, cur, x, y) ==
    Max({t \in 0..Min({Len(prev) - x, Len(cur) - y}) : \A i \in 1..t : prev[x + i] = cur[y + i]} \cup {0})

Diagonals(prev, cur) == -(Len(prev) + Len(cur))..(Len(prev) + Len(cur))

\* One round: diagonal k goes down from k + 1 or right from k - 1.
Furthest(prev, cur, vertical, d, k) ==
    LET x == IF k = -d \/ (k # d /\ vertical[k - 1] < vertical[k + 1]) THEN vertical[k + 1] ELSE vertical[k - 1] + 1
    IN  x + Snake(prev, cur, x, x - k)

Round(prev, cur, vertical, d) ==
    [k \in Diagonals(prev, cur) |->
        IF k \in -d..d /\ (k + d) % 2 = 0 THEN Furthest(prev, cur, vertical, d, k) ELSE vertical[k]]

\* trace, the snapshot after every round.
Trace(prev, cur) ==
    LET Rounds == FoldLeft(LAMBDA t, d : Append(t, Round(prev, cur, t[Len(t)], d)),
                           <<[k \in Diagonals(prev, cur) |-> 0]>>, [i \in 1..(Len(prev) + Len(cur) + 1) |-> i - 1])
    IN  Tail(Rounds)

\* The round that reaches the end of both documents: the number of edits.
LastRound(prev, cur, trace) ==
    Min({d \in 0..(Len(prev) + Len(cur)) :
            \E k \in -d..d : /\ (k + d) % 2 = 0
                             /\ trace[d + 1][k] >= Len(prev) /\ trace[d + 1][k] - k >= Len(cur)})

-----------------------------------------------------------------------------
(* myersBacktrack *)

\* Which diagonal the edit of round d + 1 came from, judged from the snapshot of
\* round d; the comparison reads both neighbours.
ReadsOutside(snapshot, d, k) == k \notin {-d, d} /\ ~ {k - 1, k + 1} \subseteq DOMAIN snapshot
PreviousK(snapshot, d, k) ==
    IF k = -d \/ (k # d /\ snapshot[k - 1] < snapshot[k + 1]) THEN k + 1 ELSE k - 1

\* The lines kept since that edit, and the edit, before the script so far.
Backtrack(prev, cur, snapshot, d, at) ==
    IF at.script = Panic \/ ReadsOutside(snapshot, d, at.x - at.y) THEN [at EXCEPT !.script = Panic]
    ELSE LET from == PreviousK(snapshot, d, at.x - at.y)
             px   == snapshot[from]
             py   == px - from
             kept == Max({0, Min({at.x - px, at.y - py})})
             x    == at.x - kept
             y    == at.y - kept
             script == Same(SubSeq(prev, x + 1, at.x)) \o at.script
         IN  CASE x = px /\ py + 1 \in DOMAIN cur ->
                    [x |-> x, y |-> y - 1, script |-> <<Op("added", cur[py + 1])>> \o script]
               [] x # px /\ x \in DOMAIN prev ->
                    [x |-> x - 1, y |-> y, script |-> <<Op("removed", prev[x])>> \o script]
               [] OTHER -> [at EXCEPT !.script = Panic]

myersMiddle(prev, cur) ==
    LET trace == Trace(prev, cur)
        last  == LastRound(prev, cur, trace)
        end   == FoldLeft(LAMBDA at, d : Backtrack(prev, cur, trace[d + 1], d, at),
                          [x |-> Len(prev), y |-> Len(cur), script |-> <<>>], [i \in 1..last |-> last - i])
    IN  IF Len(prev) + Len(cur) = 0 THEN <<>> ELSE end.script

\* The common prefix and suffix are trimmed first.
myersDiff(prev, cur) ==
    LET shorter == Min({Len(prev), Len(cur)})
        prefix  == Max({p \in 0..shorter : SubSeq(prev, 1, p) = SubSeq(cur, 1, p)})
        suffix  == Max({s \in 0..(shorter - prefix) :
                          SubSeq(prev, Len(prev) - s + 1, Len(prev)) = SubSeq(cur, Len(cur) - s + 1, Len(cur))})
        middle  == myersMiddle(SubSeq(prev, prefix + 1, Len(prev) - suffix), SubSeq(cur, prefix + 1, Len(cur) - suffix))
    IN  IF middle = Panic THEN Panic
        ELSE Same(SubSeq(prev, 1, prefix)) \o middle \o Same(SubSeq(prev, Len(prev) - suffix + 1, Len(prev)))

\* DiffYAML bounds both documents, and the lines shown.
DiffYAML(cur, prev) ==
    LET Bounded(doc) == SubSeq(doc, 1, Min({Len(doc), MaximumInputLines}))
        script == myersDiff(Bounded(prev), Bounded(cur))
    IN  [lines |-> IF script = Panic THEN Panic ELSE SubSeq(script, 1, Min({Len(script), MaximumDiffLines})),
         truncated |-> Len(script) > MaximumDiffLines]

-----------------------------------------------------------------------------
(* Properties *)

\* What a script says of the two documents: without its added lines it is the
\* previous one, without its removed lines the current one.
LeadsFrom(prev, cur, script) ==
    LET Without(kind) == LET rest == SelectSeq(script, LAMBDA op : op.kind # kind) IN [i \in DOMAIN rest |-> rest[i].text]
    IN  Without("added") = prev /\ Without("removed") = cur
=============================================================================
