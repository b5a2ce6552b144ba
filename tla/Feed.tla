--------------------------------- MODULE Feed ---------------------------------
(***************************************************************************)
(* What the resource stream promises a viewer: the events of a session are  *)
(* published one after the other, and a viewer receives each of them once   *)
(* and in order, over as many connections as it needs, until the stream     *)
(* ends or the viewer is told that continuity is lost.                      *)
(***************************************************************************)
EXTENDS Naturals

CONSTANTS Viewers, Sessions

VARIABLES
    published,  \* events published in each session
    follows,    \* the session a viewer follows
    received    \* events of that session the viewer received

feedVars == <<published, follows, received>>

FeedInit ==
    /\ published = [e \in Sessions |-> 0]
    /\ follows \in [Viewers -> Sessions]
    /\ received = [v \in Viewers |-> 0]

Publish(e) == published' = [published EXCEPT ![e] = @ + 1] /\ UNCHANGED <<follows, received>>

Receive(v) ==
    /\ received[v] < published[follows[v]]
    /\ received' = [received EXCEPT ![v] = @ + 1]
    /\ UNCHANGED <<published, follows>>

\* Continuity is lost: the viewer starts over in some session.
StartOver(v, e) ==
    /\ follows' = [follows EXCEPT ![v] = e]
    /\ received' = [received EXCEPT ![v] = 0]
    /\ UNCHANGED published

FeedNext ==
    \/ \E e \in Sessions : Publish(e)
    \/ \E v \in Viewers : Receive(v) \/ \E e \in Sessions : StartOver(v, e)

FeedSpec == FeedInit /\ [][FeedNext]_feedVars
=============================================================================
