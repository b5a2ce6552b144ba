-------------------------------- MODULE Streams --------------------------------
(***************************************************************************)
(* The resource stream endpoint: internal/api/handlers/resources_stream.go   *)
(* and resources_stream_session.go, with the ReplayRing and StreamRegistry   *)
(* of internal/services/resources/watch.go.                                  *)
(*                                                                          *)
(* A session of one topic merges the subscriptions of its sources, assembles *)
(* their snapshots into one, publishes it and every later event under        *)
(* increasing ids into a bounded ring, and hands them to its clients through *)
(* bounded queues.  A viewer is a browser tab: it opens a stream, loses the  *)
(* connection, and resumes with the last id it saw.                          *)
(*                                                                          *)
(* A source's events are numbered; a snapshot is one chunk.  A step is what  *)
(* runs under session.mu or streamMu, or one event taken from `incoming`.    *)
(***************************************************************************)
EXTENDS Integers, Sequences, FiniteSetsExt

CONSTANTS
    Viewers, Sessions, Sources, None,
    MaximumStreams,   \* open streams, and sessions kept for a resume
    RingEvents,       \* events a ring keeps
    QueueEvents,      \* events a client's queue and the buffer of a topic hold
    MaxEvents,        \* bound: events of all sources of a session
    MaxUpsets         \* bound: denied reviews, lost connections, failed sources

ASSUME StreamsAssumption == IsFiniteSet(Sessions) /\ None \notin Sessions

VARIABLES
    session,    \* the sessions
    registered, \* handler.streamSessions
    viewer,     \* the viewers and their request
    active,     \* StreamRegistry.active
    upsets

vars == <<session, registered, viewer, active, upsets>>

\* A published event: the newest event of each source it tells of.
Event(kind, news) == [kind |-> kind, news |-> news]
Progress == [id |-> 0, kind |-> "progress"]
Reset    == [id |-> 0, kind |-> "reset"]

NewSession ==
    [made |-> 0, started |-> FALSE, expired |-> FALSE, stopped |-> FALSE, terminal |-> FALSE,
     timer |-> FALSE, log |-> <<>>, first |-> 1,
     taken |-> [s \in Sources |-> 0], final |-> {}, complete |-> FALSE, buffered |-> <<>>,
     out |-> <<>>]

NewViewer ==
    [pc |-> "idle", session |-> None, last |-> 0, replay |-> <<>>, queue |-> <<>>,
     closed |-> FALSE, slot |-> FALSE]

Init ==
    /\ session = [e \in Sessions |-> NewSession]
    /\ registered = {}
    /\ viewer = [v \in Viewers |-> NewViewer]
    /\ active = 0
    /\ upsets = 0

Upset == upsets < MaxUpsets /\ upsets' = upsets + 1

Clients(e, views) == {v \in Viewers : /\ views[v].session = e /\ ~ views[v].closed
                                      /\ views[v].pc = "stream"}

\* The ids still in the ring.
Ring(e) == session[e].first..Len(session[e].log)

-----------------------------------------------------------------------------
(* The client's queue *)

\* A full queue loses its oldest event.
PushedDroppingOldest(v, entry) ==
    IF Len(viewer[v].queue) < QueueEvents THEN [viewer[v] EXCEPT !.queue = Append(@, entry)]
    ELSE [viewer[v] EXCEPT !.queue = Append(Tail(@), entry)]

\* push, or forceTerminal with slow_consumer when the queue is full; the client
\* then leaves session.clients.
Pushed(v, entry) ==
    IF Len(viewer[v].queue) < QueueEvents THEN [viewer[v] EXCEPT !.queue = Append(@, entry)]
    ELSE [viewer[v] EXCEPT !.queue = <<Reset>>, !.closed = TRUE]

\* pushTerminal: after what is queued, or instead of it when the queue is full.
PushedTerminal(v) ==
    [viewer[v] EXCEPT !.closed = TRUE,
                      !.queue = IF Len(@) < QueueEvents THEN Append(@, Reset) ELSE <<Reset>>]

ToClients(e, entry) ==
    [v \in Viewers |-> IF v \in Clients(e, viewer) THEN Pushed(v, entry) ELSE viewer[v]]

\* publishTerminal and stop, unless the session has ended.
Terminate(e) ==
    IF session[e].expired \/ session[e].terminal THEN UNCHANGED <<session, viewer>>
    ELSE /\ session' = [session EXCEPT ![e].terminal = TRUE, ![e].stopped = TRUE, ![e].out = <<>>]
         /\ viewer' = [v \in Viewers |-> IF v \in Clients(e, viewer) THEN PushedTerminal(v)
                                         ELSE viewer[v]]

-----------------------------------------------------------------------------
(* The session's goroutine *)

Running(e) == session[e].started /\ ~ session[e].stopped

Total(e) == MapThenSumSet(LAMBDA s : session[e].taken[s], Sources)

\* One event of source s leaves `incoming`.
Taken(e, s) == [session[e] EXCEPT !.taken[s] = @ + 1]

\* A preview while the topic is incomplete: publishTransient, without an id.
TakeProgress(e, s) ==
    /\ Running(e) /\ session[e].out = <<>>
    /\ ~ session[e].complete /\ session[e].taken[s] = 0
    /\ upsets < MaxUpsets /\ upsets' = upsets + 1
    /\ viewer' = ToClients(e, Progress)
    /\ UNCHANGED <<session, registered, active>>

\* The last snapshot completes the topic: the assembled snapshot is published,
\* then what was buffered.
TakeSnapshot(e, s) ==
    LET r == Taken(e, s)
        final == r.final \cup {s}
        all == final = Sources
        out == IF all THEN <<Event("snapshot", [t \in Sources |-> 1])>> \o r.buffered ELSE <<>>
    IN
    /\ Running(e) /\ session[e].out = <<>> /\ Total(e) < MaxEvents
    /\ ~ session[e].complete
    /\ IF s \in r.final THEN Terminate(e)
       ELSE /\ session' = [session EXCEPT ![e] =
                  [r EXCEPT !.final = final, !.complete = all, !.out = out,
                            !.buffered = IF all THEN <<>> ELSE @]]
            /\ viewer' = ToClients(e, Progress)
    /\ UNCHANGED <<registered, active, upsets>>

\* The buffer of an incomplete topic is emptied instead of ending the stream.
TakeChangeForgetful(e, s) ==
    LET r == Taken(e, s)
        event == Event("change", [t \in Sources |-> IF t = s THEN r.taken[s] ELSE 0])
    IN
    /\ Running(e) /\ session[e].out = <<>> /\ Total(e) < MaxEvents
    /\ s \in r.final
    /\ session' = [session EXCEPT ![e] = IF r.complete THEN [r EXCEPT !.out = <<event>>]
                                         ELSE r]
    /\ UNCHANGED <<registered, viewer, active, upsets>>

\* A later event of a source whose snapshot was taken.
TakeChange(e, s) ==
    LET r == Taken(e, s)
        event == Event("change", [t \in Sources |-> IF t = s THEN r.taken[s] ELSE 0])
    IN
    /\ Running(e) /\ session[e].out = <<>> /\ Total(e) < MaxEvents
    /\ s \in r.final
    /\ IF r.complete
       THEN session' = [session EXCEPT ![e] = [r EXCEPT !.out = <<event>>]] /\ UNCHANGED viewer
       ELSE IF Len(r.buffered) < QueueEvents
       THEN /\ session' = [session EXCEPT ![e] = [r EXCEPT !.buffered = Append(@, event)]]
            /\ UNCHANGED viewer
       ELSE Terminate(e)
    /\ UNCHANGED <<registered, active, upsets>>

\* publish: the event gets its id, enters the ring and every client's queue in
\* one critical section.
PublishNext(e) ==
    LET id == Len(session[e].log) + 1 IN
    /\ Running(e) /\ session[e].out # <<>>
    /\ session' = [session EXCEPT
          ![e].out = Tail(@), ![e].log = Append(@, Head(session[e].out)),
          ![e].first = IF id - @ + 1 > RingEvents THEN @ + 1 ELSE @]
    /\ viewer' = ToClients(e, [id |-> id, kind |-> Head(session[e].out).kind])
    /\ UNCHANGED <<registered, active, upsets>>

\* A source ends, resets or fails; the review repeated every minute says no.
SessionFails(e) ==
    /\ Running(e)
    /\ Upset
    /\ Terminate(e)
    /\ UNCHANGED <<registered, active>>

-----------------------------------------------------------------------------
(* The handler *)

\* preflight and AuthorizeTopics passed, and a stream slot is free.
Acquire(v) == active < MaximumStreams /\ active' = active + 1

\* A new stream: createStreamSession subscribes every source and registers the
\* session; with all places taken the oldest session without a client leaves, and
\* expire is called for it once streamMu is released.
Open(v, e) ==
    LET idle == {x \in registered : Clients(x, viewer) = {}}
        oldest == CHOOSE x \in idle : \A y \in idle : session[x].made <= session[y].made
        full == Cardinality(registered) >= MaximumStreams
        made == 1 + Cardinality({x \in Sessions : session[x].made # 0})
    IN
    /\ viewer[v].pc = "idle" /\ viewer[v].last = 0
    /\ session[e].made = 0
    /\ Acquire(v)
    /\ full => idle # {}
    /\ registered' = (IF full THEN registered \ {oldest} ELSE registered) \cup {e}
    /\ session' = IF full THEN [session EXCEPT ![e].made = made, ![oldest].timer = TRUE]
                  ELSE [session EXCEPT ![e].made = made]
    /\ viewer' = [viewer EXCEPT ![v] = [NewViewer EXCEPT !.pc = "attach", !.session = e,
                                                         !.slot = TRUE]]
    /\ UNCHANGED upsets

\* attach("") and start; another viewer may have evicted the session meanwhile.
AttachNew(v) ==
    LET e == viewer[v].session IN
    /\ viewer[v].pc = "attach" /\ viewer[v].last = 0
    /\ IF session[e].expired
       THEN /\ viewer' = [viewer EXCEPT ![v] = NewViewer]
            /\ active' = active - 1
            /\ UNCHANGED session
       ELSE /\ viewer' = [viewer EXCEPT ![v].pc = "stream"]
            /\ session' = [session EXCEPT ![e].started = TRUE]
            /\ UNCHANGED active
    /\ UNCHANGED <<registered, upsets>>

\* A reconnect looks its session up by the epoch of the last id, then repeats
\* the reviews without the cache.
Resume(v) ==
    /\ viewer[v].pc = "idle" /\ viewer[v].last > 0
    /\ Acquire(v)
    /\ viewer' = [viewer EXCEPT ![v].pc = "attach", ![v].slot = TRUE,
                                ![v].session = @,
                                ![v].closed = viewer[v].session \notin registered]
    /\ UNCHANGED <<session, registered, upsets>>

\* A session that ended sends its terminal alone; the replay still comes first.
Attached(v, e) ==
    [viewer[v] EXCEPT
        !.pc = "stream", !.queue = IF session[e].terminal THEN <<Reset>> ELSE <<>>,
        !.closed = session[e].terminal,
        !.replay = [i \in 1..(Len(session[e].log) - viewer[v].last) |-> viewer[v].last + i]]

\* A retention timer that has fired is not stopped: expire finds the client.
\* attach(lastID): the ring must still hold the last id, else the viewer is
\* told that the resume is unavailable and starts over.
AttachResumed(v) ==
    LET e == viewer[v].session IN
    /\ viewer[v].pc = "attach" /\ viewer[v].last > 0
    /\ IF viewer[v].closed \/ session[e].expired \/ viewer[v].last \notin Ring(e)
       THEN /\ viewer' = [viewer EXCEPT ![v] = NewViewer]
            /\ active' = active - 1
            /\ UNCHANGED session
       ELSE /\ viewer' = [viewer EXCEPT ![v] = Attached(v, e)]
            /\ \E stopped \in BOOLEAN : session' = [session EXCEPT ![e].timer = @ /\ ~ stopped]
            /\ UNCHANGED active
    /\ UNCHANGED <<registered, upsets>>

\* The retention of a session nobody resumed yet is not started.
DetachedOnce(e, views) ==
    IF Clients(e, views) = {} /\ ~ session[e].expired /\ session[e].complete
    THEN [session EXCEPT ![e].timer = TRUE] ELSE session

\* detach: the last client to leave starts the retention of the session.
Detached(e, views) ==
    IF Clients(e, views) = {} /\ ~ session[e].expired
    THEN [session EXCEPT ![e].timer = TRUE] ELSE session

\* One event is written to the connection: the replay first.
Send(v) ==
    /\ viewer[v].pc = "stream"
    /\ \/ /\ viewer[v].replay # <<>>
          /\ viewer' = [viewer EXCEPT ![v].last = Head(viewer[v].replay), ![v].replay = Tail(@)]
       \/ /\ viewer[v].replay = <<>> /\ viewer[v].queue # <<>>
          /\ Head(viewer[v].queue).kind # "reset"
          /\ viewer' = [viewer EXCEPT ![v].queue = Tail(@),
                           ![v].last = IF Head(viewer[v].queue).id = 0 THEN @
                                       ELSE Head(viewer[v].queue).id]
    /\ UNCHANGED <<session, registered, active, upsets>>

\* The terminal event ends the request, and the viewer starts over.
SendTerminal(v) ==
    /\ viewer[v].pc = "stream" /\ viewer[v].replay = <<>> /\ viewer[v].queue # <<>>
    /\ Head(viewer[v].queue).kind = "reset"
    /\ viewer' = [viewer EXCEPT ![v] = NewViewer]
    /\ session' = Detached(viewer[v].session, viewer')
    /\ active' = active - 1
    /\ UNCHANGED <<registered, upsets>>

\* The connection is lost: what was queued or left to replay is gone, the last
\* id the browser saw is not.
Disconnect(v) ==
    /\ viewer[v].pc = "stream"
    /\ Upset
    /\ viewer' = [viewer EXCEPT ![v] =
            IF viewer[v].last = 0 THEN NewViewer
            ELSE [NewViewer EXCEPT !.session = viewer[v].session, !.last = viewer[v].last]]
    /\ session' = Detached(viewer[v].session, viewer')
    /\ active' = active - 1
    /\ UNCHANGED registered

\* expire: the retention is over and nobody has come back.
Expire(e) ==
    /\ session[e].timer
    /\ IF Clients(e, viewer) # {} \/ session[e].expired
       THEN session' = [session EXCEPT ![e].timer = FALSE] /\ UNCHANGED registered
       ELSE /\ session' = [session EXCEPT ![e].timer = FALSE, ![e].expired = TRUE,
                                          ![e].stopped = TRUE]
            /\ registered' = registered \ {e}
    /\ UNCHANGED <<viewer, active, upsets>>

-----------------------------------------------------------------------------
Next ==
    \/ \E e \in Sessions :
        \/ PublishNext(e) \/ SessionFails(e) \/ Expire(e)
        \/ \E s \in Sources : TakeProgress(e, s) \/ TakeSnapshot(e, s) \/ TakeChange(e, s)
    \/ \E v \in Viewers :
        \/ AttachNew(v) \/ Resume(v) \/ AttachResumed(v) \/ Send(v) \/ SendTerminal(v)
        \/ Disconnect(v)
        \/ \E e \in Sessions : Open(v, e)

Spec == Init /\ [][Next]_vars

Served ==
    \/ \E e \in Sessions : PublishNext(e)
    \/ \E v \in Viewers : AttachNew(v) \/ AttachResumed(v) \/ Send(v) \/ SendTerminal(v)

\* A published event is pushed and written, an accepted request is served, and
\* retention ends; nothing is owed by the sources, the users or the network.
FairSpec == Spec /\ WF_vars(Served) /\ \A e \in Sessions : WF_vars(Expire(e))

-----------------------------------------------------------------------------
(* Properties *)

Published == [e \in Sessions \cup {None} |-> IF e = None THEN 0 ELSE Len(session[e].log)]
Followed  == [v \in Viewers |-> viewer[v].session]

TheFeed == INSTANCE Feed WITH
    published <- Published,
    follows <- Followed,
    received <- [v \in Viewers |-> viewer[v].last],
    Sessions <- Sessions \cup {None}

\* What every viewer sees of its session is the published sequence: each event
\* once and in order, over queues that overflow, connections that break and
\* resumes that race with publication, retention and eviction; where that
\* cannot be kept the viewer starts over.
ImplementsFeed == TheFeed!FeedSpec

\* The events tell of those of source s from m to n, each once and in order.
Tells(events, s, m, n) ==
    /\ \A i \in DOMAIN events : events[i].news[s] \in {0} \cup m..n
    /\ \A k \in m..n : \E i \in DOMAIN events : events[i].news[s] = k
    /\ \A i, j \in DOMAIN events :
          i < j /\ events[i].news[s] # 0 /\ events[j].news[s] # 0 => events[i].news[s] < events[j].news[s]

\* Assembly: nothing is published before every source's snapshot is in, the
\* first event is the whole snapshot, and from then on the log tells each
\* source's events in order and up to the last one taken, those that came
\* while the topic was incomplete included.
Assembled ==
    \A e \in Sessions :
        LET r == session[e]
            told == r.log \o r.out
        IN  /\ ~ r.complete => told = <<>>
            /\ r.complete /\ ~ r.terminal =>
                \A s \in Sources : Tells(told, s, 1, r.taken[s])

\* A session nobody follows any more is stopped.
AbandonedStops ==
    \A e \in Sessions :
        (session[e].started /\ Clients(e, viewer) = {}) ~>
            (session[e].stopped \/ Clients(e, viewer) # {})
=============================================================================
