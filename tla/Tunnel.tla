--------------------------------- MODULE Tunnel ---------------------------------
(***************************************************************************)
(* One port-forward upstream: clientGoPortForward of internal/adapters/     *)
(* kubernetes/actions.go under the contexts that internal/integration/      *)
(* kubernetesruntime/actions.go gives it.                                   *)
(*                                                                          *)
(* The listener's Accept, run, one forward per accepted connection, Close   *)
(* and the watcher of the context are goroutines of their own.  What ends a *)
(* tunnel: the manager, the generation, the loss of the upstream connection, *)
(* a listener that fails, and the first failure of any forwarded connection. *)
(***************************************************************************)
EXTENDS Naturals, Sequences, FiniteSets

CONSTANTS
    Locals,     \* local connections that clients make
    Nobody

\* decodePortForwardError of what the pod's side says about one connection.
UpstreamErrors == {"connection", "pod_gone"}

VARIABLES
    setup,      \* Start: "negotiating", "started" or "failed"
    lifetime,   \* the contexts: of the session and of the generation, each
    genDone,    \* TRUE when done,
    ended,      \* and handle.ctx, a child of both
    listener,   \* TRUE while it is open
    upstream,   \* handle.connection: "open", "lost" or "closed"
    accepted,   \* what Accept's goroutine has for run: Nobody, a connection, "error"
    run,        \* "select", "closing" or "done"
    result,     \* handle.result
    fatal,      \* handle.fatal, a channel of one
    closing,    \* the step that Close's once comes to
    tracked,    \* handle.locals
    fwd,        \* the forward of each local connection
    socket,     \* TRUE while the local connection is open on this side
    failures    \* history: the failures the forwards reported, in order

tunnelVars == <<setup, lifetime, genDone, ended, listener, upstream, accepted, run, result, fatal,
                closing, tracked, fwd, socket, failures>>

TunnelTypeOK ==
    /\ setup \in {"negotiating", "started", "failed"}
    /\ <<lifetime, genDone, ended, listener>> \in BOOLEAN \X BOOLEAN \X BOOLEAN \X BOOLEAN
    /\ upstream \in {"none", "open", "lost", "closed"}
    /\ accepted \in Locals \cup {Nobody, "error"}
    /\ run \in {"none", "select", "closing", "done"}
    /\ result \in {"none"} \cup UpstreamErrors /\ fatal \in {"none"} \cup UpstreamErrors
    /\ closing \in {"no", "listener", "locals", "upstream", "done"}
    /\ tracked \subseteq Locals
    /\ fwd \in [Locals -> {"new", "accepted", "errorStream", "dataStream", "copying", "verdict", "done"}]
    /\ socket \in [Locals -> BOOLEAN]

TunnelInit ==
    /\ setup = "negotiating"
    /\ lifetime = FALSE /\ genDone = FALSE /\ ended = FALSE
    /\ listener = TRUE /\ upstream = "none"
    /\ accepted = Nobody /\ run = "none" /\ result = "none" /\ fatal = "none"
    /\ closing = "no" /\ tracked = {}
    /\ fwd = [c \in Locals |-> "new"] /\ socket = [c \in Locals |-> FALSE]
    /\ failures = <<>>

-----------------------------------------------------------------------------
(* The backend's Start and the contexts *)

\* StartPortForward: the negotiation under the setup's context.
StartForward(ok) ==
    /\ setup = "negotiating"
    /\ IF ok THEN setup' = "started" /\ upstream' = "open" /\ run' = "select" /\ UNCHANGED <<ended, listener>>
       ELSE /\ setup' = "failed"         \* release; the manager closes the listener
            /\ ended' = TRUE /\ listener' = FALSE
            /\ UNCHANGED <<upstream, run>>
    /\ UNCHANGED <<lifetime, genDone, accepted, result, fatal, closing, tracked, fwd, socket, failures>>

\* The manager cancels a reservation, or stops a session and closes its listener.
ManagerStops ==
    /\ setup # "failed" /\ ~ lifetime
    /\ lifetime' = TRUE /\ ended' = TRUE
    /\ listener' = (listener /\ setup # "started")
    /\ UNCHANGED <<setup, genDone, upstream, accepted, run, result, fatal, closing, tracked, fwd, socket, failures>>

\* The generation ends, at any time, also while the tunnel is set up.
GenerationEnds ==
    /\ ~ genDone
    /\ genDone' = TRUE
    /\ UNCHANGED <<setup, lifetime, ended, listener, upstream, accepted, run, result, fatal, closing, tracked, fwd, socket, failures>>

\* generationLifetime: the AfterFunc cancels the stream's context.
GenerationCancels ==
    /\ genDone /\ ~ ended
    /\ ended' = TRUE
    /\ UNCHANGED <<setup, lifetime, genDone, listener, upstream, accepted, run, result, fatal, closing, tracked, fwd, socket, failures>>

\* generationPortForward.Wait keeps its context.
WaitKeeps ==
    /\ FALSE
    /\ UNCHANGED tunnelVars

\* generationPortForward.Wait: it releases the context once run is done.
WaitReleases ==
    /\ run = "done" /\ ~ ended
    /\ ended' = TRUE
    /\ UNCHANGED <<setup, lifetime, genDone, listener, upstream, accepted, run, result, fatal, closing, tracked, fwd, socket, failures>>

-----------------------------------------------------------------------------
(* Close, once: the watcher of the context calls it, and run *)

CloseBegins ==
    /\ closing = "no" /\ ((ended /\ setup = "started") \/ run = "closing")
    /\ ended' = TRUE /\ closing' = "listener"
    /\ UNCHANGED <<setup, lifetime, genDone, listener, upstream, accepted, run, result, fatal, tracked, fwd, socket, failures>>

CloseListener ==
    /\ closing = "listener"
    /\ listener' = FALSE /\ closing' = "locals"
    /\ UNCHANGED <<setup, lifetime, genDone, ended, upstream, accepted, run, result, fatal, tracked, fwd, socket, failures>>

\* The connections that are tracked now; run may track another one later.
CloseLocals ==
    /\ closing = "locals"
    /\ socket' = [c \in Locals |-> socket[c] /\ c \notin tracked]
    /\ tracked' = {} /\ closing' = "upstream"
    /\ UNCHANGED <<setup, lifetime, genDone, ended, listener, upstream, accepted, run, result, fatal, fwd, failures>>

CloseUpstream ==
    /\ closing = "upstream"
    /\ upstream' = "closed" /\ closing' = "done"
    /\ UNCHANGED <<setup, lifetime, genDone, ended, listener, accepted, run, result, fatal, tracked, fwd, socket, failures>>

-----------------------------------------------------------------------------
(* run *)

\* Environment: a client connects, and Accept's goroutine has it.
Connect(c) ==
    /\ run # "none" /\ listener /\ accepted = Nobody /\ fwd[c] = "new"
    /\ accepted' = c
    /\ fwd' = [fwd EXCEPT ![c] = "accepted"] /\ socket' = [socket EXCEPT ![c] = TRUE]
    /\ UNCHANGED <<setup, lifetime, genDone, ended, listener, upstream, run, result, fatal, closing, tracked, failures>>

\* The listener is closed, or broke.
AcceptFails ==
    /\ run = "select" /\ accepted = Nobody
    /\ accepted' = "error"
    /\ UNCHANGED <<setup, lifetime, genDone, ended, listener, upstream, run, result, fatal, closing, tracked, fwd, socket, failures>>

\* Environment: the upstream connection breaks.
UpstreamLost ==
    /\ upstream = "open"
    /\ upstream' = "lost"
    /\ UNCHANGED <<setup, lifetime, genDone, ended, listener, accepted, run, result, fatal, closing, tracked, fwd, socket, failures>>

RunTracks ==
    /\ run = "select" /\ accepted \in Locals
    /\ accepted' = Nobody
    /\ tracked' = tracked \cup {accepted}
    /\ fwd' = [fwd EXCEPT ![accepted] = "errorStream"]
    /\ UNCHANGED <<setup, lifetime, genDone, ended, listener, upstream, run, result, fatal, closing, socket, failures>>

\* run returns with what it found; the select takes any case that is ready.
RunEnds(found, word) ==
    /\ run = "select" /\ found
    /\ run' = "done" /\ result' = IF ended THEN "none" ELSE word
    /\ UNCHANGED <<setup, lifetime, genDone, ended, listener, upstream, accepted, fatal, closing, tracked, fwd, socket, failures>>

RunAcceptError == RunEnds(accepted = "error", "connection")
RunUpstreamGone == RunEnds(upstream # "open", "connection")
RunCancelled == RunEnds(ended, "none")

\* It takes a failure and closes the tunnel first.
RunFatal ==
    /\ run = "select" /\ fatal # "none"
    /\ run' = "closing" /\ result' = fatal /\ fatal' = "none"
    /\ UNCHANGED <<setup, lifetime, genDone, ended, listener, upstream, accepted, closing, tracked, fwd, socket, failures>>

RunClosed ==
    /\ run = "closing" /\ closing = "done"
    /\ run' = "done"
    /\ UNCHANGED <<setup, lifetime, genDone, ended, listener, upstream, accepted, result, fatal, closing, tracked, fwd, socket, failures>>

-----------------------------------------------------------------------------
(* forward, one for each local connection *)

\* fail: the channel holds the first one.
Fail(word) ==
    /\ fatal' = IF fatal = "none" THEN word ELSE fatal
    /\ failures' = Append(failures, word)

\* The deferred function: untracked, and closed.
ForwardReturns(c) ==
    /\ fwd' = [fwd EXCEPT ![c] = "done"]
    /\ socket' = [socket EXCEPT ![c] = FALSE]
    /\ tracked' = tracked \ {c}

\* CreateStream, of the error stream and then of the data stream.
ForwardCreates(c, from, to) ==
    /\ fwd[c] = from
    /\ \/ /\ upstream = "open"
          /\ fwd' = [fwd EXCEPT ![c] = to]
          /\ UNCHANGED <<tracked, socket, fatal, failures>>
       \/ /\ upstream # "open"
          /\ Fail("connection") /\ ForwardReturns(c)
    /\ UNCHANGED <<setup, lifetime, genDone, ended, listener, upstream, accepted, run, result, closing>>

\* One of the copies ends: the client or the pod is done, the socket was
\* closed, the upstream is gone, or the context ended.
ForwardCopied(c) ==
    /\ fwd[c] = "copying"
    /\ fwd' = [fwd EXCEPT ![c] = "verdict"]
    /\ UNCHANGED <<setup, lifetime, genDone, ended, listener, upstream, accepted, run, result, fatal, closing, tracked, socket, failures>>

\* The error stream ends, with nothing or with a failure; unread at the end of
\* the connection it is a failure.
ForwardTold(c, word) ==
    /\ fwd[c] = "verdict"
    /\ upstream # "open" => word = "connection"
    /\ IF word = "none" THEN UNCHANGED <<fatal, failures>> ELSE Fail(word)
    /\ ForwardReturns(c)
    /\ UNCHANGED <<setup, lifetime, genDone, ended, listener, upstream, accepted, run, result, closing>>

ForwardCancelled(c) ==
    /\ fwd[c] = "verdict" /\ ended
    /\ ForwardReturns(c)
    /\ UNCHANGED <<setup, lifetime, genDone, ended, listener, upstream, accepted, run, result, fatal, closing, failures>>

-----------------------------------------------------------------------------

ForwardSteps(c) ==
    \/ ForwardCreates(c, "errorStream", "dataStream") \/ ForwardCreates(c, "dataStream", "copying")
    \/ ForwardCancelled(c)

TunnelSteps ==
    \/ GenerationCancels \/ WaitReleases
    \/ CloseBegins \/ CloseListener \/ CloseLocals \/ CloseUpstream
    \/ (~ listener /\ AcceptFails) \/ RunTracks \/ RunAcceptError \/ RunUpstreamGone \/ RunCancelled \/ RunFatal \/ RunClosed

TunnelNext ==
    \/ \E ok \in BOOLEAN : StartForward(ok)
    \/ ManagerStops \/ GenerationEnds \/ UpstreamLost \/ AcceptFails \/ TunnelSteps
    \/ \E c \in Locals :
        \/ Connect(c) \/ ForwardSteps(c) \/ ForwardCopied(c)
        \/ \E word \in {"none"} \cup UpstreamErrors : ForwardTold(c, word)

\* The goroutines run; a copy ends once the context has, or its socket or the
\* upstream is closed.  Nothing is owed by clients and pods.
TunnelProgress ==
    \/ TunnelSteps
    \/ \E c \in Locals :
        \/ ForwardSteps(c)
        \/ (ended \/ ~ socket[c] \/ upstream # "open") /\ ForwardCopied(c)

-----------------------------------------------------------------------------
(* Properties *)

\* A tunnel that was told to end, by the manager or its generation, or whose
\* upstream or listener failed, leaves nothing behind: no listener, no upstream
\* connection, and no forwarded connection of a client, whatever was being
\* accepted or forwarded (one that run never took from Accept's channel is not
\* closed by this code).
TunnelEnds ==
    (setup = "started" /\ (lifetime \/ genDone \/ run = "done")) ~>
        (/\ run = "done" /\ ~ listener /\ upstream = "closed" /\ closing = "done"
         /\ \A c \in Locals : fwd[c] \in {"new", "accepted", "done"} /\ (socket[c] => accepted = c))

\* Wait says that a tunnel ended without a failure only if it was told to end,
\* and that its pod is gone only if that was the first thing its forwards
\* reported: a later failure does not take its place.
WaitTellsWhy ==
    run = "done" =>
        /\ result = "none" => ended
        /\ result = "pod_gone" => failures # <<>> /\ failures[1] = "pod_gone"

\* A tunnel comes to its end and its reason is told.
TunnelEndsTold == TunnelEnds /\ [](TunnelTypeOK /\ WaitTellsWhy)
=============================================================================
