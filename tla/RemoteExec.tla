------------------------------- MODULE RemoteExec -------------------------------
(***************************************************************************)
(* One remote command: clientGoRemoteExec of internal/adapters/kubernetes/  *)
(* actions.go under the contexts that internal/integration/                 *)
(* kubernetesruntime/actions.go gives it.                                   *)
(*                                                                          *)
(* The pod's side sends a status on the error stream and ends the output    *)
(* streams, in any order, or the connection breaks; observe puts the result  *)
(* together, the bridge reads the output, and the watcher of the context     *)
(* closes the connection.                                                   *)
(***************************************************************************)
EXTENDS Naturals, FiniteSets

VARIABLES
    phase,     \* Start: "negotiating", "creating", "running", "failed"
    genGone,   \* the generation's context is done
    rctx,      \* remote.ctx is done
    link,      \* the connection: "none", "open", "lost", "closed"
    shut,      \* Close's once: "no", "closing", "done"
    output,    \* stdout and stderr: "open", "ended" by the pod's side, "read" to the end
    bridge,    \* TRUE while the bridge reads the output
    status,    \* what came on the error stream, whole
    observe,   \* where observe is
    verdict,   \* its result so far
    exit       \* remote.result, once done is closed

remoteVars == <<phase, genGone, rctx, link, shut, output, bridge, status, observe, verdict, exit>>

OutputStreams == {"stdout", "stderr"}

\* Statuses that the pod's side may send, after which it ends the stream.
ExecStatuses == {"success", "exit_code", "bad_exit_code", "not_found", "failure", "unreadable"}

RemoteTypeOK ==
    /\ phase \in {"negotiating", "creating", "running", "failed"}
    /\ <<genGone, rctx, bridge>> \in BOOLEAN \X BOOLEAN \X BOOLEAN
    /\ link \in {"none", "open", "lost", "closed"} /\ shut \in {"no", "closing", "done"}
    /\ output \in [OutputStreams -> {"open", "ended", "read"}]
    /\ status \in ExecStatuses \cup {"pending"}
    /\ observe \in {"none", "status", "stdout", "stderr", "done"}

RemoteInit ==
    /\ phase = "negotiating" /\ genGone = FALSE /\ rctx = FALSE /\ link = "none" /\ shut = "no"
    /\ output = [s \in OutputStreams |-> "open"]
    /\ bridge = TRUE /\ status = "pending" /\ observe = "none" /\ verdict = "none" /\ exit = "none"

-----------------------------------------------------------------------------
(* Start *)

\* negotiateSPDY, under the setup's context; a failure releases the stream's.
NegotiateExec(ok) ==
    /\ phase = "negotiating"
    /\ IF ok THEN phase' = "creating" /\ link' = "open" /\ UNCHANGED rctx
       ELSE phase' = "failed" /\ rctx' = TRUE /\ UNCHANGED link
    /\ UNCHANGED <<genGone, shut, output, bridge, status, observe, verdict, exit>>

\* createExecStreams: all streams, or none and the connection is closed, also
\* when the setup's context ends first.  A terminal has no stderr.
CreateExecStreams(ok, tty) ==
    /\ phase = "creating"
    /\ IF ok
       THEN /\ link = "open"
            /\ phase' = "running" /\ observe' = "status"
            /\ output' = [output EXCEPT !["stderr"] = IF tty THEN "read" ELSE @]
            /\ UNCHANGED <<rctx, link>>
       ELSE /\ phase' = "failed" /\ rctx' = TRUE /\ link' = "closed"
            /\ UNCHANGED <<observe, output>>
    /\ UNCHANGED <<genGone, shut, bridge, status, verdict, exit>>

-----------------------------------------------------------------------------
(* The contexts and Close *)

\* The manager closes the remote, or cancels its lifetime.
ManagerCloses ==
    /\ phase # "failed" /\ ~ rctx
    /\ rctx' = TRUE
    /\ UNCHANGED <<phase, genGone, link, shut, output, bridge, status, observe, verdict, exit>>

GenerationGone ==
    /\ ~ genGone
    /\ genGone' = TRUE
    /\ UNCHANGED <<phase, rctx, link, shut, output, bridge, status, observe, verdict, exit>>

\* generationLifetime: the AfterFunc.
GenerationGoneCancels ==
    /\ genGone /\ ~ rctx
    /\ rctx' = TRUE
    /\ UNCHANGED <<phase, genGone, link, shut, output, bridge, status, observe, verdict, exit>>

\* generationRemoteExec.Wait, after done.
WaitReleasesExec ==
    /\ observe = "done" /\ ~ rctx
    /\ rctx' = TRUE
    /\ UNCHANGED <<phase, genGone, link, shut, output, bridge, status, observe, verdict, exit>>

\* The watcher's Close begins, and the connection is closed at its end.
CloseExec ==
    /\ phase = "running" /\ rctx
    /\ \/ shut = "no" /\ shut' = "closing" /\ UNCHANGED link
       \/ shut = "closing" /\ shut' = "done" /\ link' = "closed"
    /\ UNCHANGED <<phase, genGone, rctx, output, bridge, status, observe, verdict, exit>>

-----------------------------------------------------------------------------
(* The pod's side, the connection and the bridge *)

StatusArrives(word) ==
    /\ phase = "running" /\ link = "open" /\ status = "pending"
    /\ status' = word
    /\ UNCHANGED <<phase, genGone, rctx, link, shut, output, bridge, observe, verdict, exit>>

OutputEnds(s) ==
    /\ phase = "running" /\ link = "open" /\ output[s] = "open"
    /\ output' = [output EXCEPT ![s] = "ended"]
    /\ UNCHANGED <<phase, genGone, rctx, link, shut, bridge, status, observe, verdict, exit>>

LinkLost ==
    /\ link = "open"
    /\ link' = "lost"
    /\ UNCHANGED <<phase, genGone, rctx, shut, output, bridge, status, observe, verdict, exit>>

\* trackedReader.Read: the bridge meets the end of a stream, or of the
\* connection.
ReadToEnd(s) ==
    /\ phase = "running" /\ bridge
    /\ output[s] = "ended" \/ (output[s] = "open" /\ link # "open")
    /\ output' = [output EXCEPT ![s] = "read"]
    /\ UNCHANGED <<phase, genGone, rctx, link, shut, bridge, status, observe, verdict, exit>>

\* The bridge stops reading: its queue is full or its client left.  It ends the
\* session next.
BridgeLeaves ==
    /\ phase = "running" /\ bridge
    /\ bridge' = FALSE
    /\ UNCHANGED <<phase, genGone, rctx, link, shut, output, status, observe, verdict, exit>>

-----------------------------------------------------------------------------
(* observe *)

\* readExecResult; readBoundedStatus refuses nothing and too much.
ReadExecResult(word) ==
    CASE word \in {"success", "exit_code"} -> word
      [] word = "not_found" -> "target_gone"
      [] word = "failure" -> "failure"
      [] OTHER -> "protocol"

\* A read that the end of the connection interrupts is a failure.
ObserveStatus ==
    /\ observe = "status"
    /\ \/ status # "pending" /\ verdict' = ReadExecResult(status)
       \/ status = "pending" /\ link # "open" /\ verdict' = "failure"
    /\ observe' = "stdout"
    /\ UNCHANGED <<phase, genGone, rctx, link, shut, output, bridge, status, exit>>

ObserveStdout ==
    /\ observe = "stdout"
    /\ \/ output["stdout"] = "read" /\ UNCHANGED verdict
       \/ rctx /\ verdict' = "canceled"
    /\ observe' = "stderr"
    /\ UNCHANGED <<phase, genGone, rctx, link, shut, output, bridge, status, exit>>

ObserveNoStderr ==
    /\ observe = "stderr"
    /\ exit' = verdict
    /\ observe' = "done"
    /\ UNCHANGED <<phase, genGone, rctx, link, shut, output, bridge, status, verdict>>

ObserveStderr ==
    /\ observe = "stderr"
    /\ \/ output["stderr"] = "read" /\ exit' = verdict
       \/ rctx /\ exit' = "canceled"
    /\ observe' = "done"
    /\ UNCHANGED <<phase, genGone, rctx, link, shut, output, bridge, status, verdict>>

-----------------------------------------------------------------------------

\* The goroutines run and the setup's context ends; the bridge reads on or ends
\* the session.  Nothing is owed by the pod's side.
RemoteSteps ==
    \/ GenerationGoneCancels \/ WaitReleasesExec \/ CloseExec
    \/ ObserveStatus \/ ObserveStdout \/ ObserveStderr
    \/ \E s \in OutputStreams : ReadToEnd(s)
    \/ CreateExecStreams(FALSE, FALSE)
    \/ (~ bridge /\ ManagerCloses)

RemoteNext ==
    \/ \E ok \in BOOLEAN : NegotiateExec(ok) \/ \E tty \in BOOLEAN : CreateExecStreams(ok, tty)
    \/ ManagerCloses \/ GenerationGone \/ LinkLost \/ BridgeLeaves \/ RemoteSteps
    \/ \E word \in ExecStatuses : StatusArrives(word)
    \/ \E s \in OutputStreams : OutputEnds(s)

-----------------------------------------------------------------------------
(* Properties *)

\* A remote that was told to end, by the manager or its generation, that lost
\* its connection or whose result is known, is answered for by Wait and leaves
\* no connection open, at whatever step of its setup that happens.
RemoteEnds ==
    []<>(phase # "negotiating" /\ (rctx \/ genGone \/ link \in {"lost", "closed"} \/ observe = "done") =>
            link \in {"none", "closed"} /\ (phase = "failed" \/ observe = "done"))

\* An exit code is told only after both output streams were read to their end
\* and the command's side sent that very status; a cancellation only if there
\* was one.
ExitIsWhole ==
    observe = "done" =>
        /\ exit \in {"success", "exit_code"} =>
               exit = status /\ \A s \in OutputStreams : output[s] = "read"
        /\ exit = "canceled" => rctx

\* A remote comes to its end, and what is told of it is the whole truth.
RemoteEndsWhole == RemoteEnds /\ [](RemoteTypeOK /\ ExitIsWhole)
=============================================================================
