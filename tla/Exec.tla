---------------------------------- MODULE Exec ----------------------------------
(***************************************************************************)
(* Interactive exec sessions: ExecManager of internal/services/actions/     *)
(* exec.go and exec_abort.go, and the WebSocket bridge of                   *)
(* internal/api/handlers/actions_exec.go.                                   *)
(*                                                                          *)
(* A ticket is created, spent by an upgrade, and becomes a reservation, a    *)
(* running remote command with its monitor, and one terminal word.  The      *)
(* client, the timers, the remote command, a change of generation and the    *)
(* shutdown all want that word.  A step is what runs under m.mu, or what     *)
(* lies between two such sections.                                          *)
(***************************************************************************)
EXTENDS Integers, Sequences, FiniteSets

CONSTANTS
    Ids,          \* session ids
    Upgrades,     \* requests for /exec/{id}/stream; each has a lease of its own
    None,
    RemoteWords,  \* terminalForRemoteExit: how a remote command ends
    AbortWords,   \* Abort: the failures of the bridge
    TimerWords,   \* the idle and the duration timer
    MaximumExecSessions,
    MaximumPendingTickets,
    OutboundMessages,   \* frames an outbound queue holds
    MaxGeneration,      \* bound: generations
    MaxExecUpsets           \* bound: changes of generation, refusals, failures,
                        \* disconnects, timeouts and frames of output

\* What terminalForRemoteExit answers, the reasons Abort knows, and the timers of
\* monitor; requestTerminal is called with none of the first.
ExitWords   == {"completed", "signal", "remote_error", "target_gone", "forbidden", "authorization",
                 "authentication", "cluster", "upstream"}
AbortReasons == {"violation", "exceeded", "too_large", "internal"}
TimerEnds    == {"idle", "limit"}

ASSUME ExecAssumption ==
    /\ RemoteWords \subseteq ExitWords /\ AbortWords \subseteq AbortReasons /\ TimerWords \subseteq TimerEnds
    /\ None \notin Upgrades \cup ExitWords \cup AbortReasons \cup TimerEnds
                     \cup {"canceled", "generation", "shutdown"}

VARIABLES
    generation, \* what CurrentGeneration answers
    hooked,     \* the generation OnGeneration was last called with
    shutdown,   \* m.shutdown
    ticket,     \* m.tickets, and the requests that create them
    sessions,   \* m.sessions: the upgrade that holds a session id
    up,         \* the upgrades and the execSessionState each made
    toEnd,      \* words OnGeneration or Shutdown still has to request
    upsets

sessionVars == <<generation, hooked, shutdown, ticket, sessions, up, toEnd, upsets>>

\* ExecTerminal: a code and the close code sent with it.
Terminal(code) ==
    [code |-> code,
     close |-> CASE code \in {"completed", "signal", "remote_error", "canceled"} -> 1000
                 [] code \in {"idle", "limit", "generation", "shutdown"} -> 1001
                 [] code \in {"forbidden", "authorization", "target_gone", "violation", "exceeded"} -> 1008
                 [] code = "too_large" -> 1009
                 [] OTHER -> 1011]

\* terminalForActionError: a start that failed is told the same way.
StartFailureClose(code) ==
    CASE code \in {"generation", "idle", "limit", "shutdown"} -> 1001
      [] code \in {"forbidden", "authorization", "target_gone", "violation", "exceeded"} -> 1008
      [] OTHER -> 1011

NewUpgrade ==
    [pc |-> "idle", id |-> None, gen |-> 0, timer |-> FALSE, active |-> FALSE,
     canceled |-> FALSE, requested |-> None, remote |-> "none", word |-> None, finished |-> FALSE, closes |-> 0,
     queue |-> <<>>, ended |-> FALSE, writable |-> TRUE, told |-> None]

\* A ticket that is spent, refused or dropped.
Gone == [state |-> "gone", gen |-> 0]

\* A request that ended before its session was active; its reservation timer
\* may still fire.
Refused(u) == [NewUpgrade EXCEPT !.pc = "done", !.id = up[u].id, !.timer = up[u].timer,
                                    !.closes = up[u].closes]

SessionsInit ==
    /\ generation = 1 /\ hooked = 1 /\ shutdown = FALSE
    /\ ticket = [i \in Ids |-> [state |-> "none", gen |-> 0]]
    /\ sessions = [i \in Ids |-> None]
    /\ up = [u \in Upgrades |-> NewUpgrade]
    /\ toEnd = {}
    /\ upsets = 0

Upset == upsets < MaxExecUpsets /\ upsets' = upsets + 1

Held == {i \in Ids : sessions[i] # None}

Without(u) == [i \in Ids |-> IF sessions[i] = u THEN None ELSE sessions[i]]

Issued == {i \in Ids : ticket[i].state \in {"issued", "lapsed"}}

\* pruneTicketsLocked: tickets past their time are dropped by the next request.
TicketsPruned == [i \in Ids |-> IF ticket[i].state = "lapsed" THEN Gone
                         ELSE ticket[i]]

-----------------------------------------------------------------------------
(* Tickets *)

\* CreateTicket up to its lock: the target is inspected and the review says yes.
AskTicket(i) ==
    /\ ticket[i].state = "none"
    /\ ticket' = [ticket EXCEPT ![i] = [state |-> "asked", gen |-> generation]]
    /\ UNCHANGED <<generation, hooked, shutdown, sessions, up, toEnd, upsets>>

\* CreateTicket from its lock on.
IssueTicket(i) ==
    LET ok == /\ ~ shutdown /\ generation = ticket[i].gen
              /\ Cardinality({j \in Issued : ticket[j].state = "issued"}) < MaximumPendingTickets
    IN
    /\ ticket[i].state = "asked"
    /\ ticket' = [TicketsPruned EXCEPT ![i] = IF ok THEN [@ EXCEPT !.state = "issued"] ELSE Gone]
    /\ UNCHANGED <<generation, hooked, shutdown, sessions, up, toEnd, upsets>>

Lapse(i) ==
    /\ ticket[i].state = "issued"
    /\ Upset
    /\ ticket' = [ticket EXCEPT ![i].state = "lapsed"]
    /\ UNCHANGED <<generation, hooked, shutdown, sessions, up, toEnd>>

-----------------------------------------------------------------------------
(* The upgrade *)

\* AuthorizeUpgrade spends the ticket first, under the binding it was called
\* with; a ticket that is gone or lapsed is refused.
Spend(u, i) ==
    /\ up[u].pc = "idle" /\ ticket[i].state \in {"issued", "lapsed"}
    /\ ticket' = [TicketsPruned EXCEPT ![i] = Gone]
    /\ up' = [up EXCEPT ![u] = IF ticket[i].state = "issued" /\ ticket[i].gen = generation
                               THEN [@ EXCEPT !.pc = "spent", !.id = i, !.gen = generation]
                               ELSE [@ EXCEPT !.pc = "done", !.id = i]]
    /\ UNCHANGED <<generation, hooked, shutdown, sessions, toEnd, upsets>>

\* AuthorizeUpgrade after its inspection and review: the reservation.
Reserve(u) ==
    LET i == up[u].id
        ok == /\ ~ shutdown /\ generation = up[u].gen
              /\ Cardinality(Held) < MaximumExecSessions /\ sessions[i] = None
    IN
    /\ up[u].pc = "spent"
    /\ \/ /\ up' = [up EXCEPT ![u] = IF ok THEN [@ EXCEPT !.pc = "granted", !.timer = TRUE]
                                     ELSE Refused(u)]
          /\ sessions' = IF ok THEN [sessions EXCEPT ![i] = u] ELSE sessions
          /\ UNCHANGED upsets
       \/ /\ Upset     \* the container is not running, or the review says no
          /\ up' = [up EXCEPT ![u] = Refused(u)]
          /\ UNCHANGED sessions
    /\ UNCHANGED <<generation, hooked, shutdown, ticket, toEnd>>

\* The handshake fails: ReleaseUpgrade.
ReleaseUpgrade(u) ==
    /\ up[u].pc = "granted"
    /\ Upset
    /\ up' = [up EXCEPT ![u] = [Refused(u) EXCEPT !.timer = FALSE,
                        !.closes = IF sessions[up[u].id] = u THEN @ + 1 ELSE @]]
    /\ sessions' = Without(u)
    /\ UNCHANGED <<generation, hooked, shutdown, ticket, toEnd>>

\* expireReservation, when nobody started the session in time; the timer may
\* have fired before Start stops it.
ExpireReservation(u) ==
    /\ up[u].timer
    /\ IF sessions[up[u].id] = u /\ ~ up[u].active
       THEN /\ sessions' = Without(u)
            /\ up' = [up EXCEPT ![u].timer = FALSE, ![u].closes = @ + 1]
       ELSE up' = [up EXCEPT ![u].timer = FALSE] /\ UNCHANGED sessions
    /\ UNCHANGED <<generation, hooked, shutdown, ticket, toEnd, upsets>>

\* Start under its first lock.
StartBegin(u) ==
    LET mine == sessions[up[u].id] = u IN
    /\ up[u].pc = "granted"
    /\ IF mine /\ generation = up[u].gen
       THEN /\ \E stopped \in BOOLEAN :
                  up' = [up EXCEPT ![u].pc = "starting", ![u].timer = @ /\ ~ stopped]
            /\ UNCHANGED sessions
       ELSE /\ up' = [up EXCEPT ![u] = [Refused(u) EXCEPT !.timer = FALSE]]
            /\ sessions' = Without(u)
    /\ UNCHANGED <<generation, hooked, shutdown, ticket, toEnd, upsets>>

\* adapter.Start answers, within the setup limit.
RemoteStarts(u) ==
    /\ up[u].pc = "starting" /\ ~ up[u].canceled
    /\ up' = [up EXCEPT ![u].pc = "started", ![u].remote = "open"]
    /\ UNCHANGED <<generation, hooked, shutdown, ticket, sessions, toEnd, upsets>>

\* It fails, is cancelled or takes too long: removeReservation.
RemoteFails(u) ==
    /\ up[u].pc = "starting"
    /\ IF up[u].canceled THEN UNCHANGED upsets ELSE Upset
    /\ up' = [up EXCEPT ![u] = Refused(u)]
    /\ sessions' = Without(u)
    /\ UNCHANGED <<generation, hooked, shutdown, ticket, toEnd>>

\* requireCurrent between the answer and the second lock.
StartCheck(u) ==
    /\ up[u].pc = "started"
    /\ IF generation = up[u].gen
       THEN up' = [up EXCEPT ![u].pc = "checked"] /\ UNCHANGED sessions
       ELSE /\ up' = [up EXCEPT ![u] = [Refused(u) EXCEPT !.remote = "closed"]]
            /\ sessions' = Without(u)
    /\ UNCHANGED <<generation, hooked, shutdown, ticket, toEnd, upsets>>

\* The session was removed while its command started, and is installed anyway.
StartInstallBlind(u) ==
    /\ up[u].pc = "checked"
    /\ up' = [up EXCEPT ![u].pc = "serving", ![u].active = TRUE]
    /\ UNCHANGED <<generation, hooked, shutdown, ticket, sessions, toEnd, upsets>>

\* Start under its second lock: the session must still be the one reserved.
StartInstall(u) ==
    /\ up[u].pc = "checked"
    /\ up' = IF sessions[up[u].id] = u /\ ~ shutdown
             THEN [up EXCEPT ![u].pc = "serving", ![u].active = TRUE]
             ELSE [up EXCEPT ![u] = [Refused(u) EXCEPT !.remote = "closed"]]
    /\ UNCHANGED <<generation, hooked, shutdown, ticket, sessions, toEnd, upsets>>

-----------------------------------------------------------------------------
(* The last word *)

\* requestTerminal: the first word asked for is kept; the remote is closed.
Requested(u, word) ==
    IF sessions[up[u].id] = u /\ up[u].requested = None
    THEN [up[u] EXCEPT !.requested = word, !.canceled = TRUE,
                       !.remote = IF @ = "open" THEN "closed" ELSE @]
    ELSE up[u]

\* The idle timer and the duration timer of monitor.
MonitorTimer(u, word) ==
    /\ up[u].active /\ up[u].word = None /\ up[u].requested = None
    /\ Upset
    /\ up' = [up EXCEPT ![u] = Requested(u, word)]
    /\ UNCHANGED <<generation, hooked, shutdown, ticket, sessions, toEnd>>

\* The remote command ends by itself.
RemoteExits(u, word) ==
    /\ up[u].active /\ up[u].remote = "open"
    /\ up' = [up EXCEPT ![u].remote = word]
    /\ UNCHANGED <<generation, hooked, shutdown, ticket, sessions, toEnd, upsets>>

\* monitor leaves its loop: Wait has returned or the lifetime is over, and the
\* requested word, if there is one, is read.
MonitorEnds(u) ==
    /\ up[u].active /\ up[u].word = None
    /\ up[u].remote # "open" \/ up[u].canceled
    /\ up' = [up EXCEPT ![u].word =
          IF up[u].requested # None THEN up[u].requested
          ELSE IF up[u].remote \in RemoteWords THEN up[u].remote ELSE "internal"]
    /\ UNCHANGED <<generation, hooked, shutdown, ticket, sessions, toEnd, upsets>>

\* The word is told and the session kept in m.sessions.
FinishSessionQuietly(u) ==
    /\ up[u].word # None /\ ~ up[u].finished
    /\ up' = [up EXCEPT ![u].finished = TRUE, ![u].closes = @ + 1, ![u].canceled = TRUE,
                        ![u].remote = IF @ = "open" THEN "closed" ELSE @]
    /\ UNCHANGED <<generation, hooked, shutdown, ticket, sessions, toEnd, upsets>>

\* finish: the slot is free, the remote closed and the word told.
FinishSession(u) ==
    /\ up[u].word # None /\ ~ up[u].finished
    /\ sessions' = Without(u)
    /\ up' = [up EXCEPT ![u].finished = TRUE, ![u].closes = @ + 1, ![u].canceled = TRUE,
                        ![u].remote = IF @ = "open" THEN "closed" ELSE @]
    /\ UNCHANGED <<generation, hooked, shutdown, ticket, toEnd, upsets>>

\* The generation is rotated; its hook follows.
Rotate ==
    /\ generation < MaxGeneration /\ hooked = generation
    /\ Upset
    /\ generation' = generation + 1
    /\ UNCHANGED <<hooked, shutdown, ticket, sessions, up, toEnd>>

\* The sessions one sweep of OnGeneration or Shutdown finds: reservations end
\* at once, active sessions are asked to.
Swept(old) ==
    LET waiting == {u \in old : ~ up[u].active} IN
    /\ sessions' = [i \in Ids |-> IF sessions[i] \in waiting THEN None ELSE sessions[i]]
    /\ up' = [u \in Upgrades |->
                IF u \in waiting THEN [up[u] EXCEPT !.canceled = TRUE, !.timer = FALSE,
                                                    !.closes = @ + 1]
                ELSE up[u]]

OnGeneration ==
    LET old == {u \in Upgrades : u \in {sessions[i] : i \in Ids} /\ up[u].gen # generation} IN
    /\ hooked # generation
    /\ hooked' = generation
    /\ ticket' = [i \in Ids |-> IF i \in Issued /\ ticket[i].gen # generation
                                THEN Gone ELSE ticket[i]]
    /\ Swept(old)
    /\ toEnd' = toEnd \cup {<<u, "generation">> : u \in {w \in old : up[w].active}}
    /\ UNCHANGED <<generation, shutdown, upsets>>

Shutdown ==
    LET old == {u \in Upgrades : u \in {sessions[i] : i \in Ids}} IN
    /\ ~ shutdown
    /\ Upset
    /\ shutdown' = TRUE
    /\ ticket' = [i \in Ids |-> IF i \in Issued THEN Gone
                                ELSE ticket[i]]
    /\ Swept(old)
    /\ toEnd' = toEnd \cup {<<u, "shutdown">> : u \in {w \in old : up[w].active}}
    /\ UNCHANGED <<generation, hooked>>

\* The sweep's requests, after its lock.
EndSwept ==
    \E x \in toEnd :
        /\ toEnd' = toEnd \ {x}
        /\ up' = [up EXCEPT ![x[1]] = Requested(x[1], x[2])]
        /\ UNCHANGED <<generation, hooked, shutdown, ticket, sessions, upsets>>

-----------------------------------------------------------------------------
(* The bridge *)

\* The queue takes frames up to its limit, and none after the terminal one.
Room(u) == ~ up[u].ended /\ Len(up[u].queue) < OutboundMessages

\* outputLoop: a frame is queued, or the full queue is a failure.
Output(u) ==
    /\ up[u].pc = "serving" /\ up[u].remote = "open" /\ ~ up[u].ended
    /\ Upset
    /\ up' = [up EXCEPT ![u] =
          IF Room(u) THEN [up[u] EXCEPT !.queue = Append(@, "data")]
          ELSE [Requested(u, "exceeded") EXCEPT !.pc = "waiting"]]
    /\ UNCHANGED <<generation, hooked, shutdown, ticket, sessions, toEnd>>

\* writeLoop.
WriteFrame(u) ==
    /\ up[u].queue # <<>>
    /\ up' = [up EXCEPT ![u].queue = Tail(@),
                        ![u].told = IF Head(up[u].queue) = "data" THEN @ ELSE Head(up[u].queue)]
    /\ UNCHANGED <<generation, hooked, shutdown, ticket, sessions, toEnd, upsets>>

\* readLoop ends because the client broke the protocol or sent too much, or
\* because the remote did not take its input: Abort.
Abort(u, word) ==
    /\ up[u].pc = "serving"
    /\ Upset
    /\ up' = [up EXCEPT ![u] = [Requested(u, word) EXCEPT !.pc = "waiting"]]
    /\ UNCHANGED <<generation, hooked, shutdown, ticket, sessions, toEnd>>

\* The client closes the session (still writable) or is gone (not): Cancel.
CancelBridge(u, writable) ==
    /\ up[u].pc = "serving"
    /\ Upset
    /\ up' = [up EXCEPT ![u] = [Requested(u, "canceled") EXCEPT
                 !.pc = "waiting", !.writable = writable,
                 !.queue = IF writable THEN @ ELSE <<>>]]
    /\ UNCHANGED <<generation, hooked, shutdown, ticket, sessions, toEnd>>

\* heartbeatLoop: the nonce that was sent does not come back in time.
HeartbeatLost(u) == Abort(u, "violation")

\* pingLoop: the connection does not answer.
PingLost(u) == CancelBridge(u, FALSE)

\* The word arrives, and is the last frame; without one in time the client is
\* told of an internal failure.
TellTerminal(u) ==
    /\ up[u].pc \in {"serving", "waiting"}
    /\ \/ up[u].finished /\ UNCHANGED upsets
       \/ up[u].pc = "waiting" /\ ~ up[u].finished /\ Upset
    /\ up[u].writable => Room(u)
    /\ up' = [up EXCEPT ![u].pc = "done", ![u].ended = TRUE,
          ![u].queue = IF up[u].writable
                       THEN Append(@, IF up[u].finished THEN up[u].word ELSE "internal")
                       ELSE @]
    /\ UNCHANGED <<generation, hooked, shutdown, ticket, sessions, toEnd>>

-----------------------------------------------------------------------------
Monitored(u) == MonitorEnds(u) \/ FinishSession(u)

Handled(u) == \/ Reserve(u) \/ StartBegin(u) \/ RemoteStarts(u) \/ RemoteFails(u) \/ StartCheck(u)
              \/ StartInstall(u) \/ WriteFrame(u) \/ TellTerminal(u)

SessionsNext ==
    \/ \E i \in Ids : AskTicket(i) \/ IssueTicket(i) \/ Lapse(i)
    \/ \E u \in Upgrades :
        \/ Handled(u) \/ Monitored(u) \/ ReleaseUpgrade(u) \/ ExpireReservation(u) \/ Output(u)
        \/ HeartbeatLost(u) \/ PingLost(u)
        \/ \E i \in Ids : Spend(u, i)
        \/ \E w \in TimerWords : MonitorTimer(u, w)
        \/ \E w \in RemoteWords : RemoteExits(u, w)
        \/ \E w \in AbortWords : Abort(u, w)
        \/ \E b \in BOOLEAN : CancelBridge(u, b)
    \/ Rotate \/ OnGeneration \/ Shutdown \/ EndSwept

\* Goroutines run, calls answer within their limits and the sweeps complete;
\* nothing is owed by the client or the remote command.
Progress == \/ \E u \in Upgrades : Handled(u) \/ Monitored(u) \/ ExpireReservation(u)
            \/ OnGeneration \/ EndSwept

-----------------------------------------------------------------------------
(* Properties *)

\* A ticket is good for one command, whatever upgrades race for it.
OneCommandPerTicket ==
    \A u, w \in Upgrades :
        u # w /\ up[u].remote # "none" /\ up[w].remote # "none" => up[u].id # up[w].id

\* No remote command is left behind: one that is open belongs to a registered
\* session, which counts against the limit and which OnGeneration and Shutdown
\* find, or to a Start that is about to close it; and once the hook of the
\* current generation, or the shutdown, has had its say, it runs under that
\* generation.
NoOrphanCommand ==
    \A u \in Upgrades :
        up[u].remote = "open" =>
            /\ sessions[up[u].id] # u => ~ up[u].active /\ up[u].pc \in {"started", "checked"}
            /\ up[u].active =>
                /\ up[u].gen >= hooked \/ <<u, "generation">> \in toEnd
                /\ shutdown => \E word \in {"generation", "shutdown"} : <<u, word>> \in toEnd

\* One word: the terminal channel is closed once at most, and the client is
\* told what the session ended with; a word that was asked for is never
\* replaced by another one that was asked for later, and a session is told to
\* have completed only if its command did; every error is closed with the code
\* a failed start would be closed with.
OneWord ==
    \A u \in Upgrades :
        LET said == up[u].told IN
        /\ up[u].closes <= 1
        /\ said # None =>
            /\ said = up[u].word \/ said = "internal"
            /\ said \in RemoteWords => up[u].remote = said
            /\ said \notin {"completed", "signal", "remote_error", "canceled", "too_large"} =>
                  Terminal(said).close = StartFailureClose(said)
        /\ up[u].word # None /\ up[u].word # up[u].requested =>
                  up[u].word = "internal" \/ up[u].word = up[u].remote

\* Every command is accounted for: one per ticket, none outside the registry and
\* the fences, and its session ends with one word.
CommandsAccounted == OneCommandPerTicket /\ NoOrphanCommand /\ OneWord

\* Slots come back: a session that is reserved is started or released, and one
\* whose end was requested, or whose command has ended, leaves.
SlotsReturn ==
    []<>(\A u \in Upgrades : u \in {sessions[i] : i \in Ids} =>
            /\ up[u].pc # "granted" \/ up[u].active
            /\ up[u].active => up[u].requested = None /\ up[u].remote = "open")
=============================================================================
