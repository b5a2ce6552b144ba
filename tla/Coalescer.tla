------------------------------ MODULE Coalescer ------------------------------
(***************************************************************************)
(* The request coalescer of internal/services/resources/coalescer.go:      *)
(* overlapping reads with the same identity share one Kubernetes call.     *)
(*                                                                         *)
(* Each caller runs Do once.  A call is named by the caller that created   *)
(* it.  An operation's outcome is "value", or the cause of the shared      *)
(* context's cancellation.                                                 *)
(***************************************************************************)
EXTENDS Naturals, FiniteSets

CONSTANTS Callers, Keys, NoCall

ASSUME CoalescerAssumption ==
    /\ IsFiniteSet(Callers)
    /\ NoCall \notin Callers

VARIABLES
    calls,    \* coalescer.calls: the joinable call of each key
    call,     \* the shared calls
    caller,   \* the callers of Do
    closed    \* coalescer.closed

vars == <<calls, call, caller, closed>>

Causes == {"none", "canceled", "closed"}

Call   == [pc : {"none", "running", "finished"}, key : Keys, waiters : Nat, cause : Causes,
           result : {"none", "value", "canceled", "closed"}]

\* left: the caller's own context is done.
Caller == [pc : {"idle", "waiting", "answered"}, on : Callers, left : BOOLEAN,
           answer : {"none", "value", "canceled", "closed", "left"}]

TypeOK ==
    /\ calls \in [Keys -> Callers \cup {NoCall}]
    /\ call \in [Callers -> Call]
    /\ caller \in [Callers -> Caller]
    /\ closed \in BOOLEAN

Init ==
    /\ calls = [k \in Keys |-> NoCall]
    /\ call \in [Callers -> [pc : {"none"}, key : Keys, waiters : {0}, cause : {"none"},
                             result : {"none"}]]
    /\ caller = [c \in Callers |-> [pc |-> "idle", on |-> c, left |-> FALSE, answer |-> "none"]]
    /\ closed = FALSE

Waiting(c) == {w \in Callers : caller[w].pc = "waiting" /\ caller[w].on = c}

-----------------------------------------------------------------------------
DoRejected(w) ==
    /\ caller[w].pc = "idle"
    /\ closed
    /\ caller' = [caller EXCEPT ![w] = [@ EXCEPT !.pc = "answered", !.answer = "closed"]]
    /\ UNCHANGED <<calls, call, closed>>

DoJoins(w, k) ==
    /\ caller[w].pc = "idle"
    /\ ~ closed
    /\ calls[k] # NoCall
    /\ call' = [call EXCEPT ![calls[k]].waiters = @ + 1]
    /\ caller' = [caller EXCEPT ![w] = [@ EXCEPT !.pc = "waiting", !.on = calls[k]]]
    /\ UNCHANGED <<calls, closed>>

\* The shared context drops the creator's cancellation.
DoCreates(w) ==
    LET k == call[w].key IN
    /\ caller[w].pc = "idle"
    /\ ~ closed
    /\ calls[k] = NoCall
    /\ calls' = [calls EXCEPT ![k] = w]
    /\ call' = [call EXCEPT ![w] = [@ EXCEPT !.pc = "running", !.waiters = 1]]
    /\ caller' = [caller EXCEPT ![w] = [@ EXCEPT !.pc = "waiting", !.on = w]]
    /\ UNCHANGED closed

\* Environment: the caller's request ends before its answer.
ContextDone(w) ==
    /\ caller[w].pc = "waiting"
    /\ ~ caller[w].left
    /\ caller' = [caller EXCEPT ![w] = [@ EXCEPT !.left = TRUE]]
    /\ UNCHANGED <<calls, call, closed>>

\* The operation returns: its value, or the cancellation it observed.
Run(c, result) ==
    /\ call[c].pc = "running"
    /\ result = "value" \/ (result = call[c].cause /\ result # "none")
    /\ call' = [call EXCEPT ![c] = [@ EXCEPT !.pc = "finished", !.result = result]]
    /\ calls' = IF calls[call[c].key] = c THEN [calls EXCEPT ![call[c].key] = NoCall]
                ELSE calls
    /\ UNCHANGED <<caller, closed>>

\* leave(call, false) after <-call.done
Receive(w) ==
    LET c == caller[w].on IN
    /\ caller[w].pc = "waiting"
    /\ call[c].pc = "finished"
    /\ call' = [call EXCEPT ![c].waiters = IF @ > 0 THEN @ - 1 ELSE 0]
    /\ caller' = [caller EXCEPT ![w] = [@ EXCEPT !.pc = "answered",
                                                 !.answer = call[c].result]]
    /\ UNCHANGED <<calls, closed>>

\* leave cancels the shared work with its last waiter, unless it finished.
LastLeaves(c) == call[c].waiters <= 1 /\ call[c].pc # "finished"

LeaveKeepsRunning(w) ==
    LET c == caller[w].on
        k == call[c].key
    IN
    /\ caller[w].pc = "waiting"
    /\ caller[w].left
    /\ call' = [call EXCEPT ![c].waiters = IF @ > 0 THEN @ - 1 ELSE 0]
    /\ calls' = IF LastLeaves(c) /\ calls[k] = c THEN [calls EXCEPT ![k] = NoCall] ELSE calls
    /\ caller' = [caller EXCEPT ![w] = [@ EXCEPT !.pc = "answered", !.answer = "left"]]
    /\ UNCHANGED closed

\* Once a cause is set, a later cancellation does not replace it.
Leave(w) ==
    LET c == caller[w].on
        k == call[c].key
    IN
    /\ caller[w].pc = "waiting"
    /\ caller[w].left
    /\ call' = [call EXCEPT
                   ![c].waiters = IF @ > 0 THEN @ - 1 ELSE 0,
                   ![c].cause = IF LastLeaves(c) /\ @ = "none" THEN "canceled" ELSE @]
    /\ calls' = IF LastLeaves(c) /\ calls[k] = c THEN [calls EXCEPT ![k] = NoCall] ELSE calls
    /\ caller' = [caller EXCEPT ![w] = [@ EXCEPT !.pc = "answered", !.answer = "left"]]
    /\ UNCHANGED closed

Close ==
    /\ ~ closed
    /\ closed' = TRUE
    /\ call' = [c \in Callers |->
                   IF \E k \in Keys : calls[k] = c
                   THEN [call[c] EXCEPT !.cause = IF @ = "none" THEN "closed" ELSE @]
                   ELSE call[c]]
    /\ UNCHANGED <<calls, caller>>

Work(c) == \E result \in {"value", "canceled", "closed"} : Run(c, result)

Next ==
    \/ \E w \in Callers : \/ DoRejected(w) \/ DoCreates(w) \/ ContextDone(w)
                          \/ Work(w) \/ Receive(w) \/ Leave(w)
    \/ \E w \in Callers, k \in Keys : DoJoins(w, k)
    \/ Close

\* The operation returns (it is a Kubernetes request with a deadline and the
\* shared context), and a caller whose channel is ready takes a branch.
Fairness == \A w \in Callers : WF_vars(Work(w)) /\ WF_vars(Receive(w)) /\ WF_vars(Leave(w))

Spec == Init /\ [][Next]_vars /\ Fairness

-----------------------------------------------------------------------------
(* Properties *)

\* The count of waiters, on which cancellation depends, is the number of
\* callers that still wait.
WaitersCounted == \A c \in Callers : call[c].waiters = Cardinality(Waiting(c))

\* A caller that stays is never answered with the cancellation another caller
\* caused: shared work is cancelled only after its last waiter left.
SurvivorUnharmed ==
    \A w \in Callers : caller[w].pc = "answered" =>
        /\ caller[w].answer # "canceled"
        /\ caller[w].answer = "closed" => closed

\* Shared work is never left running for nobody: without waiters it is
\* cancelled, and after Close every call that can still be running is.
NoOrphanWork ==
    \A c \in Callers : call[c].pc = "running" =>
        /\ call[c].waiters = 0 => call[c].cause # "none"
        /\ closed => call[c].cause # "none"

\* Overlapping requests for a key share one call: at most one uncancelled
\* operation per key is running.
OneLiveCall ==
    \A c, d \in Callers :
        (/\ call[c].pc = "running" /\ call[d].pc = "running" /\ call[c].key = call[d].key
         /\ call[c].cause = "none" /\ call[d].cause = "none") => c = d

\* Sharing is fair: waiters are counted, a caller that stays is not harmed by
\* those that leave, and work runs once per key and never for nobody.
CallsShared == WaitersCounted /\ SurvivorUnharmed /\ NoOrphanWork /\ OneLiveCall

=============================================================================
