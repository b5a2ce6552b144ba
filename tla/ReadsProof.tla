------------------------------ MODULE ReadsProof ------------------------------
(***************************************************************************)
(* Reads of a collection, for any number of callers, versions and            *)
(* generations: what is served is as fresh as its reader was told and was    *)
(* permitted (ServedSound), no operation waits for a slot that nobody will    *)
(* return (WaitersHaveSignal), and calls are shared as the coalescer promises *)
(* (CallsShared).  And of the clients that carry them, for any number of      *)
(* selections, scope changes and requests: they are those of the binding they *)
(* serve (ClientsCurrent), and the status moves forward (StatusMovesForward).  *)
(***************************************************************************)
EXTENDS Reads, Runtime, FiniteSetTheorems, TLAPS

-----------------------------------------------------------------------------
(* The coalescer, for any finite set of callers and any keys *)


\* The call of a key in the map is running and can be joined; a running call
\* that nobody cancelled is in the map and has a waiter.
MapInv ==
    /\ \A k \in Keys : calls[k] # NoCall =>
        /\ call[calls[k]].pc = "running" /\ call[calls[k]].key = k
        /\ call[calls[k]].cause # "canceled"
    /\ \A c \in Callers : (call[c].pc = "running" /\ call[c].cause = "none") =>
        calls[call[c].key] = c /\ call[c].waiters > 0

\* A cancelled call has no waiter left, and can get none.
CauseInv ==
    \A c \in Callers :
        /\ call[c].cause = "canceled" => Waiting(c) = {}
        /\ call[c].cause = "closed" => closed
        /\ call[c].pc = "running" /\ closed => call[c].cause # "none"
        /\ call[c].result = "canceled" => call[c].cause = "canceled"
        /\ call[c].result = "closed" => call[c].cause = "closed"

\* An idle caller has created nothing and a call that was not created has no
\* waiter.
IdleInv ==
    \A c \in Callers :
        /\ caller[c].pc = "idle" => call[c].pc = "none"
        /\ call[c].pc = "none" => Waiting(c) = {} /\ call[c].cause = "none"

\* With TypeOK, the inductive invariant.
CoalescerInv == MapInv /\ CauseInv /\ IdleInv /\ WaitersCounted /\ SurvivorUnharmed

-----------------------------------------------------------------------------
(* Type correctness *)

\* The fields of a call.
LEMMA CallFields ==
    ASSUME NEW o \in Call
    PROVE  /\ o.waiters \in Nat /\ o.cause \in Causes /\ o.key \in Keys
           /\ o.result \in {"none", "value", "canceled", "closed"}
  BY DEF Call

\* The updates the actions make to a call.
LEMMA CallCounted == ASSUME NEW o \in Call, NEW n \in Nat
                     PROVE  [o EXCEPT !.waiters = n] \in Call
  BY DEF Call
LEMMA CallStarted == ASSUME NEW o \in Call
                     PROVE  [o EXCEPT !.pc = "running", !.waiters = 1] \in Call
  BY DEF Call
LEMMA CallEnded == ASSUME NEW o \in Call, NEW r \in {"value", "canceled", "closed"}
                   PROVE  [o EXCEPT !.pc = "finished", !.result = r] \in Call
  BY DEF Call
LEMMA CallLeft == ASSUME NEW o \in Call, NEW n \in Nat, NEW x \in Causes
                  PROVE  [o EXCEPT !.waiters = n, !.cause = x] \in Call
  BY DEF Call
LEMMA CallCaused == ASSUME NEW o \in Call, NEW x \in Causes
                    PROVE  [o EXCEPT !.cause = x] \in Call
  BY DEF Call

\* The updates the actions make to a caller.
LEMMA CallerOn == ASSUME NEW o \in Caller PROVE o.on \in Callers
  BY DEF Caller
LEMMA CallerAnswered ==
    ASSUME NEW o \in Caller, NEW a \in {"none", "value", "canceled", "closed", "left"}
    PROVE  [o EXCEPT !.pc = "answered", !.answer = a] \in Caller
  BY DEF Caller
LEMMA CallerWaits == ASSUME NEW o \in Caller, NEW c \in Callers
                     PROVE  [o EXCEPT !.pc = "waiting", !.on = c] \in Caller
  BY DEF Caller
LEMMA CallerLeft == ASSUME NEW o \in Caller PROVE [o EXCEPT !.left = TRUE] \in Caller
  BY DEF Caller

\* A function stays typed when one of its values is replaced by a typed one.
LEMMA Replaced == ASSUME NEW S, NEW T, NEW f \in [S -> T], NEW s \in S, NEW v \in T
                  PROVE  [f EXCEPT ![s] = v] \in [S -> T]
  OBVIOUS

\* Every step keeps the types.
LEMMA TypesStep == TypeOK /\ [Next]_vars => TypeOK'
  <1> SUFFICES ASSUME TypeOK, [Next]_vars PROVE TypeOK'
    OBVIOUS
  <1>0. /\ \A c \in Callers : call[c] \in Call /\ caller[c] \in Caller
        /\ \A k \in Keys : calls[k] # NoCall => calls[k] \in Callers
    BY DEF TypeOK
  <1>00. calls \in [Keys -> Callers \cup {NoCall}] /\ call \in [Callers -> Call]
         /\ caller \in [Callers -> Caller] /\ closed \in BOOLEAN
    BY DEF TypeOK
  <1>1. ASSUME NEW w \in Callers, DoRejected(w) PROVE TypeOK'
    <2>1. caller' = [caller EXCEPT ![w] =
                        [caller[w] EXCEPT !.pc = "answered", !.answer = "closed"]]
      BY <1>1, ZenonT(60) DEF DoRejected
    <2>2. [caller[w] EXCEPT !.pc = "answered", !.answer = "closed"] \in Caller
      BY <1>0, CallerAnswered
    <2>3. caller' \in [Callers -> Caller]
      BY <1>00, <2>1, <2>2, Replaced
    <2> QED BY <1>1, <1>00, <2>3 DEF DoRejected, TypeOK
  <1>2. ASSUME NEW w \in Callers, NEW k \in Keys, DoJoins(w, k) PROVE TypeOK'
    <2> DEFINE c == calls[k]
               n == call[c].waiters + 1
    <2>1. c \in Callers /\ call[c] \in Call
      BY <1>0, <1>2 DEF DoJoins
    <2>2. n \in Nat
      BY <2>1, CallFields
    <2>3. /\ call' = [call EXCEPT ![c] = [call[c] EXCEPT !.waiters = n]]
          /\ caller' = [caller EXCEPT ![w] = [caller[w] EXCEPT !.pc = "waiting", !.on = c]]
      BY <1>2 DEF DoJoins
    <2> HIDE DEF c, n
    <2>4. /\ [call[c] EXCEPT !.waiters = n] \in Call
          /\ [caller[w] EXCEPT !.pc = "waiting", !.on = c] \in Caller
      BY <1>0, <2>1, <2>2, CallCounted, CallerWaits
    <2>5. call' \in [Callers -> Call]
      BY <1>00, <2>1, <2>3, <2>4, Replaced
    <2>6. caller' \in [Callers -> Caller]
      BY <1>00, <2>3, <2>4, Replaced
    <2> QED BY <1>2, <1>00, <2>5, <2>6 DEF DoJoins, TypeOK
  <1>3. ASSUME NEW w \in Callers, DoCreates(w) PROVE TypeOK'
    <2>1. /\ call' = [call EXCEPT ![w] = [call[w] EXCEPT !.pc = "running", !.waiters = 1]]
          /\ caller' = [caller EXCEPT ![w] = [caller[w] EXCEPT !.pc = "waiting", !.on = w]]
      BY <1>3 DEF DoCreates
    <2>2. /\ [call[w] EXCEPT !.pc = "running", !.waiters = 1] \in Call
          /\ [caller[w] EXCEPT !.pc = "waiting", !.on = w] \in Caller
      BY <1>0, CallStarted, CallerWaits
    <2>3. call' \in [Callers -> Call]
      BY <1>00, <2>1, <2>2, Replaced
    <2>4. caller' \in [Callers -> Caller]
      BY <1>00, <2>1, <2>2, Replaced
    <2>5. calls' \in [Keys -> Callers \cup {NoCall}]
      BY <1>00, <1>3 DEF DoCreates
    <2> QED BY <1>3, <1>00, <2>3, <2>4, <2>5 DEF DoCreates, TypeOK
  <1>4. ASSUME NEW w \in Callers, ContextDone(w) PROVE TypeOK'
    <2>1. caller' = [caller EXCEPT ![w] = [caller[w] EXCEPT !.left = TRUE]]
      BY <1>4 DEF ContextDone
    <2>2. [caller[w] EXCEPT !.left = TRUE] \in Caller
      BY <1>0, CallerLeft
    <2>3. caller' \in [Callers -> Caller]
      BY <1>00, <2>1, <2>2, Replaced
    <2> QED BY <1>4, <1>00, <2>3 DEF ContextDone, TypeOK
  <1>5. ASSUME NEW w \in Callers, NEW r \in {"value", "canceled", "closed"}, Run(w, r)
        PROVE  TypeOK'
    <2>1. call' = [call EXCEPT ![w] = [call[w] EXCEPT !.pc = "finished", !.result = r]]
      BY <1>5, SMTT(30) DEF Run
    <2>2. [call[w] EXCEPT !.pc = "finished", !.result = r] \in Call
      BY <1>0, CallEnded
    <2>3. call' \in [Callers -> Call]
      BY <1>00, <2>1, <2>2, Replaced
    <2>4. calls' \in [Keys -> Callers \cup {NoCall}]
      BY <1>00, <1>5 DEF Run
    <2> QED BY <1>5, <1>00, <2>3, <2>4 DEF Run, TypeOK
  <1>6. ASSUME NEW w \in Callers, Receive(w) PROVE TypeOK'
    <2> DEFINE c == caller[w].on
               n == IF call[c].waiters > 0 THEN call[c].waiters - 1 ELSE 0
               a == call[c].result
    <2>1. c \in Callers /\ call[c] \in Call
      BY <1>0, CallerOn
    <2>2. n \in Nat /\ a \in {"none", "value", "canceled", "closed", "left"}
      BY <2>1, CallFields
    <2>3. /\ call' = [call EXCEPT ![c] = [call[c] EXCEPT !.waiters = n]]
          /\ caller' = [caller EXCEPT ![w] = [caller[w] EXCEPT !.pc = "answered", !.answer = a]]
      BY <1>6, SMTT(30) DEF Receive
    <2> HIDE DEF c, n, a
    <2>4. /\ [call[c] EXCEPT !.waiters = n] \in Call
          /\ [caller[w] EXCEPT !.pc = "answered", !.answer = a] \in Caller
      BY <1>0, <2>1, <2>2, CallCounted, CallerAnswered
    <2>5. call' \in [Callers -> Call]
      BY <1>00, <2>1, <2>3, <2>4, Replaced
    <2>6. caller' \in [Callers -> Caller]
      BY <1>00, <2>3, <2>4, Replaced
    <2> QED BY <1>6, <1>00, <2>5, <2>6 DEF Receive, TypeOK
  <1>7. ASSUME NEW w \in Callers, Leave(w) PROVE TypeOK'
    <2> DEFINE c == caller[w].on
               n == IF call[c].waiters > 0 THEN call[c].waiters - 1 ELSE 0
               x == IF LastLeaves(c) /\ call[c].cause = "none" THEN "canceled"
                    ELSE call[c].cause
    <2>1. c \in Callers /\ call[c] \in Call
      BY <1>0, CallerOn
    <2>2. n \in Nat /\ x \in Causes
      BY <2>1, CallFields DEF Causes
    <2>3. /\ call' = [call EXCEPT ![c] = [call[c] EXCEPT !.waiters = n, !.cause = x]]
          /\ caller' = [caller EXCEPT ![w] =
                           [caller[w] EXCEPT !.pc = "answered", !.answer = "left"]]
      BY <1>7, <2>1 DEF Leave, Call
    <2> HIDE DEF c, n, x
    <2>4. /\ [call[c] EXCEPT !.waiters = n, !.cause = x] \in Call
          /\ [caller[w] EXCEPT !.pc = "answered", !.answer = "left"] \in Caller
      BY <1>0, <2>1, <2>2, CallLeft, CallerAnswered
    <2>5. call' \in [Callers -> Call]
      BY <1>00, <2>1, <2>3, <2>4, Replaced
    <2>6. caller' \in [Callers -> Caller]
      BY <1>00, <2>3, <2>4, Replaced
    <2>7. calls' \in [Keys -> Callers \cup {NoCall}]
      BY <1>00, <1>7 DEF Leave
    <2> QED BY <1>7, <1>00, <2>5, <2>6, <2>7 DEF Leave, TypeOK
  <1>8. CASE Close
    <2>1. ASSUME NEW c \in Callers PROVE call'[c] \in Call
      <3>1. (IF call[c].cause = "none" THEN "closed" ELSE call[c].cause) \in Causes
        BY <1>0, CallFields DEF Causes
      <3>2. call'[c] = call[c] \/
            call'[c] = [call[c] EXCEPT !.cause = IF call[c].cause = "none" THEN "closed"
                                                 ELSE call[c].cause]
        BY <1>8 DEF Close
      <3> QED BY <1>0, <3>1, <3>2, CallCaused
    <2>2. call' \in [Callers -> Call]
      BY <1>8, <2>1 DEF Close
    <2> QED BY <1>8, <2>2 DEF Close, TypeOK
  <1>9. CASE UNCHANGED vars
    BY <1>9 DEF vars, TypeOK
  <1> QED BY <1>1, <1>2, <1>3, <1>4, <1>5, <1>6, <1>7, <1>8, <1>9 DEF Next, Work

\* The initial state is well typed.
LEMMA InitTypes == Init => TypeOK
  <1> SUFFICES ASSUME Init PROVE TypeOK
    OBVIOUS
  <1>1. [pc : {"none"}, key : Keys, waiters : {0}, cause : {"none"}, result : {"none"}]
            \subseteq Call
    BY DEF Call, Causes
  <1>2. caller \in [Callers -> Caller]
    BY DEF Init, Caller
  <1> QED BY <1>1, <1>2 DEF Init, TypeOK

\* The coalescer's state keeps its type under every interleaving of Do, run,
\* leave and Close.
THEOREM CoalescerTypes == Spec => []TypeOK
  BY InitTypes, TypesStep, PTL DEF Spec


-----------------------------------------------------------------------------
(* Who waits *)

\* The callers of a call form a finite set.
LEMMA WaitingFinite == ASSUME NEW c PROVE IsFiniteSet(Waiting(c))
  <1>1. Waiting(c) \subseteq Callers
    BY DEF Waiting
  <1> QED BY <1>1, CoalescerAssumption, FS_Subset

\* w starts to wait on c, and nobody else moves: the counts follow.
LEMMA OneMoreWaits ==
    ASSUME WaitersCounted, TypeOK, TypeOK', NEW w \in Callers, NEW c \in Callers,
           caller[w].pc # "waiting", caller'[w].pc = "waiting", caller'[w].on = c,
           \A u \in Callers \ {w} : caller'[u] = caller[u],
           \A d \in Callers \ {c} : call'[d].waiters = call[d].waiters,
           call'[c].waiters = call[c].waiters + 1
    PROVE  WaitersCounted'
  <1>1. Waiting(c)' = Waiting(c) \cup {w} /\ w \notin Waiting(c)
    BY DEF Waiting
  <1>2. \A d \in Callers \ {c} : Waiting(d)' = Waiting(d)
    BY DEF Waiting
  <1>3. Cardinality(Waiting(c)') = Cardinality(Waiting(c)) + 1
    <2>1. IsFiniteSet(Waiting(c))
      BY WaitingFinite
    <2>2. Cardinality(Waiting(c) \cup {w}) = Cardinality(Waiting(c)) + 1
      <3> HIDE DEF Waiting
      <3> QED BY ONLY <1>1, <2>1, FS_AddElement
    <2> QED BY ONLY <1>1, <2>2
  <1>4. ASSUME NEW d \in Callers PROVE call'[d].waiters = Cardinality(Waiting(d)')
    <2>1. call[d].waiters = Cardinality(Waiting(d))
      BY DEF WaitersCounted
    <2> QED BY <1>2, <1>3, <2>1
  <1> QED BY <1>4 DEF WaitersCounted

\* w stops waiting on c, and nobody else moves: the counts follow, and w was
\* the only one if the count was at most one.
LEMMA OneLessWaits ==
    ASSUME WaitersCounted, TypeOK, TypeOK', NEW w \in Callers, NEW c \in Callers,
           caller[w].pc = "waiting", caller[w].on = c, caller'[w].pc # "waiting",
           \A u \in Callers \ {w} : caller'[u] = caller[u],
           \A d \in Callers \ {c} : call'[d].waiters = call[d].waiters,
           call'[c].waiters = IF call[c].waiters > 0 THEN call[c].waiters - 1 ELSE 0
    PROVE  /\ WaitersCounted'
           /\ call[c].waiters > 0
           /\ \A d \in Callers : Waiting(d)' \subseteq Waiting(d)
           /\ call[c].waiters <= 1 => Waiting(c)' = {}
  <1>1. Waiting(c)' = Waiting(c) \ {w} /\ w \in Waiting(c)
    BY DEF Waiting
  <1>2. \A d \in Callers \ {c} : Waiting(d)' = Waiting(d)
    BY DEF Waiting
  <1>3. /\ Cardinality(Waiting(c)') = Cardinality(Waiting(c)) - 1
        /\ Cardinality(Waiting(c)) \in Nat /\ Cardinality(Waiting(c)') \in Nat
        /\ Cardinality(Waiting(c)') = 0 => Waiting(c)' = {}
    <2>1. IsFiniteSet(Waiting(c)) /\ IsFiniteSet(Waiting(c) \ {w})
      BY WaitingFinite, FS_RemoveElement
    <2>2. Cardinality(Waiting(c) \ {w}) = Cardinality(Waiting(c)) - 1
      <3> HIDE DEF Waiting
      <3> QED BY ONLY <1>1, <2>1, FS_RemoveElement
    <2>3. Cardinality(Waiting(c)) \in Nat /\ Cardinality(Waiting(c) \ {w}) \in Nat
      BY ONLY <2>1, FS_CardinalityType
    <2>4. Cardinality(Waiting(c) \ {w}) = 0 => Waiting(c) \ {w} = {}
      BY ONLY <2>1, FS_EmptySet
    <2> QED BY ONLY <1>1, <2>2, <2>3, <2>4
  <1>4. call[c].waiters = Cardinality(Waiting(c))
    BY DEF WaitersCounted
  <1>5. call[c].waiters > 0 /\ call'[c].waiters = Cardinality(Waiting(c)')
    BY <1>3, <1>4
  <1>6. ASSUME NEW d \in Callers PROVE call'[d].waiters = Cardinality(Waiting(d)')
    <2>1. call[d].waiters = Cardinality(Waiting(d))
      BY DEF WaitersCounted
    <2> QED BY <1>2, <1>5, <2>1
  <1>7. \A d \in Callers : Waiting(d)' \subseteq Waiting(d)
    BY <1>1, <1>2
  <1>8. call[c].waiters <= 1 => Waiting(c)' = {}
    BY <1>3, <1>4
  <1> QED BY <1>5, <1>6, <1>7, <1>8 DEF WaitersCounted

\* Nobody starts or stops waiting.
LEMMA SameWait ==
    ASSUME WaitersCounted,
           \A u \in Callers : /\ caller'[u].pc = "waiting" <=> caller[u].pc = "waiting"
                              /\ caller'[u].on = caller[u].on,
           \A d \in Callers : call'[d].waiters = call[d].waiters
    PROVE  WaitersCounted' /\ \A d \in Callers : Waiting(d)' = Waiting(d)
  <1>1. \A d \in Callers : Waiting(d)' = Waiting(d)
    BY DEF Waiting
  <1> QED BY <1>1 DEF WaitersCounted

-----------------------------------------------------------------------------
(* The inductive invariant *)

\* A rejected caller only learns that the coalescer is closed.
LEMMA RejectedKeeps ==
    ASSUME TypeOK, TypeOK', CoalescerInv, NEW w \in Callers, DoRejected(w)
    PROVE  CoalescerInv'
  <1>1. /\ \A u \in Callers \ {w} : caller'[u] = caller[u]
        /\ caller[w].pc = "idle" /\ caller'[w].pc = "answered" /\ caller'[w].answer = "closed"
        /\ caller'[w].on = caller[w].on
        /\ calls' = calls /\ call' = call /\ closed' = closed /\ closed
    BY DEF DoRejected, TypeOK, Caller
  <1>2. WaitersCounted' /\ \A d \in Callers : Waiting(d)' = Waiting(d)
    BY <1>1, SameWait DEF CoalescerInv
  <1>3. MapInv'
    BY <1>1 DEF CoalescerInv, MapInv
  <1>4. CauseInv'
    BY <1>1, <1>2 DEF CoalescerInv, CauseInv
  <1>5. IdleInv'
    BY <1>1, <1>2 DEF CoalescerInv, IdleInv
  <1>6. SurvivorUnharmed'
    BY <1>1 DEF CoalescerInv, SurvivorUnharmed
  <1> QED BY <1>2, <1>3, <1>4, <1>5, <1>6 DEF CoalescerInv

\* A join finds a running call nobody cancelled.
LEMMA JoinsKeeps ==
    ASSUME TypeOK, TypeOK', CoalescerInv, NEW w \in Callers, NEW k \in Keys, DoJoins(w, k)
    PROVE  CoalescerInv'
  <1> DEFINE c == calls[k]
  <1>0. c \in Callers /\ c # NoCall /\ call[c] \in Call /\ call[c].waiters \in Nat
    BY CallFields DEF DoJoins, TypeOK
  <1>1. /\ \A u \in Callers \ {w} : caller'[u] = caller[u]
        /\ caller[w].pc = "idle" /\ caller'[w].pc = "waiting" /\ caller'[w].on = c
        /\ \A d \in Callers \ {c} : call'[d] = call[d]
        /\ call'[c].pc = call[c].pc /\ call'[c].key = call[c].key
        /\ call'[c].cause = call[c].cause /\ call'[c].result = call[c].result
        /\ call'[c].waiters = call[c].waiters + 1
        /\ calls' = calls /\ closed' = closed
    BY <1>0 DEF DoJoins, TypeOK, Call, Caller
  <1> HIDE DEF c
  <1>2. WaitersCounted'
    BY <1>0, <1>1, OneMoreWaits DEF CoalescerInv
  <1>3. \A d \in Callers \ {c} : Waiting(d)' = Waiting(d)
    BY <1>1 DEF Waiting
  <1>4. call[c].pc = "running" /\ call[c].cause # "canceled"
    BY <1>0 DEF CoalescerInv, MapInv, c
  <1>5. MapInv'
    <2>1. \A d \in Callers : call'[d].pc = call[d].pc /\ call'[d].key = call[d].key
                             /\ call'[d].cause = call[d].cause
                             /\ (call[d].waiters > 0 => call'[d].waiters > 0)
      BY <1>0, <1>1
    <2>2. \A j \in Keys : calls[j] # NoCall => calls[j] \in Callers
      BY DEF TypeOK
    <2> QED BY <1>1, <2>1, <2>2 DEF CoalescerInv, MapInv
  <1>6. CauseInv'
    <2> SUFFICES ASSUME NEW d \in Callers
                 PROVE  /\ call'[d].cause = "canceled" => Waiting(d)' = {}
                        /\ call'[d].cause = "closed" => closed'
                        /\ call'[d].pc = "running" /\ closed' => call'[d].cause # "none"
                        /\ call'[d].result = "canceled" => call'[d].cause = "canceled"
                        /\ call'[d].result = "closed" => call'[d].cause = "closed"
      BY DEF CauseInv
    <2> QED BY <1>1, <1>3, <1>4 DEF CoalescerInv, CauseInv
  <1>7. IdleInv'
    <2> SUFFICES ASSUME NEW d \in Callers
                 PROVE  /\ caller'[d].pc = "idle" => call'[d].pc = "none"
                        /\ call'[d].pc = "none" => Waiting(d)' = {} /\ call'[d].cause = "none"
      BY DEF IdleInv
    <2> QED BY <1>1, <1>3, <1>4 DEF CoalescerInv, IdleInv
  <1>8. SurvivorUnharmed'
    BY <1>1 DEF CoalescerInv, SurvivorUnharmed
  <1> QED BY <1>2, <1>5, <1>6, <1>7, <1>8 DEF CoalescerInv

\* A new call has its creator for only waiter.
LEMMA CreatesKeeps ==
    ASSUME TypeOK, TypeOK', CoalescerInv, NEW w \in Callers, DoCreates(w)
    PROVE  CoalescerInv'
  <1> DEFINE k == call[w].key
  <1>0. k \in Keys /\ call[w] \in Call
    BY CallFields DEF TypeOK
  <1>1. /\ \A u \in Callers \ {w} : caller'[u] = caller[u]
        /\ caller[w].pc = "idle" /\ caller'[w].pc = "waiting" /\ caller'[w].on = w
        /\ \A d \in Callers \ {w} : call'[d] = call[d]
        /\ call'[w].pc = "running" /\ call'[w].key = k
        /\ call'[w].cause = call[w].cause /\ call'[w].result = call[w].result
        /\ call'[w].waiters = 1
        /\ calls[k] = NoCall /\ calls'[k] = w /\ \A j \in Keys \ {k} : calls'[j] = calls[j]
        /\ closed' = closed /\ ~ closed
    BY <1>0 DEF DoCreates, TypeOK, Call, Caller
  <1> HIDE DEF k
  <1>2. call[w].pc = "none" /\ Waiting(w) = {} /\ call[w].cause = "none"
    BY <1>1 DEF CoalescerInv, IdleInv
  <1>3. call[w].waiters = 0
    BY <1>2, FS_EmptySet DEF CoalescerInv, WaitersCounted
  <1>4. WaitersCounted'
    BY <1>1, <1>3, OneMoreWaits DEF CoalescerInv
  <1>5. \A d \in Callers \ {w} : Waiting(d)' = Waiting(d)
    BY <1>1 DEF Waiting
  <1>6. MapInv'
    <2>1. \A j \in Keys : calls[j] # NoCall => calls[j] \in Callers \ {w}
      BY <1>2 DEF TypeOK, CoalescerInv, MapInv
    <2>2. ASSUME NEW j \in Keys, calls'[j] # NoCall
          PROVE  /\ call'[calls'[j]].pc = "running" /\ call'[calls'[j]].key = j
                 /\ call'[calls'[j]].cause # "canceled"
      BY <1>1, <1>2, <2>1, <2>2 DEF CoalescerInv, MapInv
    <2>3. ASSUME NEW d \in Callers, call'[d].pc = "running", call'[d].cause = "none"
          PROVE  calls'[call'[d].key] = d /\ call'[d].waiters > 0
      <3>1. CASE d = w
        BY <3>1, <1>1
      <3>2. CASE d # w
        <4>1. calls[call[d].key] = d /\ call[d].waiters > 0 /\ call'[d] = call[d]
          BY <1>1, <2>3, <3>2 DEF CoalescerInv, MapInv
        <4>2. call[d].key \in Keys /\ d # NoCall
          BY CallFields, CoalescerAssumption DEF TypeOK
        <4>3. call[d].key # k
          BY <1>1, <4>1, <4>2
        <4> QED BY <1>1, <4>1, <4>2, <4>3
      <3> QED BY <3>1, <3>2
    <2> QED BY <2>2, <2>3 DEF MapInv
  <1>7. CauseInv'
    <2> SUFFICES ASSUME NEW d \in Callers
                 PROVE  /\ call'[d].cause = "canceled" => Waiting(d)' = {}
                        /\ call'[d].cause = "closed" => closed'
                        /\ call'[d].pc = "running" /\ closed' => call'[d].cause # "none"
                        /\ call'[d].result = "canceled" => call'[d].cause = "canceled"
                        /\ call'[d].result = "closed" => call'[d].cause = "closed"
      BY DEF CauseInv
    <2> QED BY <1>1, <1>2, <1>5 DEF CoalescerInv, CauseInv
  <1>8. IdleInv'
    <2> SUFFICES ASSUME NEW d \in Callers
                 PROVE  /\ caller'[d].pc = "idle" => call'[d].pc = "none"
                        /\ call'[d].pc = "none" => Waiting(d)' = {} /\ call'[d].cause = "none"
      BY DEF IdleInv
    <2> QED BY <1>1, <1>5 DEF CoalescerInv, IdleInv
  <1>9. SurvivorUnharmed'
    BY <1>1 DEF CoalescerInv, SurvivorUnharmed
  <1> QED BY <1>4, <1>6, <1>7, <1>8, <1>9 DEF CoalescerInv

\* The end of a caller's context only enables its Leave.
LEMMA ContextDoneKeeps ==
    ASSUME TypeOK, TypeOK', CoalescerInv, NEW w \in Callers, ContextDone(w)
    PROVE  CoalescerInv'
  <1>1. /\ \A u \in Callers : /\ caller'[u].pc = caller[u].pc /\ caller'[u].on = caller[u].on
                              /\ caller'[u].answer = caller[u].answer
        /\ calls' = calls /\ call' = call /\ closed' = closed
    BY DEF ContextDone, TypeOK, Caller
  <1>2. WaitersCounted' /\ \A d \in Callers : Waiting(d)' = Waiting(d)
    BY <1>1, SameWait DEF CoalescerInv
  <1>3. MapInv'
    BY <1>1 DEF CoalescerInv, MapInv
  <1>4. CauseInv'
    BY <1>1, <1>2 DEF CoalescerInv, CauseInv
  <1>5. IdleInv'
    BY <1>1, <1>2 DEF CoalescerInv, IdleInv
  <1>6. SurvivorUnharmed'
    BY <1>1 DEF CoalescerInv, SurvivorUnharmed
  <1> QED BY <1>2, <1>3, <1>4, <1>5, <1>6 DEF CoalescerInv

\* A finished call leaves the map, and its result is a value or its cause.
LEMMA RunKeeps ==
    ASSUME TypeOK, TypeOK', CoalescerInv, NEW w \in Callers,
           NEW r \in {"value", "canceled", "closed"}, Run(w, r)
    PROVE  CoalescerInv'
  <1> DEFINE k == call[w].key
  <1>0. k \in Keys /\ call[w] \in Call
    BY CallFields DEF TypeOK
  <1>1. /\ caller' = caller /\ closed' = closed
        /\ \A d \in Callers \ {w} : call'[d] = call[d]
        /\ call[w].pc = "running" /\ call'[w].pc = "finished" /\ call'[w].key = k
        /\ call'[w].cause = call[w].cause /\ call'[w].result = r
        /\ call'[w].waiters = call[w].waiters
        /\ r = "value" \/ r = call[w].cause
        /\ \A j \in Keys \ {k} : calls'[j] = calls[j]
        /\ calls[k] = w => calls'[k] = NoCall
        /\ calls[k] # w => calls'[k] = calls[k]
    BY <1>0 DEF Run, TypeOK, Call
  <1> HIDE DEF k
  <1>2. WaitersCounted' /\ \A d \in Callers : Waiting(d)' = Waiting(d)
    BY <1>1, SameWait DEF CoalescerInv
  <1>3. MapInv'
    <2>1. ASSUME NEW j \in Keys, calls'[j] # NoCall
          PROVE  /\ call'[calls'[j]].pc = "running" /\ call'[calls'[j]].key = j
                 /\ call'[calls'[j]].cause # "canceled"
      <3>1. calls'[j] = calls[j] /\ calls[j] \in Callers
        BY <1>0, <1>1, <2>1 DEF TypeOK
      <3>2. /\ call[calls[j]].pc = "running" /\ call[calls[j]].key = j
            /\ call[calls[j]].cause # "canceled"
        BY <2>1, <3>1 DEF CoalescerInv, MapInv
      <3>3. calls[j] # w
        BY <1>1, <2>1, <3>1, <3>2 DEF k
      <3> QED BY <1>1, <3>1, <3>2, <3>3
    <2>2. ASSUME NEW d \in Callers, call'[d].pc = "running", call'[d].cause = "none"
          PROVE  calls'[call'[d].key] = d /\ call'[d].waiters > 0
      <3>1. d # w /\ call'[d] = call[d]
        BY <1>1, <2>2
      <3>2. calls[call[d].key] = d /\ call[d].waiters > 0 /\ call[d].key \in Keys
        BY <2>2, <3>1, CallFields DEF CoalescerInv, MapInv, TypeOK
      <3> QED BY <1>0, <1>1, <3>1, <3>2
    <2> QED BY <2>1, <2>2 DEF MapInv
  <1>4. CauseInv'
    <2> SUFFICES ASSUME NEW d \in Callers
                 PROVE  /\ call'[d].cause = "canceled" => Waiting(d)' = {}
                        /\ call'[d].cause = "closed" => closed'
                        /\ call'[d].pc = "running" /\ closed' => call'[d].cause # "none"
                        /\ call'[d].result = "canceled" => call'[d].cause = "canceled"
                        /\ call'[d].result = "closed" => call'[d].cause = "closed"
      BY DEF CauseInv
    <2> QED BY <1>1, <1>2 DEF CoalescerInv, CauseInv
  <1>5. IdleInv'
    <2> SUFFICES ASSUME NEW d \in Callers
                 PROVE  /\ caller'[d].pc = "idle" => call'[d].pc = "none"
                        /\ call'[d].pc = "none" => Waiting(d)' = {} /\ call'[d].cause = "none"
      BY DEF IdleInv
    <2> QED BY <1>1, <1>2 DEF CoalescerInv, IdleInv
  <1>6. SurvivorUnharmed'
    BY <1>1 DEF CoalescerInv, SurvivorUnharmed
  <1> QED BY <1>2, <1>3, <1>4, <1>5, <1>6 DEF CoalescerInv

\* A caller that still waits cannot find the call cancelled under it.
LEMMA ReceiveKeeps ==
    ASSUME TypeOK, TypeOK', CoalescerInv, NEW w \in Callers, Receive(w)
    PROVE  CoalescerInv'
  <1> DEFINE c == caller[w].on
  <1>0. c \in Callers /\ call[c] \in Call
    BY CallerOn DEF TypeOK
  <1>1. /\ \A u \in Callers \ {w} : caller'[u] = caller[u]
        /\ caller[w].pc = "waiting" /\ caller[w].on = c
        /\ caller'[w].pc = "answered" /\ caller'[w].answer = call[c].result
        /\ \A d \in Callers \ {c} : call'[d] = call[d]
        /\ call[c].pc = "finished" /\ call'[c].pc = "finished" /\ call'[c].key = call[c].key
        /\ call'[c].cause = call[c].cause /\ call'[c].result = call[c].result
        /\ call'[c].waiters = IF call[c].waiters > 0 THEN call[c].waiters - 1 ELSE 0
        /\ calls' = calls /\ closed' = closed
    BY <1>0 DEF Receive, TypeOK, Call, Caller
  <1> HIDE DEF c
  <1>2. WaitersCounted' /\ \A d \in Callers : Waiting(d)' \subseteq Waiting(d)
    <2>1. caller'[w].pc # "waiting"
      BY <1>1
    <2>2. \A d \in Callers \ {c} : call'[d].waiters = call[d].waiters
      BY <1>1
    <2> QED BY <1>0, <1>1, <2>1, <2>2, OneLessWaits DEF CoalescerInv
  <1>3. MapInv'
    <2>1. \A j \in Keys : calls[j] # NoCall => calls[j] \in Callers \ {c}
      BY <1>1 DEF CoalescerInv, MapInv, TypeOK
    <2> QED BY <1>1, <2>1 DEF CoalescerInv, MapInv
  <1>4. CauseInv'
    <2> SUFFICES ASSUME NEW d \in Callers
                 PROVE  /\ call'[d].cause = "canceled" => Waiting(d)' = {}
                        /\ call'[d].cause = "closed" => closed'
                        /\ call'[d].pc = "running" /\ closed' => call'[d].cause # "none"
                        /\ call'[d].result = "canceled" => call'[d].cause = "canceled"
                        /\ call'[d].result = "closed" => call'[d].cause = "closed"
      BY DEF CauseInv
    <2> QED BY <1>1, <1>2 DEF CoalescerInv, CauseInv
  <1>5. IdleInv'
    <2> SUFFICES ASSUME NEW d \in Callers
                 PROVE  /\ caller'[d].pc = "idle" => call'[d].pc = "none"
                        /\ call'[d].pc = "none" => Waiting(d)' = {} /\ call'[d].cause = "none"
      BY DEF IdleInv
    <2> QED BY <1>1, <1>2 DEF CoalescerInv, IdleInv
  <1>6. SurvivorUnharmed'
    <2>1. w \in Waiting(c)
      BY <1>1 DEF Waiting
    <2>2. call[c].result # "canceled" /\ (call[c].result = "closed" => closed)
      BY <1>0, <2>1 DEF CoalescerInv, CauseInv
    <2> QED BY <1>1, <2>2 DEF CoalescerInv, SurvivorUnharmed
  <1> QED BY <1>2, <1>3, <1>4, <1>5, <1>6 DEF CoalescerInv

\* The last waiter takes the call out of the map as it cancels it.
LEMMA LeaveKeeps ==
    ASSUME TypeOK, TypeOK', CoalescerInv, NEW w \in Callers, Leave(w)
    PROVE  CoalescerInv'
  <1>00. PICK c \in Callers : c = caller[w].on
    BY CallerOn DEF TypeOK
  <1> DEFINE k == call[c].key
  <1>0. /\ c = caller[w].on /\ c \in Callers /\ call[c] \in Call /\ k \in Keys /\ call[c].waiters \in Nat
        /\ c # NoCall
    BY <1>00, CallFields, CoalescerAssumption DEF TypeOK
  <1>1. /\ \A u \in Callers \ {w} : caller'[u] = caller[u]
        /\ caller[w].pc = "waiting" /\ caller[w].on = c
        /\ caller'[w].pc = "answered" /\ caller'[w].answer = "left"
        /\ closed' = closed
    BY <1>0 DEF Leave, TypeOK, Caller
  <1> DEFINE n == IF call[c].waiters > 0 THEN call[c].waiters - 1 ELSE 0
             x == IF LastLeaves(c) /\ call[c].cause = "none" THEN "canceled"
                  ELSE call[c].cause
  <1>11. call' = [call EXCEPT ![c] = [call[c] EXCEPT !.waiters = n, !.cause = x]]
    BY <1>0 DEF Leave, Call
  <1> HIDE DEF n, x
  <1>12. /\ \A d \in Callers \ {c} : call'[d] = call[d]
         /\ call'[c].pc = call[c].pc /\ call'[c].key = k /\ call'[c].result = call[c].result
         /\ call'[c].waiters = n /\ call'[c].cause = x
    BY <1>0, <1>11 DEF TypeOK, Call
  <1>2. x = IF LastLeaves(c) /\ call[c].cause = "none" THEN "canceled" ELSE call[c].cause
    BY DEF x
  <1>3. /\ \A j \in Keys \ {k} : calls'[j] = calls[j]
        /\ LastLeaves(c) /\ calls[k] = c => calls'[k] = NoCall
        /\ ~ (LastLeaves(c) /\ calls[k] = c) => calls'[k] = calls[k]
    BY <1>0 DEF Leave, TypeOK
  <1> HIDE DEF k
  <1>4. /\ WaitersCounted'
        /\ call[c].waiters > 0
        /\ \A d \in Callers : Waiting(d)' \subseteq Waiting(d)
        /\ call[c].waiters <= 1 => Waiting(c)' = {}
    <2>1. caller'[w].pc # "waiting"
      BY <1>1
    <2>2. \A d \in Callers \ {c} : call'[d].waiters = call[d].waiters
      BY <1>12
    <2>3. call'[c].waiters = IF call[c].waiters > 0 THEN call[c].waiters - 1 ELSE 0
      BY <1>12 DEF n
    <2>4. WaitersCounted
      BY DEF CoalescerInv
    <2> QED BY <1>0, <1>1, <2>1, <2>2, <2>3, <2>4, OneLessWaits
  <1>5. w \in Waiting(c) /\ call[c].cause # "canceled" /\ call[c].pc # "none"
    <2>1. w \in Waiting(c)
      BY <1>1 DEF Waiting
    <2> QED BY <1>0, <2>1 DEF CoalescerInv, CauseInv, IdleInv
  <1>6. MapInv'
    <2>1. ASSUME NEW j \in Keys, calls'[j] # NoCall
          PROVE  /\ call'[calls'[j]].pc = "running" /\ call'[calls'[j]].key = j
                 /\ call'[calls'[j]].cause # "canceled"
      <3>1. calls'[j] = calls[j] /\ calls[j] \in Callers
        BY <1>0, <1>3, <2>1 DEF TypeOK
      <3>2. /\ call[calls[j]].pc = "running" /\ call[calls[j]].key = j
            /\ call[calls[j]].cause # "canceled"
        BY <2>1, <3>1 DEF CoalescerInv, MapInv
      <3>3. CASE calls[j] = c
        <4>1. j = k /\ ~ LastLeaves(c)
          BY <1>3, <2>1, <3>1, <3>2, <3>3 DEF k
        <4> QED BY <1>12, <1>2, <3>1, <3>2, <3>3, <4>1
      <3>4. CASE calls[j] # c
        BY <1>12, <3>1, <3>2, <3>4
      <3> QED BY <3>3, <3>4
    <2>2. ASSUME NEW d \in Callers, call'[d].pc = "running", call'[d].cause = "none"
          PROVE  calls'[call'[d].key] = d /\ call'[d].waiters > 0
      <3>1. CASE d = c
        <4>1. call[c].pc = "running" /\ call[c].cause = "none" /\ ~ LastLeaves(c)
          BY <1>12, <1>2, <2>2, <3>1
        <4>2. calls[k] = c
          BY <1>0, <4>1 DEF CoalescerInv, MapInv, k
        <4>3. call[c].waiters > 1
          BY <1>0, <4>1 DEF LastLeaves
        <4>4. call'[c].waiters > 0
          BY <1>0, <1>12, <4>3 DEF n
        <4> QED BY <1>0, <1>12, <1>3, <3>1, <4>1, <4>2, <4>4
      <3>2. CASE d # c
        <4>1. call'[d] = call[d]
          BY <1>12, <3>2
        <4>2. calls[call[d].key] = d /\ call[d].waiters > 0 /\ call[d].key \in Keys
          BY <2>2, <4>1, CallFields DEF CoalescerInv, MapInv, TypeOK
        <4> QED BY <1>0, <1>3, <3>2, <4>1, <4>2
      <3> QED BY <3>1, <3>2
    <2> QED BY <2>1, <2>2 DEF MapInv
  <1>7. CauseInv'
    <2> SUFFICES ASSUME NEW d \in Callers
                 PROVE  /\ call'[d].cause = "canceled" => Waiting(d)' = {}
                        /\ call'[d].cause = "closed" => closed'
                        /\ call'[d].pc = "running" /\ closed' => call'[d].cause # "none"
                        /\ call'[d].result = "canceled" => call'[d].cause = "canceled"
                        /\ call'[d].result = "closed" => call'[d].cause = "closed"
      BY DEF CauseInv
    <2>0. /\ call[d].cause = "canceled" => Waiting(d) = {}
          /\ call[d].cause = "closed" => closed
          /\ call[d].pc = "running" /\ closed => call[d].cause # "none"
          /\ call[d].result = "canceled" => call[d].cause = "canceled"
          /\ call[d].result = "closed" => call[d].cause = "closed"
      BY DEF CoalescerInv, CauseInv
    <2>1. CASE d = c
      <3>1. LastLeaves(c) => Waiting(c)' = {}
        BY <1>4 DEF LastLeaves
      <3>2. call[c].cause # "none" => call'[c].cause = call[c].cause
        BY <1>2, <1>12
      <3>3. call'[c].cause = "canceled" => LastLeaves(c)
        BY <1>2, <1>5, <1>12
      <3>4. call'[c].cause = "closed" => call[c].cause = "closed"
        BY <1>2, <1>12
      <3>5. call'[c].pc = call[c].pc /\ call'[c].result = call[c].result /\ closed' = closed
        BY <1>1, <1>12
      <3> QED BY <2>0, <2>1, <3>1, <3>2, <3>3, <3>4, <3>5
    <2>2. CASE d # c
      BY <1>1, <1>4, <1>12, <2>0, <2>2
    <2> QED BY <2>1, <2>2
  <1>8. IdleInv'
    <2> SUFFICES ASSUME NEW d \in Callers
                 PROVE  /\ caller'[d].pc = "idle" => call'[d].pc = "none"
                        /\ call'[d].pc = "none" => Waiting(d)' = {} /\ call'[d].cause = "none"
      BY DEF IdleInv
    <2> QED BY <1>1, <1>4, <1>5, <1>12 DEF CoalescerInv, IdleInv
  <1>9. SurvivorUnharmed'
    BY <1>1 DEF CoalescerInv, SurvivorUnharmed
  <1> QED BY <1>4, <1>6, <1>7, <1>8, <1>9 DEF CoalescerInv

\* Close reaches every call that is running and not yet cancelled.
LEMMA CloseKeeps ==
    ASSUME TypeOK, TypeOK', CoalescerInv, Close
    PROVE  CoalescerInv'
  <1>1. /\ caller' = caller /\ calls' = calls /\ closed' = TRUE
        /\ \A d \in Callers :
             /\ call'[d].pc = call[d].pc /\ call'[d].key = call[d].key
             /\ call'[d].waiters = call[d].waiters /\ call'[d].result = call[d].result
             /\ call'[d].cause = IF (\E j \in Keys : calls[j] = d) /\ call[d].cause = "none"
                                 THEN "closed" ELSE call[d].cause
    BY DEF Close, TypeOK, Call
  <1>2. WaitersCounted' /\ \A d \in Callers : Waiting(d)' = Waiting(d)
    BY <1>1, SameWait DEF CoalescerInv
  <1>3. \A d \in Callers : (\E j \in Keys : calls[j] = d) => call[d].pc = "running"
    BY CoalescerAssumption DEF CoalescerInv, MapInv
  <1>4. \A d \in Callers : /\ call'[d].cause = "canceled" <=> call[d].cause = "canceled"
                           /\ call'[d].cause = "none" => call[d].cause = "none"
                           /\ call[d].cause = "closed" => call'[d].cause = "closed"
    BY <1>1
  <1>5. MapInv'
    <2>1. \A j \in Keys : calls[j] # NoCall => calls[j] \in Callers
      BY DEF TypeOK
    <2> QED BY <1>1, <1>4, <2>1 DEF CoalescerInv, MapInv
  <1>6. CauseInv'
    <2> SUFFICES ASSUME NEW d \in Callers
                 PROVE  /\ call'[d].cause = "canceled" => Waiting(d)' = {}
                        /\ call'[d].cause = "closed" => closed'
                        /\ call'[d].pc = "running" /\ closed' => call'[d].cause # "none"
                        /\ call'[d].result = "canceled" => call'[d].cause = "canceled"
                        /\ call'[d].result = "closed" => call'[d].cause = "closed"
      BY DEF CauseInv
    <2>1. call'[d].pc = "running" => call'[d].cause # "none"
      <3> SUFFICES ASSUME call[d].pc = "running", call'[d].cause = "none" PROVE FALSE
        BY <1>1
      <3>1. call[d].cause = "none"
        BY <1>4
      <3>2. calls[call[d].key] = d /\ call[d].key \in Keys
        BY <3>1, CallFields DEF CoalescerInv, MapInv, TypeOK
      <3> QED BY <1>1, <3>1, <3>2
    <2> QED BY <1>1, <1>2, <1>4, <2>1 DEF CoalescerInv, CauseInv
  <1>7. IdleInv'
    <2> SUFFICES ASSUME NEW d \in Callers
                 PROVE  /\ caller'[d].pc = "idle" => call'[d].pc = "none"
                        /\ call'[d].pc = "none" => Waiting(d)' = {} /\ call'[d].cause = "none"
      BY DEF IdleInv
    <2> QED BY <1>1, <1>2, <1>3 DEF CoalescerInv, IdleInv
  <1>8. SurvivorUnharmed'
    BY <1>1 DEF CoalescerInv, SurvivorUnharmed
  <1> QED BY <1>2, <1>5, <1>6, <1>7, <1>8 DEF CoalescerInv

\* No action changes anything.
LEMMA StutterKeeps ==
    ASSUME CoalescerInv, UNCHANGED vars
    PROVE  CoalescerInv'
  <1>1. \A d \in Callers : Waiting(d)' = Waiting(d)
    BY DEF Waiting, vars
  <1> QED BY <1>1 DEF CoalescerInv, MapInv, CauseInv, IdleInv, WaitersCounted,
                      SurvivorUnharmed, vars

\* Nothing waits and nothing runs at first.
LEMMA InitInv == Init => CoalescerInv
  <1> SUFFICES ASSUME Init PROVE CoalescerInv
    OBVIOUS
  <1>1. \A c \in Callers : Waiting(c) = {}
    BY DEF Init, Waiting
  <1>2. \A c \in Callers : /\ call[c].pc = "none" /\ call[c].waiters = 0
                           /\ call[c].cause = "none" /\ call[c].result = "none"
    BY DEF Init
  <1>3. WaitersCounted
    BY <1>1, <1>2, FS_EmptySet DEF WaitersCounted
  <1>4. MapInv
    BY <1>2 DEF Init, MapInv
  <1>5. CauseInv
    BY <1>1, <1>2 DEF CauseInv
  <1>6. IdleInv
    BY <1>1, <1>2 DEF IdleInv
  <1>7. SurvivorUnharmed
    BY DEF Init, SurvivorUnharmed
  <1> QED BY <1>3, <1>4, <1>5, <1>6, <1>7 DEF CoalescerInv

\* Every step of Do, run, leave and Close keeps it.
LEMMA CoalescerStep == TypeOK /\ CoalescerInv /\ [Next]_vars => TypeOK' /\ CoalescerInv'
  <1> SUFFICES ASSUME TypeOK, CoalescerInv, [Next]_vars PROVE TypeOK' /\ CoalescerInv'
    OBVIOUS
  <1>0. TypeOK'
    BY TypesStep
  <1>1. ASSUME NEW w \in Callers, DoRejected(w) PROVE CoalescerInv'
    BY <1>0, <1>1, RejectedKeeps
  <1>2. ASSUME NEW w \in Callers, NEW k \in Keys, DoJoins(w, k) PROVE CoalescerInv'
    BY <1>0, <1>2, JoinsKeeps
  <1>3. ASSUME NEW w \in Callers, DoCreates(w) PROVE CoalescerInv'
    BY <1>0, <1>3, CreatesKeeps
  <1>4. ASSUME NEW w \in Callers, ContextDone(w) PROVE CoalescerInv'
    BY <1>0, <1>4, ContextDoneKeeps
  <1>5. ASSUME NEW w \in Callers, Work(w) PROVE CoalescerInv'
    BY <1>0, <1>5, RunKeeps DEF Work
  <1>6. ASSUME NEW w \in Callers, Receive(w) PROVE CoalescerInv'
    BY <1>0, <1>6, ReceiveKeeps
  <1>7. ASSUME NEW w \in Callers, Leave(w) PROVE CoalescerInv'
    BY <1>0, <1>7, LeaveKeeps
  <1>8. CASE Close
    BY <1>0, <1>8, CloseKeeps
  <1>9. CASE UNCHANGED vars
    BY <1>0, <1>9, StutterKeeps, Zenon
  <1> QED BY <1>0, <1>1, <1>2, <1>3, <1>4, <1>5, <1>6, <1>7, <1>8, <1>9, Zenon DEF Next

\* The inductive invariant of Do, run, leave and Close: the map holds exactly
\* the running calls nobody cancelled, and each has the waiters it counts.
THEOREM CoalescerHolds == Spec => [](TypeOK /\ CoalescerInv)
  BY InitTypes, InitInv, CoalescerStep, PTL DEF Spec

\* What the invariant says of sharing.
LEMMA SharingFollows == TypeOK /\ CoalescerInv => CallsShared
  <1> SUFFICES ASSUME TypeOK, CoalescerInv PROVE CallsShared
    OBVIOUS
  <1>1. NoOrphanWork
    <2> SUFFICES ASSUME NEW c \in Callers, call[c].pc = "running"
                 PROVE  /\ call[c].waiters = 0 => call[c].cause # "none"
                        /\ closed => call[c].cause # "none"
      BY DEF NoOrphanWork
    <2> QED BY DEF CoalescerInv, MapInv, CauseInv
  <1>2. OneLiveCall
    BY DEF CoalescerInv, MapInv, OneLiveCall
  <1> QED BY <1>1, <1>2 DEF CoalescerInv, CallsShared

\* leave cancels on the right count: call.waiters is always the number of
\* callers blocked in Do on that call.
THEOREM CoalescerCounts == Spec => []WaitersCounted
  <1>1. CoalescerInv => WaitersCounted
    BY DEF CoalescerInv
  <1> QED BY CoalescerHolds, <1>1, PTL

\* A caller whose own context lives is never answered with the cancellation
\* of the shared context by leave.
THEOREM CoalescerSpares == Spec => []SurvivorUnharmed
  <1>1. CoalescerInv => SurvivorUnharmed
    BY DEF CoalescerInv
  <1> QED BY CoalescerHolds, <1>1, PTL

\* No operation runs uncancelled after its last waiter left or after Close.
THEOREM CoalescerNoOrphan == Spec => []NoOrphanWork
  <1>1. TypeOK /\ CoalescerInv => NoOrphanWork
    BY SharingFollows DEF CallsShared
  <1> QED BY CoalescerHolds, <1>1, PTL

\* Overlapping requests share: two uncancelled operations never run for a key.
THEOREM CoalescerShares == Spec => []OneLiveCall
  <1>1. TypeOK /\ CoalescerInv => OneLiveCall
    BY SharingFollows DEF CallsShared
  <1> QED BY CoalescerHolds, <1>1, PTL

\* Waiters are counted, those that stay are spared, and work runs once per key
\* and never for nobody.
THEOREM CoalescerCallsShared == Spec => []CallsShared
  BY SharingFollows, CoalescerHolds, PTL

-----------------------------------------------------------------------------
(* Reads *)

USE ReadsAssumption

-----------------------------------------------------------------------------
(* The inductive invariant *)

PCs == {"off", "load", "authorize", "confirm", "begin", "acquire", "queued", "reading", "store", "done"}

Results == {"none", "served", "deferred", "cancelled", "failed", "forbidden"}

Operation ==
    [pc : PCs, gen : Nat, floor : Nat, data : Nat, token : BOOLEAN, result : Results, permitted : BOOLEAN]

Worker == [gen : Nat, version : Nat, told : Nat, pc : {"off", "live", "applied", "fenced"}]

\* What the variables of the backend are.
ReadsTypes ==
    /\ cluster \in Nat /\ generation \in 1..MaxGeneration /\ fence \in Nat /\ allowed \in BOOLEAN
    /\ watch \in Worker
    /\ page # None => page \in [gen : Nat, data : Nat]
    /\ sched \in [limit : Nat \ {0}, paused : BOOLEAN]
    /\ op \in [Callers -> Operation]

Running(o) == o.pc \notin {"off", "done"}

Holds(o) == o.pc \in {"authorize", "confirm"} \/ (o.pc = "store" /\ o.result = "served")

\* What was read in generation g is as fresh as the watch has told, or is about to
\* tell, anybody who asks in that generation.
Fresh(n, g) ==
    /\ \A c \in Callers : Running(op[c]) /\ op[c].gen = g => n >= op[c].floor
    /\ watch.gen = g =>
         /\ n >= watch.told
         /\ watch.pc \in {"fenced", "live"} => n >= watch.version

\* The worker tells what it has, and has what the cluster had.
WatchBehind ==
    /\ watch.told <= watch.version /\ watch.version <= cluster
    /\ \A c \in Callers : Running(op[c]) => op[c].floor <= cluster
    /\ watch.pc # "off" => \A c \in Callers : Running(op[c]) /\ op[c].gen = watch.gen => op[c].floor <= watch.version

PageFresh == page # None => page.gen = fence /\ Fresh(page.data, page.gen)

\* A token stands for what nothing has invalidated since.
TokenFresh ==
    \A c \in Callers : op[c].token =>
        /\ Running(op[c]) /\ op[c].gen = fence
        /\ Holds(op[c]) => Fresh(op[c].data, op[c].gen)

\* What is about to be answered, or was, is as fresh as was told.
ReadFresh ==
    \A c \in Callers : (op[c].pc = "store" \/ op[c].pc = "done") /\ op[c].result = "served" => op[c].data >= op[c].floor

PermittedInv ==
    \A c \in Callers :
        /\ Running(op[c]) /\ allowed => op[c].permitted
        /\ op[c].pc = "confirm" \/ (op[c].pc \in {"store", "done"} /\ op[c].result = "served") => op[c].permitted

IdleOff == \A c \in Callers : caller[c].pc = "idle" => op[c].pc = "off"

ReadsInv ==
    /\ WatchBehind /\ PageFresh /\ TokenFresh /\ ReadFresh /\ PermittedInv /\ IdleOff /\ WaitersHaveSignal

-----------------------------------------------------------------------------
(* Types *)

\* The updates that the actions make keep an operation an operation.
LEMMA OperationUpdates ==
    ASSUME NEW o \in Operation
    PROVE  /\ o.gen \in Nat /\ o.floor \in Nat /\ o.data \in Nat /\ o.token \in BOOLEAN /\ o.permitted \in BOOLEAN
           /\ \A p \in PCs : [o EXCEPT !.pc = p] \in Operation
           /\ \A n \in Nat : [o EXCEPT !.pc = "authorize", !.data = n, !.token = TRUE] \in Operation
           /\ \A b \in BOOLEAN : [o EXCEPT !.pc = "acquire", !.token = b] \in Operation
           /\ \A n \in Nat : [o EXCEPT !.pc = "store", !.token = TRUE, !.data = n, !.result = "served"] \in Operation
           /\ \A n \in Nat : [o EXCEPT !.result = "served", !.data = n] \in Operation
           /\ \A r \in Results : [o EXCEPT !.result = r] \in Operation
           /\ [o EXCEPT !.token = FALSE] \in Operation
           /\ \A b \in BOOLEAN : [o EXCEPT !.permitted = b] \in Operation
           /\ \A g \in Nat, n \in Nat, b \in BOOLEAN :
                [o EXCEPT !.pc = "load", !.gen = g, !.floor = n, !.permitted = b] \in Operation
  <1>1. o.gen \in Nat /\ o.floor \in Nat /\ o.data \in Nat /\ o.token \in BOOLEAN /\ o.permitted \in BOOLEAN
    BY DEF Operation
  <1>2. ASSUME NEW p \in PCs PROVE [o EXCEPT !.pc = p] \in Operation
    BY <1>2 DEF Operation
  <1>3. ASSUME NEW n \in Nat PROVE [o EXCEPT !.pc = "authorize", !.data = n, !.token = TRUE] \in Operation
    BY <1>3 DEF Operation, PCs
  <1>4. ASSUME NEW b \in BOOLEAN PROVE [o EXCEPT !.pc = "acquire", !.token = b] \in Operation
    BY <1>4 DEF Operation, PCs
  <1>5. ASSUME NEW n \in Nat PROVE [o EXCEPT !.pc = "store", !.token = TRUE, !.data = n, !.result = "served"] \in Operation
    BY <1>5 DEF Operation, PCs, Results
  <1>6. ASSUME NEW n \in Nat PROVE [o EXCEPT !.result = "served", !.data = n] \in Operation
    BY <1>6 DEF Operation, Results
  <1>7. ASSUME NEW r \in Results PROVE [o EXCEPT !.result = r] \in Operation
    BY <1>7 DEF Operation
  <1>8. [o EXCEPT !.token = FALSE] \in Operation
    BY DEF Operation
  <1>9. ASSUME NEW b \in BOOLEAN PROVE [o EXCEPT !.permitted = b] \in Operation
    BY <1>9 DEF Operation
  <1>10. ASSUME NEW g \in Nat, NEW n \in Nat, NEW b \in BOOLEAN
         PROVE  [o EXCEPT !.pc = "load", !.gen = g, !.floor = n, !.permitted = b] \in Operation
    BY <1>10 DEF Operation, PCs
  <1> QED BY <1>1, <1>2, <1>3, <1>4, <1>5, <1>6, <1>7, <1>8, <1>9, <1>10

LEMMA EndedOperation ==
    ASSUME NEW o \in Operation, NEW r \in Results
    PROVE  /\ Ended(o, r) \in Operation
           /\ Ended(o, r).pc = "done" /\ ~ Ended(o, r).token /\ Ended(o, r).data = 0
           /\ Ended(o, r).result = "served" =>
                r = "served" /\ (Ended(o, r).permitted <=> o.permitted)
                /\ (o.data >= o.floor => Ended(o, r).floor = 0)
  <1>1. NoOperation \in Operation
    BY DEF NoOperation, Operation, PCs, Results
  <1> DEFINE x == IF r = "served" THEN r ELSE "none"
             n == IF r = "served" /\ o.data < o.floor THEN o.floor ELSE 0
             b == r = "served" /\ o.permitted
  <1>2. x \in Results /\ n \in Nat /\ b \in BOOLEAN
    BY OperationUpdates DEF Results
  <1>3. Ended(o, r) = [NoOperation EXCEPT !.pc = "done", !.result = x, !.floor = n, !.permitted = b]
    BY DEF Ended
  <1>40. o.data \in Nat /\ o.floor \in Nat
    BY OperationUpdates
  <1>41. (x = "served" => r = "served") /\ (o.data >= o.floor => n = 0)
    BY ONLY <1>40
  <1>42. r = "served" => (b <=> o.permitted)
    OBVIOUS
  <1>4. (x = "served" => r = "served") /\ (r = "served" => (b <=> o.permitted)) /\ (o.data >= o.floor => n = 0)
    BY <1>41, <1>42
  <1> HIDE DEF x, n, b
  <1>5. Ended(o, r) = [pc |-> "done", gen |-> 0, floor |-> n, data |-> 0, token |-> FALSE, result |-> x, permitted |-> b]
    BY <1>3 DEF NoOperation
  <1> QED BY <1>2, <1>4, <1>5 DEF Operation, PCs

LEMMA LimitsKept ==
    ASSUME ReadsTypes, NEW r \in Results
    PROVE  Observed(r) \in [limit : Nat \ {0}, paused : BOOLEAN]
  <1>1. \A a, b \in Nat : Max({a, b}) \in {a, b} /\ Max({a, b}) >= a /\ Max({a, b}) >= b
    BY DEF Max
  <1>2. \A a, b \in Nat : Min({a, b}) \in {a, b}
    BY DEF Min
  <1>3. sched.limit \in Nat \ {0} /\ sched.limit + 1 \in Nat \ {0} /\ sched.limit \div 2 \in Nat /\ Maximum \in Nat \ {0}
    BY DEF ReadsTypes
  <1>4. Max({Minimum, sched.limit \div 2}) \in Nat \ {0} /\ Min({Maximum, sched.limit + 1}) \in Nat \ {0}
    <2> DEFINE half == sched.limit \div 2
               more == sched.limit + 1
    <2>1. half \in Nat /\ more \in Nat \ {0} /\ Maximum \in Nat \ {0} /\ Minimum \in Nat \ {0}
      BY <1>3
    <2> HIDE DEF half, more
    <2>2. Max({Minimum, half}) \in {Minimum, half} /\ Max({Minimum, half}) >= Minimum
      BY ONLY <1>1, <2>1
    <2>3. Max({Minimum, half}) \in Nat \ {0}
      BY ONLY <2>1, <2>2
    <2>4. Min({Maximum, more}) \in {Maximum, more}
      BY ONLY <1>2, <2>1
    <2>5. Min({Maximum, more}) \in Nat \ {0}
      BY ONLY <2>1, <2>4
    <2> QED BY ONLY <2>3, <2>5 DEF half, more
  <1> QED BY <1>4 DEF Observed, ReadsTypes

-----------------------------------------------------------------------------
(* What a step does to its operation *)

Others(c) == \A d \in Callers \ {c} : op'[d] = op[d]

LEMMA OneOperation ==
    ASSUME ReadsTypes, NEW c \in Callers, NEW x \in Operation, op' = [op EXCEPT ![c] = x]
    PROVE  op' \in [Callers -> Operation] /\ op'[c] = x /\ Others(c)
  BY DEF ReadsTypes, Others

LEMMA PcEffect ==
    ASSUME ReadsTypes, NEW c \in Callers, NEW p \in PCs, op' = [op EXCEPT ![c].pc = p]
    PROVE  op' \in [Callers -> Operation] /\ op'[c] = [op[c] EXCEPT !.pc = p] /\ Others(c)
  <1>1. op[c] \in Operation
    BY DEF ReadsTypes
  <1>2. op' = [op EXCEPT ![c] = [op[c] EXCEPT !.pc = p]]
    BY DEF ReadsTypes
  <1>3. [op[c] EXCEPT !.pc = p] \in Operation
    BY <1>1, OperationUpdates
  <1> QED BY <1>2, <1>3, OneOperation

\* An operation that returns.
LEMMA ReturnsEffect ==
    ASSUME ReadsTypes, NEW c \in Callers, NEW next \in Operation, Returns(c, next)
    PROVE  /\ op' \in [Callers -> Operation] /\ Others(c)
           /\ op'[c].pc = "done" /\ ~ op'[c].token /\ op'[c].data = 0
           /\ op'[c].result = "served" =>
                /\ next.result = "served" /\ (op'[c].permitted <=> next.permitted)
                /\ next.data >= next.floor => op'[c].floor = 0
           /\ UNCHANGED caller
  <1>1. next.result \in Results
    BY DEF Operation
  <1>2. Ended(next, next.result) \in Operation /\ op' = [op EXCEPT ![c] = Ended(next, next.result)]
    BY <1>1, EndedOperation DEF Returns
  <1>3. op' \in [Callers -> Operation] /\ op'[c] = Ended(next, next.result) /\ Others(c)
    BY <1>2, OneOperation
  <1>4. UNCHANGED caller
    BY DEF Returns, Run
  <1> QED BY <1>1, <1>3, <1>4, EndedOperation

\* The slot is returned.
LEMMA ReleaseEffect ==
    ASSUME ReadsTypes, NEW c \in Callers, NEW next \in Operation, Release(c, next)
    PROVE  /\ op' \in [Callers -> Operation] /\ sched' \in [limit : Nat \ {0}, paused : BOOLEAN]
           /\ op'[c] = [next EXCEPT !.pc = "store"]
           /\ \A d \in Callers \ {c} :
                op'[d] = IF op[d].pc = "queued" THEN [op[d] EXCEPT !.pc = "acquire"] ELSE op[d]
  <1> DEFINE x == [next EXCEPT !.pc = "store"]
             ops == [op EXCEPT ![c] = x]
  <1>0. "store" \in PCs /\ "acquire" \in PCs
    BY DEF PCs
  <1>1. x \in Operation
    BY <1>0, OperationUpdates
  <1>11. x.pc = "store"
    BY DEF Operation
  <1>2. op' = Signalled(ops) /\ sched' = Observed(next.result)
    BY DEF Release
  <1>3. ops \in [Callers -> Operation] /\ ops[c] = x /\ \A d \in Callers \ {c} : ops[d] = op[d]
    BY <1>1 DEF ReadsTypes
  <1> HIDE DEF x, ops
  <1>4. \A d \in Callers : op'[d] = IF ops[d].pc = "queued" THEN [ops[d] EXCEPT !.pc = "acquire"] ELSE ops[d]
    BY <1>2 DEF Signalled
  <1>5. ASSUME NEW d \in Callers PROVE op'[d] \in Operation
    <2>1. ops[d] \in Operation
      BY <1>3
    <2>2. [ops[d] EXCEPT !.pc = "acquire"] \in Operation
      BY <1>0, <2>1, OperationUpdates
    <2> QED BY <1>4, <2>1, <2>2
  <1>6. op' = [d \in Callers |-> op'[d]]
    BY <1>2 DEF Signalled
  <1>7. op' \in [Callers -> Operation]
    BY <1>5, <1>6
  <1>8. sched' \in [limit : Nat \ {0}, paused : BOOLEAN]
    BY <1>2, LimitsKept DEF Operation
  <1>9. op'[c] = x
    BY <1>11, <1>3, <1>4
  <1> QED BY <1>3, <1>4, <1>7, <1>8, <1>9 DEF x

\* The cache's revision moves on.
LEMMA FencedEffect ==
    ASSUME NEW ops \in [Callers -> Operation]
    PROVE  /\ Fenced(ops) \in [Callers -> Operation]
           /\ \A d \in Callers : Fenced(ops)[d] = [ops[d] EXCEPT !.token = FALSE]
  <1>1. \A d \in Callers : [ops[d] EXCEPT !.token = FALSE] \in Operation
    BY OperationUpdates
  <1> QED BY <1>1 DEF Fenced

-----------------------------------------------------------------------------
(* What an operation may become *)

\* The new value x of an operation o keeps the invariant, in a step that
\* changes neither the watch nor the fence, the cluster or the permission.
Sound(x, o) ==
    /\ Running(x) => Running(o) /\ x.gen = o.gen /\ x.floor = o.floor
    /\ x.token => Running(x) /\ x.gen = fence /\ (Holds(x) => Fresh(x.data, x.gen))
    /\ x.pc \in {"store", "done"} /\ x.result = "served" => x.data >= x.floor
    /\ Running(x) /\ allowed => x.permitted
    /\ x.pc = "confirm" \/ (x.pc \in {"store", "done"} /\ x.result = "served") => x.permitted

\* The new value knows no more.
Weaker(x, o) ==
    /\ x.gen = o.gen /\ x.floor = o.floor /\ x.data = o.data /\ x.result = o.result
    /\ o.permitted => x.permitted
    /\ x.token => o.token
    /\ x.pc = o.pc \/ (o.pc = "queued" /\ x.pc = "acquire")

LEMMA WeakerIsSound ==
    ASSUME ReadsInv, NEW d \in Callers, NEW x, Weaker(x, op[d])
    PROVE  Sound(x, op[d])
  <1>1. Running(x) <=> Running(op[d])
    BY DEF Weaker, Running
  <1>2. Holds(x) <=> Holds(op[d])
    BY DEF Weaker, Holds
  <1>3. x.token => Running(x) /\ x.gen = fence /\ (Holds(x) => Fresh(x.data, x.gen))
    BY <1>1, <1>2 DEF ReadsInv, TokenFresh, Weaker
  <1>4. x.pc \in {"store", "done"} /\ x.result = "served" => x.data >= x.floor
    BY DEF ReadsInv, ReadFresh, Weaker
  <1>5. /\ Running(x) /\ allowed => x.permitted
        /\ x.pc = "confirm" \/ (x.pc \in {"store", "done"} /\ x.result = "served") => x.permitted
    BY <1>1 DEF ReadsInv, PermittedInv, Weaker
  <1> QED BY <1>1, <1>3, <1>4, <1>5 DEF Sound, Weaker

LEMMA OperationsKeep ==
    ASSUME ReadsTypes, ReadsInv, \A d \in Callers : Sound(op'[d], op[d]),
           UNCHANGED <<cluster, watch, fence, allowed>>
    PROVE  WatchBehind' /\ TokenFresh' /\ ReadFresh' /\ PermittedInv'
  <1>1. WatchBehind'
    BY DEF ReadsInv, WatchBehind, Sound, Running
  <1>2. TokenFresh'
    <2> SUFFICES ASSUME NEW c \in Callers, op'[c].token
                 PROVE  /\ Running(op'[c]) /\ op'[c].gen = fence
                        /\ Holds(op'[c]) => Fresh(op[c].data, op[c].gen)'
      BY DEF TokenFresh, Holds, Running
    <2>1. Running(op'[c]) /\ op'[c].gen = fence /\ (Holds(op'[c]) => Fresh(op'[c].data, op'[c].gen))
      BY DEF Sound
    <2>2. Holds(op'[c]) => Fresh(op[c].data, op[c].gen)'
      BY <2>1 DEF Fresh, Sound, Running
    <2> QED BY <2>1, <2>2
  <1>3. ReadFresh' /\ PermittedInv'
    BY DEF Sound, ReadFresh, PermittedInv, Running
  <1> QED BY <1>1, <1>2, <1>3

LEMMA PageKept ==
    ASSUME ReadsTypes, ReadsInv, \A d \in Callers : Sound(op'[d], op[d]),
           UNCHANGED <<watch, fence>>, page' = page \/ page' = None
    PROVE  PageFresh'
  BY DEF ReadsInv, PageFresh, Fresh, Sound, Running

\* A step of one operation that neither takes nor returns a slot.
LEMMA OneKeeps ==
    ASSUME ReadsTypes, ReadsInv, NEW c \in Callers, Others(c), Sound(op'[c], op[c]),
           op[c].pc \notin {"off", "reading"}, op'[c].pc # "queued",
           UNCHANGED <<cluster, watch, fence, allowed, caller>>
    PROVE  /\ WatchBehind' /\ TokenFresh' /\ ReadFresh' /\ PermittedInv' /\ IdleOff' /\ WaitersHaveSignal'
           /\ page' = page \/ page' = None => PageFresh'
  <1>1. \A d \in Callers : Sound(op'[d], op[d])
    <2>1. ASSUME NEW d \in Callers \ {c} PROVE Sound(op'[d], op[d])
      <3>1. op'[d] = op[d]
        BY DEF Others
      <3>2. Weaker(op'[d], op[d])
        BY <3>1 DEF Weaker
      <3> QED BY <3>2, WeakerIsSound
    <2> QED BY <2>1
  <1>2. WatchBehind' /\ TokenFresh' /\ ReadFresh' /\ PermittedInv'
    BY <1>1, OperationsKeep
  <1>3. page' = page \/ page' = None => PageFresh'
    BY <1>1, PageKept
  <1>4. IdleOff'
    BY DEF ReadsInv, IdleOff, Others
  <1>5. WaitersHaveSignal'
    BY DEF ReadsInv, WaitersHaveSignal, Queued, Active, Others
  <1> QED BY <1>2, <1>3, <1>4, <1>5

LEMMA LoadKeeps ==
    ASSUME ReadsTypes, ReadsInv, NEW c \in Callers, Load(c)
    PROVE  ReadsTypes' /\ ReadsInv'
  <1> DEFINE x == IF Usable(op[c].gen)
                  THEN [op[c] EXCEPT !.pc = "authorize", !.data = page.data, !.token = TRUE]
                  ELSE [op[c] EXCEPT !.pc = "begin"]
  <1>1. op[c] \in Operation /\ op[c].pc = "load"
    BY DEF ReadsTypes, Load, Step
  <1>2. Usable(op[c].gen) => page.data \in Nat /\ fence = op[c].gen /\ page.gen = op[c].gen /\ page # None
    BY DEF Usable, ReadsTypes
  <1>3. x \in Operation
    BY <1>1, <1>2, OperationUpdates DEF PCs
  <1>4. op' = [op EXCEPT ![c] = x] /\ UNCHANGED <<caller, cluster, generation, watch, page, fence, sched, allowed>>
    BY DEF Load, Step, vars
  <1>5. op' \in [Callers -> Operation] /\ op'[c] = x /\ Others(c)
    BY <1>3, <1>4, OneOperation
  <1>6. ReadsTypes'
    BY <1>4, <1>5 DEF ReadsTypes
  <1>7. /\ x.pc = (IF Usable(op[c].gen) THEN "authorize" ELSE "begin")
        /\ x.gen = op[c].gen /\ x.floor = op[c].floor /\ x.permitted = op[c].permitted
        /\ x.token = (IF Usable(op[c].gen) THEN TRUE ELSE op[c].token)
        /\ x.data = (IF Usable(op[c].gen) THEN page.data ELSE op[c].data)
    BY <1>1 DEF Operation
  <1> HIDE DEF x
  <1>8. Sound(x, op[c])
    BY <1>1, <1>2, <1>7 DEF Sound, Running, Holds, ReadsInv, TokenFresh, PermittedInv, PageFresh
  <1>9. op[c].pc \notin {"off", "reading"} /\ op'[c].pc # "queued" /\ Sound(op'[c], op[c])
    BY <1>1, <1>5, <1>7, <1>8
  <1> QED BY <1>4, <1>5, <1>6, <1>9, OneKeeps DEF ReadsInv

LEMMA BeginKeeps ==
    ASSUME ReadsTypes, ReadsInv, NEW c \in Callers, Begin(c)
    PROVE  ReadsTypes' /\ ReadsInv'
  <1> DEFINE snapshot == fence = op[c].gen /\ Covered(op[c].gen) /\ allowed
             x == IF fence # op[c].gen THEN [op[c] EXCEPT !.pc = "acquire", !.token = FALSE]
                  ELSE IF Covered(op[c].gen) /\ allowed
                  THEN [op[c] EXCEPT !.pc = "store", !.token = TRUE, !.data = watch.version, !.result = "served"]
                  ELSE [op[c] EXCEPT !.pc = "acquire", !.token = TRUE]
  <1>1. op[c] \in Operation /\ op[c].pc = "begin" /\ watch.version \in Nat
    BY DEF ReadsTypes, Begin, Step, Worker
  <1>3. x \in Operation
    BY <1>1, OperationUpdates DEF PCs
  <1>4. op' = [op EXCEPT ![c] = x] /\ UNCHANGED <<caller, cluster, generation, watch, page, fence, sched, allowed>>
    BY DEF Begin, Step, vars
  <1>5. op' \in [Callers -> Operation] /\ op'[c] = x /\ Others(c)
    BY <1>3, <1>4, OneOperation
  <1>6. ReadsTypes'
    BY <1>4, <1>5 DEF ReadsTypes
  <1>7. /\ x.pc = (IF snapshot THEN "store" ELSE "acquire")
        /\ x.gen = op[c].gen /\ x.floor = op[c].floor /\ x.permitted = op[c].permitted
        /\ x.token = (fence = op[c].gen)
        /\ snapshot => x.data = watch.version
    BY <1>1 DEF Operation
  <1> HIDE DEF x
  <1>8. snapshot => Fresh(watch.version, op[c].gen) /\ watch.version >= op[c].floor
    BY <1>1 DEF ReadsInv, WatchBehind, Fresh, Covered, Running, ReadsTypes, Worker
  <1>9. Sound(x, op[c])
    BY <1>1, <1>7, <1>8 DEF Sound, Running, Holds, ReadsInv, PermittedInv
  <1>10. op[c].pc \notin {"off", "reading"} /\ op'[c].pc # "queued" /\ Sound(op'[c], op[c])
    BY <1>1, <1>5, <1>7, <1>9
  <1> QED BY <1>4, <1>5, <1>6, <1>10, OneKeeps DEF ReadsInv

\* An operation that returns what it may.
LEMMA ReturnsKeeps ==
    ASSUME ReadsTypes, ReadsInv, NEW c \in Callers, NEW next \in Operation, Returns(c, next),
           op[c].pc \notin {"off", "reading"},
           next.result = "served" => next.data >= next.floor /\ next.permitted,
           UNCHANGED <<cluster, generation, watch, fence, sched, allowed>>
    PROVE  /\ op' \in [Callers -> Operation]
           /\ WatchBehind' /\ TokenFresh' /\ ReadFresh' /\ PermittedInv' /\ IdleOff' /\ WaitersHaveSignal'
           /\ page' = page \/ page' = None => PageFresh'
  <1>1. /\ op' \in [Callers -> Operation] /\ Others(c)
        /\ op'[c].pc = "done" /\ ~ op'[c].token /\ op'[c].data = 0
        /\ op'[c].result = "served" =>
             /\ next.result = "served" /\ (op'[c].permitted <=> next.permitted)
             /\ next.data >= next.floor => op'[c].floor = 0
        /\ UNCHANGED caller
    BY ReturnsEffect
  <1>2. Sound(op'[c], op[c]) /\ op'[c].pc # "queued"
    BY <1>1 DEF Sound, Running
  <1> QED BY <1>1, <1>2, OneKeeps

LEMMA ConfirmKeeps ==
    ASSUME ReadsTypes, ReadsInv, NEW c \in Callers, Confirm(c)
    PROVE  ReadsTypes' /\ ReadsInv'
  <1>1. op[c] \in Operation /\ op[c].pc = "confirm" /\ UNCHANGED <<cluster, generation, watch, page, fence, sched, allowed>>
    BY DEF ReadsTypes, Confirm
  <1>2. CASE Usable(op[c].gen) /\ op[c].token /\ Covered(op[c].gen)
    <2> DEFINE next == [op[c] EXCEPT !.result = "served"]
    <2>1. Returns(c, next)
      BY <1>2 DEF Confirm
    <2>2. next \in Operation
      BY <1>1, OperationUpdates DEF Results
    <2>3. next.data = op[c].data /\ next.floor = op[c].floor /\ next.permitted = op[c].permitted
      BY <1>1 DEF Operation
    <2>4. op[c].data >= op[c].floor /\ op[c].permitted
      BY <1>1, <1>2 DEF ReadsInv, TokenFresh, Fresh, Holds, Running, PermittedInv
    <2> HIDE DEF next
    <2>5. /\ op' \in [Callers -> Operation]
          /\ WatchBehind' /\ TokenFresh' /\ ReadFresh' /\ PermittedInv' /\ IdleOff' /\ WaitersHaveSignal' /\ PageFresh'
      BY <1>1, <2>1, <2>2, <2>3, <2>4, ReturnsKeeps
    <2> QED BY <1>1, <2>5 DEF ReadsTypes, ReadsInv
  <1>3. CASE ~ (Usable(op[c].gen) /\ op[c].token /\ Covered(op[c].gen))
    <2>1. op' = [op EXCEPT ![c].pc = "begin"] /\ UNCHANGED caller
      BY <1>3 DEF Confirm, vars
    <2>2. op' \in [Callers -> Operation] /\ op'[c] = [op[c] EXCEPT !.pc = "begin"] /\ Others(c)
      BY <2>1, PcEffect DEF PCs
    <2>3. /\ op'[c].pc = "begin" /\ op'[c].gen = op[c].gen /\ op'[c].floor = op[c].floor
          /\ op'[c].permitted = op[c].permitted /\ op'[c].token = op[c].token
      BY <1>1, <2>2 DEF Operation
    <2>4. Sound(op'[c], op[c])
      BY <1>1, <2>3 DEF Sound, Running, Holds, ReadsInv, TokenFresh, PermittedInv
    <2>5. ReadsInv'
      BY <1>1, <2>1, <2>2, <2>3, <2>4, OneKeeps DEF ReadsInv
    <2> QED BY <1>1, <2>2, <2>5 DEF ReadsTypes
  <1> QED BY <1>2, <1>3

LEMMA AbandonKeeps ==
    ASSUME ReadsTypes, ReadsInv, NEW c \in Callers, Abandon(c)
    PROVE  ReadsTypes' /\ ReadsInv'
  <1> DEFINE next == [op[c] EXCEPT !.result = "cancelled"]
  <1>1. op[c] \in Operation /\ op[c].pc \notin {"off", "reading"} /\ UNCHANGED <<cluster, generation, watch, page, fence, sched, allowed>>
    BY DEF ReadsTypes, Abandon
  <1>2. Returns(c, next)
    BY DEF Abandon
  <1>3. next \in Operation
    BY <1>1, OperationUpdates DEF Results
  <1>4. next.result # "served"
    BY <1>1 DEF Operation
  <1> HIDE DEF next
  <1>5. /\ op' \in [Callers -> Operation]
        /\ WatchBehind' /\ TokenFresh' /\ ReadFresh' /\ PermittedInv' /\ IdleOff' /\ WaitersHaveSignal' /\ PageFresh'
    BY <1>1, <1>2, <1>3, <1>4, ReturnsKeeps
  <1> QED BY <1>1, <1>5 DEF ReadsTypes, ReadsInv

LEMMA StoreKeeps ==
    ASSUME ReadsTypes, ReadsInv, NEW c \in Callers, Store(c)
    PROVE  ReadsTypes' /\ ReadsInv'
  <1>1. op[c] \in Operation /\ op[c].pc = "store" /\ UNCHANGED <<cluster, generation, watch, fence, sched, allowed>> /\ Returns(c, op[c])
    BY DEF ReadsTypes, Store
  <1>2. op[c].result = "served" => op[c].data >= op[c].floor /\ op[c].permitted
    BY <1>1 DEF ReadsInv, ReadFresh, PermittedInv
  <1>3. /\ op' \in [Callers -> Operation]
        /\ WatchBehind' /\ TokenFresh' /\ ReadFresh' /\ PermittedInv' /\ IdleOff' /\ WaitersHaveSignal'
        /\ page' = page \/ page' = None => PageFresh'
    BY <1>1, <1>2, ReturnsKeeps
  <1>4. CASE ~ (op[c].result = "served" /\ op[c].token)
    <2>1. page' = page
      BY <1>4 DEF Store
    <2> QED BY <1>1, <1>3, <2>1 DEF ReadsTypes, ReadsInv
  <1>5. CASE op[c].result = "served" /\ op[c].token
    <2>1. page' = [gen |-> op[c].gen, data |-> op[c].data]
      BY <1>5 DEF Store, Kept
    <2>2. op[c].gen = fence /\ Fresh(op[c].data, op[c].gen)
      BY <1>1, <1>5 DEF ReadsInv, TokenFresh, Holds
    <2>3. page'.gen = fence /\ page'.data = op[c].data /\ page' \in [gen : Nat, data : Nat]
      BY <1>1, <2>1, <2>2, OperationUpdates
    <2>4. \A d \in Callers : Running(op'[d]) => op'[d] = op[d]
      <3>1. Others(c) /\ op'[c].pc = "done"
        BY <1>1, ReturnsEffect
      <3> QED BY <3>1 DEF Others, Running
    <2>5. PageFresh'
      BY <1>1, <2>2, <2>3, <2>4 DEF PageFresh, Fresh, Running
    <2> QED BY <1>1, <1>3, <2>3, <2>5 DEF ReadsTypes, ReadsInv
  <1> QED BY <1>4, <1>5

LEMMA AcquireKeeps ==
    ASSUME ReadsTypes, ReadsInv, NEW c \in Callers, Acquire(c)
    PROVE  ReadsTypes' /\ ReadsInv'
  <1> DEFINE free == Cardinality(Active) < sched.limit
             turned == c \in Prefetch /\ (Deferred \/ ~ free)
             p == IF free THEN "reading" ELSE "queued"
  <1>1. op[c] \in Operation /\ op[c].pc = "acquire" /\ UNCHANGED <<cluster, generation, watch, page, fence, sched, allowed>>
    BY DEF ReadsTypes, Acquire
  <1>2. CASE turned
    <2> DEFINE next == [op[c] EXCEPT !.result = "deferred"]
    <2>1. Returns(c, next)
      BY <1>2 DEF Acquire
    <2>2. next \in Operation
      BY <1>1, OperationUpdates DEF Results
    <2>3. next.result # "served"
      BY <1>1 DEF Operation
    <2> HIDE DEF next, turned
    <2>5. /\ op' \in [Callers -> Operation]
          /\ WatchBehind' /\ TokenFresh' /\ ReadFresh' /\ PermittedInv' /\ IdleOff' /\ WaitersHaveSignal' /\ PageFresh'
      BY <1>1, <2>1, <2>2, <2>3, ReturnsKeeps
    <2> QED BY <1>1, <2>5 DEF ReadsTypes, ReadsInv
  <1>3. CASE ~ turned
    <2>1. op' = [op EXCEPT ![c].pc = p] /\ UNCHANGED caller
      BY <1>3 DEF Acquire, vars
    <2>2. p \in PCs
      BY DEF PCs
    <2>3. op' \in [Callers -> Operation] /\ op'[c] = [op[c] EXCEPT !.pc = p] /\ Others(c)
      BY <2>1, <2>2, PcEffect
    <2>4. ~ free => \E d \in Callers : op[d].pc = "reading"
      <3>1. Active = {} => Cardinality(Active) = 0
        BY FS_EmptySet
      <3>2. sched.limit \in Nat /\ sched.limit > 0
        BY DEF ReadsTypes
      <3>3. Active # {} => \E d \in Callers : op[d].pc = "reading"
        BY DEF Active
      <3> QED BY <3>1, <3>2, <3>3
    <2>5. p \in {"reading", "queued"} /\ (p = "queued" => \E d \in Callers : op[d].pc = "reading")
      BY <2>4
    <2> HIDE DEF p, turned, free
    <2>6. /\ op'[c].pc = p /\ op'[c].gen = op[c].gen /\ op'[c].floor = op[c].floor
          /\ op'[c].permitted = op[c].permitted /\ op'[c].token = op[c].token
      BY <1>1, <2>3 DEF Operation
    <2>7. Sound(op'[c], op[c])
      BY <1>1, <2>5, <2>6 DEF Sound, Running, Holds, ReadsInv, TokenFresh, PermittedInv
    <2>8. \A d \in Callers : Sound(op'[d], op[d])
      <3>1. ASSUME NEW d \in Callers \ {c} PROVE Sound(op'[d], op[d])
        <4>1. Weaker(op'[d], op[d])
          BY <2>3 DEF Weaker, Others
        <4> QED BY <4>1, WeakerIsSound
      <3> QED BY <2>7, <3>1
    <2>9. WatchBehind' /\ TokenFresh' /\ ReadFresh' /\ PermittedInv'
      BY <1>1, <2>8, OperationsKeep
    <2>10. PageFresh'
      BY <1>1, <2>8, PageKept
    <2>11. IdleOff'
      BY <1>1, <2>1, <2>3, <2>6 DEF ReadsInv, IdleOff, Others
    <2>12. WaitersHaveSignal'
      <3>1. \E d \in Callers : op'[d].pc = "reading"
        BY <1>1, <2>3, <2>5, <2>6 DEF Others
      <3> QED BY <3>1 DEF WaitersHaveSignal, Active
    <2> QED BY <1>1, <2>3, <2>9, <2>10, <2>11, <2>12 DEF ReadsTypes, ReadsInv
  <1> QED BY <1>2, <1>3

\* A step in which other operations only lose tokens or are signalled.
LEMMA WeakKeeps ==
    ASSUME ReadsTypes, ReadsInv, NEW c \in Callers, \A d \in Callers \ {c} : Weaker(op'[d], op[d]), Sound(op'[c], op[c]),
           UNCHANGED <<cluster, watch, fence, allowed>>, page' = page \/ page' = None
    PROVE  WatchBehind' /\ TokenFresh' /\ ReadFresh' /\ PermittedInv' /\ PageFresh'
  <1>1. \A d \in Callers : Sound(op'[d], op[d])
    BY WeakerIsSound
  <1> QED BY <1>1, OperationsKeep, PageKept

LEMMA ReleaseKeeps ==
    ASSUME ReadsTypes, ReadsInv, NEW c \in Callers, NEW next \in Operation, Release(c, next),
           op[c].pc = "reading",
           next.gen = op[c].gen /\ next.floor = op[c].floor /\ next.token = op[c].token /\ next.permitted = op[c].permitted,
           next.result = "served" => next.data = cluster /\ allowed,
           UNCHANGED <<caller, cluster, generation, watch, page, fence, allowed>>
    PROVE  ReadsTypes' /\ ReadsInv'
  <1>1. /\ op' \in [Callers -> Operation] /\ sched' \in [limit : Nat \ {0}, paused : BOOLEAN]
        /\ op'[c] = [next EXCEPT !.pc = "store"]
        /\ \A d \in Callers \ {c} :
             op'[d] = IF op[d].pc = "queued" THEN [op[d] EXCEPT !.pc = "acquire"] ELSE op[d]
    BY ReleaseEffect
  <1>2. /\ op'[c].pc = "store" /\ op'[c].gen = op[c].gen /\ op'[c].floor = op[c].floor /\ op'[c].token = op[c].token
        /\ op'[c].permitted = op[c].permitted /\ op'[c].result = next.result /\ op'[c].data = next.data
    BY <1>1 DEF Operation
  <1>3. ASSUME NEW d \in Callers \ {c}
        PROVE  Weaker(op'[d], op[d]) /\ op'[d].pc # "queued" /\ (op[d].pc = "off" => op'[d].pc = "off")
    <2>1. op[d] \in Operation
      BY DEF ReadsTypes
    <2>2. CASE op[d].pc = "queued"
      <3>1. op'[d] = [op[d] EXCEPT !.pc = "acquire"]
        BY <1>1, <2>2
      <3>2. /\ op'[d].pc = "acquire" /\ op'[d].gen = op[d].gen /\ op'[d].floor = op[d].floor /\ op'[d].data = op[d].data
            /\ op'[d].result = op[d].result /\ op'[d].permitted = op[d].permitted /\ op'[d].token = op[d].token
        BY <2>1, <3>1 DEF Operation
      <3> QED BY <2>2, <3>2 DEF Weaker
    <2>3. CASE op[d].pc # "queued"
      BY <1>1, <2>3 DEF Weaker
    <2> QED BY <2>2, <2>3
  <1>4. Fresh(cluster, op[c].gen)
    BY DEF ReadsInv, WatchBehind, Fresh, ReadsTypes, Worker
  <1>5. cluster >= op[c].floor /\ (allowed => op[c].permitted)
    BY DEF ReadsInv, WatchBehind, PermittedInv, Running, ReadsTypes, Operation
  <1>6. Sound(op'[c], op[c])
    BY <1>2, <1>4, <1>5 DEF Sound, Running, Holds, ReadsInv, TokenFresh
  <1>7. WatchBehind' /\ TokenFresh' /\ ReadFresh' /\ PermittedInv' /\ PageFresh'
    BY <1>3, <1>6, WeakKeeps
  <1>8. IdleOff'
    BY <1>2, <1>3 DEF ReadsInv, IdleOff
  <1>9. WaitersHaveSignal'
    BY <1>2, <1>3 DEF WaitersHaveSignal, Queued
  <1> QED BY <1>1, <1>7, <1>8, <1>9 DEF ReadsTypes, ReadsInv

\* The three ends of a LIST.
LEMMA ReadKeeps ==
    ASSUME ReadsTypes, ReadsInv, NEW c \in Callers, Read(c) \/ ReadCancelled(c) \/ ReadFails(c)
    PROVE  ReadsTypes' /\ ReadsInv'
  <1>1. op[c] \in Operation /\ op[c].pc = "reading" /\ UNCHANGED <<caller, cluster, generation, watch, page, fence, allowed>>
        /\ cluster \in Nat
    BY DEF ReadsTypes, Read, ReadCancelled, ReadFails, vars
  <1>2. ASSUME NEW r \in {"forbidden", "cancelled", "failed"}, Release(c, [op[c] EXCEPT !.result = r])
        PROVE  ReadsTypes' /\ ReadsInv'
    <2> DEFINE next == [op[c] EXCEPT !.result = r]
    <2>1. next \in Operation
      BY <1>1, OperationUpdates DEF Results
    <2>2. /\ next.gen = op[c].gen /\ next.floor = op[c].floor /\ next.token = op[c].token /\ next.permitted = op[c].permitted
          /\ next.result = r
      BY <1>1 DEF Operation
    <2>3. Release(c, next)
      BY <1>2
    <2> HIDE DEF next
    <2> QED BY <1>1, <2>1, <2>2, <2>3, ReleaseKeeps
  <1>3. ASSUME allowed, Release(c, [op[c] EXCEPT !.result = "served", !.data = cluster])
        PROVE  ReadsTypes' /\ ReadsInv'
    <2> DEFINE next == [op[c] EXCEPT !.result = "served", !.data = cluster]
    <2>1. next \in Operation
      BY <1>1, OperationUpdates
    <2>2. /\ next.gen = op[c].gen /\ next.floor = op[c].floor /\ next.token = op[c].token /\ next.permitted = op[c].permitted
          /\ next.data = cluster
      BY <1>1 DEF Operation
    <2>3. Release(c, next)
      BY <1>3
    <2> HIDE DEF next
    <2> QED BY <1>1, <1>3, <2>1, <2>2, <2>3, ReleaseKeeps
  <1> QED BY <1>2, <1>3 DEF Read, ReadCancelled, ReadFails

-----------------------------------------------------------------------------
(* The cache is invalidated or moves to another generation *)

\* Every token is taken; the operation of c may change besides.
LEMMA InvalidatedEffect ==
    ASSUME ReadsTypes, NEW ops \in [Callers -> Operation], NEW g, Invalidated(g, ops)
    PROVE  /\ op' \in [Callers -> Operation]
           /\ page' = page \/ page' = None
           /\ \A d \in Callers :
                /\ op'[d].pc = ops[d].pc /\ op'[d].gen = ops[d].gen /\ op'[d].floor = ops[d].floor
                /\ op'[d].data = ops[d].data /\ op'[d].result = ops[d].result /\ op'[d].permitted = ops[d].permitted
                /\ op'[d].token => ops[d].token
           /\ fence = g => page' = None /\ \A d \in Callers : ~ op'[d].token
  <1>1. CASE fence = g
    <2>1. page' = None /\ op' = Fenced(ops)
      BY <1>1 DEF Invalidated
    <2>2. op' \in [Callers -> Operation] /\ \A d \in Callers : op'[d] = [ops[d] EXCEPT !.token = FALSE]
      BY <2>1, FencedEffect
    <2>3. ASSUME NEW d \in Callers
          PROVE  /\ op'[d].pc = ops[d].pc /\ op'[d].gen = ops[d].gen /\ op'[d].floor = ops[d].floor
                 /\ op'[d].data = ops[d].data /\ op'[d].result = ops[d].result /\ op'[d].permitted = ops[d].permitted
                 /\ op'[d].token = FALSE
      <3>1. ops[d] \in Operation /\ op'[d] = [ops[d] EXCEPT !.token = FALSE]
        BY <2>2
      <3> QED BY <3>1 DEF Operation
    <2> QED BY <2>1, <2>2, <2>3
  <1>2. CASE fence # g
    BY <1>2 DEF Invalidated
  <1> QED BY <1>1, <1>2

\* An operation that begins anew, or has ended.
LEMMA InvalidatedKeeps ==
    ASSUME ReadsTypes, ReadsInv, NEW c \in Callers, NEW x \in Operation, NEW g,
           Invalidated(g, [op EXCEPT ![c] = x]), Sound(x, op[c]), x.pc \in {"begin", "done"},
           op[c].pc \notin {"off", "reading"}, UNCHANGED <<caller, cluster, generation, watch, fence, sched, allowed>>
    PROVE  ReadsTypes' /\ ReadsInv'
  <1> DEFINE ops == [op EXCEPT ![c] = x]
  <1>1. ops \in [Callers -> Operation] /\ ops[c] = x /\ \A d \in Callers \ {c} : ops[d] = op[d]
    BY DEF ReadsTypes
  <1>2. Invalidated(g, ops)
    OBVIOUS
  <1> HIDE DEF ops
  <1>3. /\ op' \in [Callers -> Operation]
        /\ page' = page \/ page' = None
        /\ \A d \in Callers :
             /\ op'[d].pc = ops[d].pc /\ op'[d].gen = ops[d].gen /\ op'[d].floor = ops[d].floor
             /\ op'[d].data = ops[d].data /\ op'[d].result = ops[d].result /\ op'[d].permitted = ops[d].permitted
             /\ op'[d].token => ops[d].token
    BY <1>1, <1>2, InvalidatedEffect
  <1>4. \A d \in Callers \ {c} : Weaker(op'[d], op[d])
    BY <1>1, <1>3 DEF Weaker
  <1>5. /\ op'[c].pc = x.pc /\ op'[c].gen = x.gen /\ op'[c].floor = x.floor /\ op'[c].data = x.data
        /\ op'[c].result = x.result /\ op'[c].permitted = x.permitted /\ (op'[c].token => x.token)
    BY <1>1, <1>3
  <1>6. Sound(op'[c], op[c])
    BY <1>5 DEF Sound, Running, Holds
  <1>7. WatchBehind' /\ TokenFresh' /\ ReadFresh' /\ PermittedInv' /\ PageFresh'
    BY <1>3, <1>4, <1>6, WeakKeeps
  <1>8. IdleOff'
    BY <1>4, <1>5 DEF ReadsInv, IdleOff, Weaker
  <1>9. WaitersHaveSignal'
    BY <1>1, <1>3, <1>5 DEF ReadsInv, WaitersHaveSignal, Queued, Active
  <1> QED BY <1>3, <1>7, <1>8, <1>9 DEF ReadsTypes, ReadsInv

LEMMA ReauthorizeKeeps ==
    ASSUME ReadsTypes, ReadsInv, NEW c \in Callers, Reauthorize(c)
    PROVE  ReadsTypes' /\ ReadsInv'
  <1>1. op[c] \in Operation /\ op[c].pc = "authorize" /\ UNCHANGED <<caller, cluster, generation, watch, fence, sched, allowed>>
    BY DEF ReadsTypes, Reauthorize, vars
  <1>2. CASE allowed
    <2>1. op' = [op EXCEPT ![c].pc = "confirm"] /\ UNCHANGED page
      BY <1>2 DEF Reauthorize
    <2>2. op' \in [Callers -> Operation] /\ op'[c] = [op[c] EXCEPT !.pc = "confirm"] /\ Others(c)
      BY <2>1, PcEffect DEF PCs
    <2>3. /\ op'[c].pc = "confirm" /\ op'[c].gen = op[c].gen /\ op'[c].floor = op[c].floor /\ op'[c].data = op[c].data
          /\ op'[c].permitted = op[c].permitted /\ op'[c].token = op[c].token
      BY <1>1, <2>2 DEF Operation
    <2>4. Sound(op'[c], op[c])
      BY <1>1, <1>2, <2>3 DEF Sound, Running, Holds, ReadsInv, TokenFresh, PermittedInv
    <2>5. ReadsInv'
      BY <1>1, <2>1, <2>2, <2>3, <2>4, OneKeeps DEF ReadsInv
    <2> QED BY <1>1, <2>1, <2>2, <2>5 DEF ReadsTypes
  <1>3. CASE ~ allowed
    <2> DEFINE x == [op[c] EXCEPT !.pc = "begin"]
    <2>1. [op EXCEPT ![c].pc = "begin"] = [op EXCEPT ![c] = x]
      BY DEF ReadsTypes
    <2>2. Invalidated(op[c].gen, [op EXCEPT ![c] = x])
      BY <1>3, <2>1 DEF Reauthorize
    <2>3. x \in Operation
      BY <1>1, OperationUpdates DEF PCs
    <2>4. /\ x.pc = "begin" /\ x.gen = op[c].gen /\ x.floor = op[c].floor
          /\ x.permitted = op[c].permitted /\ x.token = op[c].token
      BY <1>1 DEF Operation
    <2> HIDE DEF x
    <2>5. Sound(x, op[c])
      BY <1>1, <2>4 DEF Sound, Running, Holds, ReadsInv, TokenFresh, PermittedInv
    <2> QED BY <1>1, <2>2, <2>3, <2>4, <2>5, InvalidatedKeeps
  <1> QED BY <1>2, <1>3

LEMMA StoreForbiddenKeeps ==
    ASSUME ReadsTypes, ReadsInv, NEW c \in Callers, StoreForbidden(c)
    PROVE  ReadsTypes' /\ ReadsInv'
  <1> DEFINE x == Ended(op[c], "forbidden")
  <1>1. op[c] \in Operation /\ op[c].pc = "store" /\ UNCHANGED <<caller, cluster, generation, watch, fence, sched, allowed>>
    BY DEF ReadsTypes, StoreForbidden, Run
  <1>2. Invalidated(op[c].gen, [op EXCEPT ![c] = x])
    BY DEF StoreForbidden, ReadsTypes
  <1>3. x \in Operation /\ x.pc = "done" /\ ~ x.token /\ x.result # "served"
    BY <1>1, EndedOperation DEF Results
  <1> HIDE DEF x
  <1>4. Sound(x, op[c])
    BY <1>3 DEF Sound, Running
  <1> QED BY <1>1, <1>2, <1>3, <1>4, InvalidatedKeeps

-----------------------------------------------------------------------------
(* The watch, the selection and the cluster *)

LEMMA WorkerInvalidatesKeeps ==
    ASSUME ReadsTypes, ReadsInv, WorkerInvalidates
    PROVE  ReadsTypes' /\ ReadsInv'
  <1>1. /\ Invalidated(watch.gen, op) /\ op \in [Callers -> Operation] /\ watch \in Worker /\ watch.pc = "applied"
        /\ watch' = [watch EXCEPT !.pc = "fenced"] /\ UNCHANGED <<caller, cluster, generation, fence, sched, allowed>>
    BY DEF WorkerInvalidates, ReadsTypes, vars
  <1>2. /\ op' \in [Callers -> Operation]
        /\ page' = page \/ page' = None
        /\ \A d \in Callers :
             /\ op'[d].pc = op[d].pc /\ op'[d].gen = op[d].gen /\ op'[d].floor = op[d].floor
             /\ op'[d].data = op[d].data /\ op'[d].result = op[d].result /\ op'[d].permitted = op[d].permitted
             /\ op'[d].token => op[d].token
        /\ fence = watch.gen => page' = None /\ \A d \in Callers : ~ op'[d].token
    BY <1>1, InvalidatedEffect
  <1>3. watch' \in Worker /\ watch'.gen = watch.gen /\ watch'.version = watch.version /\ watch'.told = watch.told /\ watch'.pc = "fenced"
    BY <1>1 DEF Worker
  <1>4. ReadsTypes'
    BY <1>1, <1>2, <1>3 DEF ReadsTypes
  <1>5. WatchBehind'
    BY <1>1, <1>2, <1>3 DEF ReadsInv, WatchBehind, Running
  <1>6. PageFresh'
    BY <1>1, <1>2, <1>3 DEF ReadsInv, PageFresh, Fresh, Running
  <1>7. TokenFresh'
    BY <1>1, <1>2, <1>3 DEF ReadsInv, TokenFresh, Fresh, Running, Holds
  <1>8. ReadFresh' /\ PermittedInv' /\ IdleOff'
    BY <1>1, <1>2 DEF ReadsInv, ReadFresh, PermittedInv, IdleOff, Running
  <1>9. WaitersHaveSignal'
    BY <1>2 DEF ReadsInv, WaitersHaveSignal, Queued, Active
  <1> QED BY <1>4, <1>5, <1>6, <1>7, <1>8, <1>9 DEF ReadsInv

\* The operations stay as they are.
LEMMA StillKeeps ==
    ASSUME ReadsInv, UNCHANGED <<op, allowed, caller>>
    PROVE  ReadFresh' /\ PermittedInv' /\ IdleOff' /\ WaitersHaveSignal'
  BY DEF ReadsInv, ReadFresh, PermittedInv, IdleOff, WaitersHaveSignal, Queued, Active, Running

LEMMA WorkerStartsKeeps ==
    ASSUME ReadsTypes, ReadsInv, WorkerStarts
    PROVE  ReadsTypes' /\ ReadsInv'
  <1>1. /\ watch' = [gen |-> generation, version |-> cluster, told |-> 0, pc |-> "applied"]
        /\ UNCHANGED <<caller, cluster, generation, page, fence, sched, allowed, op>>
    BY DEF WorkerStarts, vars
  <1>2. watch' \in Worker /\ watch'.gen = generation /\ watch'.version = cluster /\ watch'.told = 0 /\ watch'.pc = "applied"
    BY <1>1 DEF ReadsTypes, Worker
  <1>3. ReadsTypes'
    BY <1>1, <1>2 DEF ReadsTypes
  <1>4. WatchBehind'
    BY <1>1, <1>2 DEF ReadsInv, WatchBehind, Running, ReadsTypes
  <1>5. PageFresh'
    BY <1>1, <1>2 DEF ReadsInv, PageFresh, Fresh, Running, ReadsTypes
  <1>6. TokenFresh'
    BY <1>1, <1>2 DEF ReadsInv, TokenFresh, Fresh, Running, Holds, ReadsTypes, Operation
  <1> QED BY <1>1, <1>3, <1>4, <1>5, <1>6, StillKeeps DEF ReadsInv

LEMMA WorkerAppliesKeeps ==
    ASSUME ReadsTypes, ReadsInv, WorkerApplies
    PROVE  ReadsTypes' /\ ReadsInv'
  <1>1. /\ watch' = [watch EXCEPT !.version = @ + 1, !.pc = "applied"] /\ watch \in Worker /\ watch.version < cluster
        /\ watch.pc = "live" /\ UNCHANGED <<caller, cluster, generation, page, fence, sched, allowed, op>>
    BY DEF WorkerApplies, vars, ReadsTypes
  <1> DEFINE n == watch.version + 1
  <1>0. n \in Nat /\ watch' = [watch EXCEPT !.version = n, !.pc = "applied"]
    BY <1>1 DEF Worker
  <1> HIDE DEF n
  <1>01. watch' \in Worker /\ watch'.gen = watch.gen /\ watch'.version = n /\ watch'.told = watch.told /\ watch'.pc = "applied"
    BY <1>0, <1>1 DEF Worker
  <1>2. watch' \in Worker /\ watch'.gen = watch.gen /\ watch'.version = watch.version + 1 /\ watch'.told = watch.told /\ watch'.pc = "applied"
    BY <1>01 DEF n
  <1>3. ReadsTypes'
    BY <1>1, <1>2 DEF ReadsTypes
  <1>4. WatchBehind'
    BY <1>1, <1>2 DEF ReadsInv, WatchBehind, Running, ReadsTypes, Worker, Operation
  <1>5. PageFresh'
    BY <1>1, <1>2 DEF ReadsInv, PageFresh, Fresh, Running
  <1>6. TokenFresh'
    BY <1>1, <1>2 DEF ReadsInv, TokenFresh, Fresh, Running, Holds
  <1> QED BY <1>1, <1>3, <1>4, <1>5, <1>6, StillKeeps DEF ReadsInv

LEMMA WorkerBroadcastsKeeps ==
    ASSUME ReadsTypes, ReadsInv, WorkerBroadcasts
    PROVE  ReadsTypes' /\ ReadsInv'
  <1>1. /\ watch' = [watch EXCEPT !.told = watch.version, !.pc = "live"] /\ watch \in Worker
        /\ watch.pc = "fenced" /\ UNCHANGED <<caller, cluster, generation, page, fence, sched, allowed, op>>
    BY DEF WorkerBroadcasts, vars, ReadsTypes
  <1>2. watch' \in Worker /\ watch'.gen = watch.gen /\ watch'.version = watch.version /\ watch'.told = watch.version /\ watch'.pc = "live"
    BY <1>1 DEF Worker
  <1>3. ReadsTypes'
    BY <1>1, <1>2 DEF ReadsTypes
  <1>4. WatchBehind'
    BY <1>1, <1>2 DEF ReadsInv, WatchBehind, Running, Worker
  <1>5. PageFresh'
    BY <1>1, <1>2 DEF ReadsInv, PageFresh, Fresh, Running
  <1>6. TokenFresh'
    BY <1>1, <1>2 DEF ReadsInv, TokenFresh, Fresh, Running, Holds
  <1> QED BY <1>1, <1>3, <1>4, <1>5, <1>6, StillKeeps DEF ReadsInv

LEMMA WorkerEndsKeeps ==
    ASSUME ReadsTypes, ReadsInv, WorkerStops \/ CancelGeneration
    PROVE  ReadsTypes' /\ ReadsInv'
  <1>1. watch \in Worker /\ UNCHANGED <<caller, cluster, generation, page, fence, sched, allowed, op>>
    BY DEF WorkerStops, CancelGeneration, vars, ReadsTypes
  <1>2. /\ watch' \in Worker /\ watch'.pc = "off" /\ watch'.told <= watch'.version /\ watch'.version <= cluster
        /\ (watch'.gen = 0 /\ watch'.told = 0) \/ (watch'.gen = watch.gen /\ watch'.told = watch.told)
    <2>1. CASE WorkerStops
      BY <1>1, <2>1 DEF WorkerStops, Worker, ReadsInv, WatchBehind
    <2>2. CASE CancelGeneration
      BY <1>1, <2>2 DEF CancelGeneration, NoWorker, Worker, ReadsTypes
    <2> QED BY <2>1, <2>2
  <1>3. ReadsTypes'
    BY <1>1, <1>2 DEF ReadsTypes
  <1>4. WatchBehind'
    BY <1>1, <1>2 DEF ReadsInv, WatchBehind, Running, Worker
  <1>5. PageFresh'
    BY <1>1, <1>2 DEF ReadsInv, PageFresh, Fresh, Running, ReadsTypes
  <1>6. TokenFresh'
    BY <1>1, <1>2 DEF ReadsInv, TokenFresh, Fresh, Running, Holds, ReadsTypes, Operation
  <1> QED BY <1>1, <1>3, <1>4, <1>5, <1>6, StillKeeps DEF ReadsInv

LEMMA SwitchGenerationKeeps ==
    ASSUME ReadsTypes, ReadsInv, SwitchGeneration
    PROVE  ReadsTypes' /\ ReadsInv'
  <1>1. /\ fence' = generation /\ page' = None /\ op' = Fenced(op) /\ op \in [Callers -> Operation]
        /\ UNCHANGED <<caller, cluster, generation, watch, sched, allowed>>
    BY DEF SwitchGeneration, vars, ReadsTypes
  <1>2. op' \in [Callers -> Operation] /\ \A d \in Callers : op'[d] = [op[d] EXCEPT !.token = FALSE]
    BY <1>1, FencedEffect
  <1>3. ASSUME NEW d \in Callers
        PROVE  /\ op'[d].pc = op[d].pc /\ op'[d].gen = op[d].gen /\ op'[d].floor = op[d].floor
               /\ op'[d].data = op[d].data /\ op'[d].result = op[d].result /\ op'[d].permitted = op[d].permitted
               /\ op'[d].token = FALSE
    <2>1. op[d] \in Operation /\ op'[d] = [op[d] EXCEPT !.token = FALSE]
      BY <1>1, <1>2
    <2> QED BY <2>1 DEF Operation
  <1>30. \A d \in Callers :
           /\ op'[d].pc = op[d].pc /\ op'[d].gen = op[d].gen /\ op'[d].floor = op[d].floor
           /\ op'[d].data = op[d].data /\ op'[d].result = op[d].result /\ op'[d].permitted = op[d].permitted
           /\ op'[d].token = FALSE
    BY <1>3
  <1>31. fence' = generation /\ page' = None /\ UNCHANGED <<caller, cluster, generation, watch, sched, allowed>>
    BY <1>1
  <1>4. ReadsTypes'
    BY <1>2, <1>31 DEF ReadsTypes
  <1>5. WatchBehind' /\ PageFresh' /\ TokenFresh'
    BY <1>30, <1>31 DEF ReadsInv, WatchBehind, PageFresh, TokenFresh, Running
  <1>6. ReadFresh' /\ PermittedInv' /\ IdleOff'
    BY <1>30, <1>31 DEF ReadsInv, ReadFresh, PermittedInv, IdleOff, Running
  <1>7. WaitersHaveSignal'
    BY <1>30 DEF ReadsInv, WaitersHaveSignal, Queued, Active
  <1> QED BY <1>4, <1>5, <1>6, <1>7 DEF ReadsInv

LEMMA PermitKeeps ==
    ASSUME ReadsTypes, ReadsInv, Permit
    PROVE  ReadsTypes' /\ ReadsInv'
  <1>1. /\ allowed' = ~ allowed /\ allowed \in BOOLEAN /\ op \in [Callers -> Operation]
        /\ UNCHANGED <<caller, cluster, generation, watch, page, fence, sched>>
    BY DEF Permit, vars, ReadsTypes
  <1>2. ASSUME NEW d \in Callers
        PROVE  /\ op'[d] \in Operation
               /\ op'[d].pc = op[d].pc /\ op'[d].gen = op[d].gen /\ op'[d].floor = op[d].floor
               /\ op'[d].data = op[d].data /\ op'[d].result = op[d].result /\ op'[d].token = op[d].token
               /\ op'[d].permitted <=> (op[d].permitted \/ (~ allowed /\ Running(op[d])))
    <2> DEFINE b == op[d].permitted \/ (~ allowed /\ op[d].pc \notin {"off", "done"})
    <2>1. op'[d] = [op[d] EXCEPT !.permitted = b]
      BY DEF Permit
    <2>2. op[d] \in Operation /\ b \in BOOLEAN /\ (b <=> (op[d].permitted \/ (~ allowed /\ Running(op[d]))))
      BY <1>1 DEF Running
    <2> HIDE DEF b
    <2>3. /\ op'[d] \in Operation /\ op'[d].permitted = b
          /\ op'[d].pc = op[d].pc /\ op'[d].gen = op[d].gen /\ op'[d].floor = op[d].floor
          /\ op'[d].data = op[d].data /\ op'[d].result = op[d].result /\ op'[d].token = op[d].token
      BY <2>1, <2>2 DEF Operation
    <2> QED BY <2>2, <2>3
  <1>20. \A d \in Callers :
           /\ op'[d] \in Operation
           /\ op'[d].pc = op[d].pc /\ op'[d].gen = op[d].gen /\ op'[d].floor = op[d].floor
           /\ op'[d].data = op[d].data /\ op'[d].result = op[d].result /\ op'[d].token = op[d].token
           /\ op'[d].permitted <=> (op[d].permitted \/ (~ allowed /\ Running(op[d])))
    BY <1>2
  <1>21. \A d \in Callers : Running(op'[d]) <=> Running(op[d])
    BY <1>20 DEF Running
  <1>3. op' \in [Callers -> Operation]
    <2>1. op' = [d \in Callers |-> op'[d]]
      BY DEF Permit
    <2> QED BY <1>20, <2>1
  <1>4. ReadsTypes'
    BY <1>1, <1>3 DEF ReadsTypes
  <1>5. WatchBehind' /\ PageFresh'
    BY <1>1, <1>20, <1>21 DEF ReadsInv, WatchBehind, PageFresh, Fresh, Running
  <1>6. TokenFresh'
    BY <1>1, <1>20, <1>21 DEF ReadsInv, TokenFresh, Fresh, Running, Holds
  <1>7. ReadFresh' /\ IdleOff'
    BY <1>1, <1>20 DEF ReadsInv, ReadFresh, IdleOff
  <1>8. PermittedInv'
    BY <1>1, <1>20, <1>21 DEF ReadsInv, PermittedInv
  <1>9. WaitersHaveSignal'
    BY <1>20 DEF ReadsInv, WaitersHaveSignal, Queued, Active
  <1> QED BY <1>4, <1>5, <1>6, <1>7, <1>8, <1>9 DEF ReadsInv

\* Whoever asks was told nothing that the page, the tokens and the worker's
\* snapshot do not have.
LEMMA AskFirstKeeps ==
    ASSUME TypeOK, ReadsTypes, ReadsInv, NEW c \in Callers, AskFirst(c)
    PROVE  ReadsTypes' /\ ReadsInv'
  <1> DEFINE n == Told
  <1>1. /\ op[c] \in Operation /\ op[c].pc = "off" /\ ~ op[c].token
        /\ UNCHANGED <<cluster, generation, watch, page, fence, sched, allowed>>
    BY DEF AskFirst, DoCreates, ReadsTypes, ReadsInv, IdleOff, TokenFresh, Running
  <1>2. /\ n \in Nat /\ n <= cluster /\ generation \in Nat /\ allowed \in BOOLEAN
        /\ watch.gen = generation => n = watch.told /\ n <= watch.version
        /\ watch.gen # generation => n = 0
    BY DEF Told, ReadsTypes, Worker, ReadsInv, WatchBehind
  <1>3. op' = [op EXCEPT ![c] = [op[c] EXCEPT !.pc = "load", !.gen = generation, !.floor = n, !.permitted = allowed]]
    BY DEF AskFirst, ReadsTypes
  <1> HIDE DEF n
  <1> DEFINE x == [op[c] EXCEPT !.pc = "load", !.gen = generation, !.floor = n, !.permitted = allowed]
  <1>4. x \in Operation
    BY <1>1, <1>2, OperationUpdates
  <1>5. /\ x.pc = "load" /\ x.gen = generation /\ x.floor = n /\ x.permitted = allowed /\ x.token = op[c].token
    BY <1>1 DEF Operation
  <1>6. op' \in [Callers -> Operation] /\ op'[c] = x /\ Others(c)
    BY <1>3, <1>4, OneOperation
  <1> HIDE DEF x
  <1>7. \A d \in Callers : caller'[d].pc = "idle" => caller[d].pc = "idle" /\ d # c
    BY DEF AskFirst, DoCreates, TypeOK, Caller
  <1>8. /\ op'[c].pc = "load" /\ op'[c].gen = generation /\ op'[c].floor = n /\ op'[c].permitted = allowed /\ ~ op'[c].token
        /\ \A d \in Callers \ {c} : op'[d] = op[d]
    BY <1>1, <1>5, <1>6 DEF Others
  <1>9. ReadsTypes'
    BY <1>1, <1>6 DEF ReadsTypes
  <1>10. WatchBehind'
    BY <1>1, <1>2, <1>8 DEF ReadsInv, WatchBehind, Running
  <1>11. PageFresh'
    BY <1>1, <1>2, <1>8 DEF ReadsInv, PageFresh, Fresh, Running, ReadsTypes
  <1>12. TokenFresh'
    BY <1>1, <1>2, <1>8 DEF ReadsInv, TokenFresh, Fresh, Running, Holds, ReadsTypes, Operation
  <1>13. ReadFresh' /\ PermittedInv'
    BY <1>1, <1>8 DEF ReadsInv, ReadFresh, PermittedInv, Running
  <1>14. IdleOff'
    BY <1>7, <1>8 DEF ReadsInv, IdleOff
  <1>15. WaitersHaveSignal'
    BY <1>1, <1>8 DEF ReadsInv, WaitersHaveSignal, Queued, Active
  <1> QED BY <1>9, <1>10, <1>11, <1>12, <1>13, <1>14, <1>15 DEF ReadsInv

\* A caller is idle once.
LEMMA IdleOnce ==
    ASSUME TypeOK, NEW w \in Callers, NEW k,
           DoJoins(w, k) \/ DoRejected(w) \/ ContextDone(w) \/ Leave(w) \/ Receive(w) \/ Close \/ UNCHANGED caller
    PROVE  \A d \in Callers : caller'[d].pc = "idle" => caller[d].pc = "idle"
  <1>1. \A o \in Caller : \A x : [o EXCEPT !.pc = "answered", !.answer = x].pc = "answered"
    BY DEF Caller
  <1>2. \A o \in Caller : \A x : [o EXCEPT !.pc = "waiting", !.on = x].pc = "waiting"
    BY DEF Caller
  <1>3. \A o \in Caller : [o EXCEPT !.left = TRUE].pc = o.pc
    BY DEF Caller
  <1>4. CASE DoJoins(w, k)
    BY <1>2, <1>4 DEF DoJoins, TypeOK
  <1>5. CASE DoRejected(w)
    BY <1>1, <1>5 DEF DoRejected, TypeOK
  <1>6. CASE ContextDone(w)
    BY <1>3, <1>6 DEF ContextDone, TypeOK
  <1>7. CASE Leave(w)
    BY <1>1, <1>7 DEF Leave, TypeOK
  <1>8. CASE Receive(w)
    BY <1>1, <1>8 DEF Receive, TypeOK
  <1>9. CASE Close \/ UNCHANGED caller
    BY <1>9 DEF Close
  <1> QED BY <1>4, <1>5, <1>6, <1>7, <1>8, <1>9

\* Nothing but callers, the slots, the selection and the cluster changes.
LEMMA QuietKeeps ==
    ASSUME ReadsTypes, ReadsTypes', ReadsInv, UNCHANGED <<op, watch, fence, allowed>>, cluster' >= cluster,
           page' = page \/ page' = None, \A d \in Callers : caller'[d].pc = "idle" => caller[d].pc = "idle"
    PROVE  ReadsInv'
  <1>1. WatchBehind'
    BY DEF ReadsInv, WatchBehind, Running, ReadsTypes, Worker, Operation
  <1>2. PageFresh'
    BY DEF ReadsInv, PageFresh, Fresh, Running
  <1>3. TokenFresh'
    BY DEF ReadsInv, TokenFresh, Fresh, Running, Holds
  <1>4. ReadFresh' /\ PermittedInv' /\ IdleOff' /\ WaitersHaveSignal'
    BY DEF ReadsInv, ReadFresh, PermittedInv, IdleOff, WaitersHaveSignal, Queued, Active, Running
  <1> QED BY <1>1, <1>2, <1>3, <1>4 DEF ReadsInv

LEMMA FramesKeep ==
    ASSUME TypeOK, ReadsTypes, ReadsInv,
           \/ \E c \in Callers : AskJoins(c) \/ AskRejected(c) \/ Disconnect(c) \/ Goes(c)
           \/ Shutdown \/ DropPage \/ PauseEnds \/ Rotate \/ Change \/ UNCHANGED readsVars
    PROVE  ReadsTypes' /\ ReadsInv'
  <1>1. /\ UNCHANGED <<op, watch, fence, allowed>> /\ (page' = page \/ page' = None)
        /\ cluster' = cluster \/ cluster' = cluster + 1
        /\ generation' = generation \/ (generation' = generation + 1 /\ generation < MaxGeneration)
        /\ sched' = sched \/ sched' = [sched EXCEPT !.paused = FALSE]
    BY DEF AskJoins, AskRejected, Disconnect, Goes, Shutdown, DropPage, PauseEnds, Rotate, Change, readsVars, backendVars
  <1>20. sched' \in [limit : Nat \ {0}, paused : BOOLEAN]
    BY <1>1 DEF ReadsTypes
  <1>21. cluster' \in Nat /\ generation' \in 1..MaxGeneration /\ cluster' >= cluster
    <2>1. cluster \in Nat /\ generation \in 1..MaxGeneration
      BY DEF ReadsTypes
    <2> QED BY ONLY <1>1, <2>1, ReadsAssumption
  <1>3. ReadsTypes'
    BY <1>1, <1>20, <1>21 DEF ReadsTypes
  <1>4. \A d \in Callers : caller'[d].pc = "idle" => caller[d].pc = "idle"
    <2>1. \/ \E c \in Callers : \E k : DoJoins(c, k) \/ DoRejected(c) \/ ContextDone(c) \/ Leave(c) \/ Receive(c)
          \/ UNCHANGED caller
      BY DEF AskJoins, AskRejected, Disconnect, Goes, Shutdown, Close, DropPage, PauseEnds, Rotate, Change, readsVars, vars
    <2> QED BY <2>1, IdleOnce
  <1>5. ReadsInv'
    BY <1>1, <1>21, <1>3, <1>4, QuietKeeps
  <1> QED BY <1>3, <1>5

-----------------------------------------------------------------------------
(* The theorems *)

LEMMA ReadsStart == ReadsInit => TypeOK /\ CoalescerInv /\ ReadsTypes /\ ReadsInv
  <1> SUFFICES ASSUME ReadsInit PROVE TypeOK /\ CoalescerInv /\ ReadsTypes /\ ReadsInv
    OBVIOUS
  <1>1. TypeOK /\ CoalescerInv
    BY InitTypes, InitInv DEF ReadsInit
  <1>2. NoOperation \in Operation /\ NoOperation.pc = "off" /\ ~ NoOperation.token
    BY DEF NoOperation, Operation, PCs, Results
  <1>3. op \in [Callers -> Operation] /\ \A c \in Callers : op[c].pc = "off" /\ ~ op[c].token
    BY <1>2 DEF ReadsInit
  <1>4. ReadsTypes
    BY <1>3 DEF ReadsInit, ReadsTypes, NoWorker, Worker
  <1>5. ReadsInv
    BY <1>3 DEF ReadsInit, ReadsInv, WatchBehind, PageFresh, TokenFresh, ReadFresh, PermittedInv, IdleOff,
                WaitersHaveSignal, Queued, Running, NoWorker
  <1> QED BY <1>1, <1>4, <1>5

\* A step of the backend is a step of the coalescer, or none: an operation
\* returns its value, or the cancellation that its call has.
LEMMA ReadsShare ==
    ASSUME TypeOK, ReadsTypes, [ReadsNext]_readsVars
    PROVE  [Next]_vars
  <1>1. ASSUME NEW c \in Callers, NEW next, Returns(c, next) PROVE Next
    <2>1. \E r : Run(c, r) /\ (r = "value" \/ r = call[c].cause)
      BY <1>1 DEF Returns
    <2>2. Work(c)
      BY <2>1 DEF Run, Work, TypeOK, Call, Causes
    <2> QED BY <2>2 DEF Next
  <1>2. ASSUME NEW c \in Callers, AskFirst(c) \/ AskRejected(c) \/ Disconnect(c) \/ Goes(c) \/ StoreForbidden(c) PROVE Next
    BY <1>2, Zenon DEF AskFirst, AskRejected, Disconnect, Goes, StoreForbidden, Next, Work
  <1>3. ASSUME NEW c \in Callers, AskJoins(c) PROVE Next
    <2>1. RequestKey(c) \in Keys
      BY DEF RequestKey, Class, ReadsTypes
    <2> QED BY <1>3, <2>1 DEF AskJoins, Next
  <1>4. ASSUME NEW c \in Callers, Load(c) \/ Reauthorize(c) \/ Begin(c) \/ Read(c) \/ ReadCancelled(c) \/ ReadFails(c)
        PROVE  UNCHANGED vars
    BY <1>4 DEF Load, Reauthorize, Begin, Read, ReadCancelled, ReadFails, Step
  <1>5. ASSUME NEW c \in Callers, Confirm(c) \/ Acquire(c) \/ Abandon(c) \/ Store(c)
        PROVE  Next \/ UNCHANGED vars
    BY <1>1, <1>5 DEF Confirm, Acquire, Abandon, Store
  <1>6. ASSUME NEW c \in Callers, Operate(c) PROVE Next \/ UNCHANGED vars
    BY <1>2, <1>4, <1>5, <1>6 DEF Operate
  <1>7. CASE Shutdown
    BY <1>7 DEF Shutdown, Next
  <1>8. CASE DropPage \/ PauseEnds \/ Rotate \/ SwitchGeneration \/ CancelGeneration \/ Change \/ Permit
    BY <1>8 DEF DropPage, PauseEnds, Rotate, SwitchGeneration, CancelGeneration, Change, Permit
  <1>9. CASE WorkerStarts \/ WorkerApplies \/ WorkerInvalidates \/ WorkerBroadcasts \/ WorkerStops
    BY <1>9 DEF WorkerStarts, WorkerApplies, WorkerInvalidates, WorkerBroadcasts, WorkerStops
  <1>10. CASE UNCHANGED readsVars
    BY <1>10 DEF readsVars
  <1> QED BY <1>2, <1>3, <1>4, <1>6, <1>7, <1>8, <1>9, <1>10, Zenon DEF ReadsNext

LEMMA ReadsStep ==
    ASSUME TypeOK, CoalescerInv, ReadsTypes, ReadsInv, [ReadsNext]_readsVars
    PROVE  TypeOK' /\ CoalescerInv' /\ ReadsTypes' /\ ReadsInv'
  <1>1. TypeOK' /\ CoalescerInv'
    BY ReadsShare, CoalescerStep
  <1>2. ASSUME NEW c \in Callers, Operate(c) \/ ReadFails(c) PROVE ReadsTypes' /\ ReadsInv'
    BY <1>2, LoadKeeps, ReauthorizeKeeps, ConfirmKeeps, BeginKeeps, AcquireKeeps, AbandonKeeps, ReadKeeps,
       StoreKeeps, StoreForbiddenKeeps DEF Operate
  <1>3. ASSUME NEW c \in Callers, AskFirst(c) \/ AskJoins(c) \/ AskRejected(c) \/ Disconnect(c) \/ Goes(c)
        PROVE  ReadsTypes' /\ ReadsInv'
    BY <1>3, AskFirstKeeps, FramesKeep
  <1>4. ASSUME Shutdown \/ DropPage \/ PauseEnds \/ Rotate \/ Change \/ UNCHANGED readsVars
        PROVE  ReadsTypes' /\ ReadsInv'
    BY <1>4, FramesKeep
  <1>5. ASSUME \/ WorkerStarts \/ WorkerApplies \/ WorkerInvalidates \/ WorkerBroadcasts \/ WorkerStops
               \/ SwitchGeneration \/ CancelGeneration \/ Permit
        PROVE  ReadsTypes' /\ ReadsInv'
    BY <1>5, WorkerStartsKeeps, WorkerAppliesKeeps, WorkerInvalidatesKeeps, WorkerBroadcastsKeeps, WorkerEndsKeeps,
       SwitchGenerationKeeps, PermitKeeps
  <1> QED BY <1>1, <1>2, <1>3, <1>4, <1>5, Zenon DEF ReadsNext

\* The inductive invariants of the backend and of its coalescer hold together.
THEOREM ReadsHold == ReadsSpec => [](TypeOK /\ CoalescerInv /\ ReadsTypes /\ ReadsInv)
  BY ReadsStart, ReadsStep, PTL DEF ReadsSpec

\* What is served, from the cache, the watch's snapshot or a LIST, is neither
\* older than what its reader had been told of nor something it was never
\* allowed to list (LoadCollectionPage, StoreCollectionPage and their fence).
THEOREM ReadsServe == ReadsSpec => []ServedSound
  <1>1. ReadsInv => ServedSound
    BY DEF ReadsInv, ReadFresh, PermittedInv, ServedSound, ReadsWhatItWasTold, ServedWasPermitted
  <1> QED BY <1>1, ReadsHold, PTL

\* An operation waits for a slot only while another one holds one and will
\* signal its return (RequestScheduler's limit never falls to zero).
THEOREM ReadsSignal == ReadsSpec => []WaitersHaveSignal
  <1>1. ReadsInv => WaitersHaveSignal
    BY DEF ReadsInv
  <1> QED BY <1>1, ReadsHold, PTL

\* The backend uses the coalescer by its rules: its behaviours are the
\* coalescer's, whatever the cache, the scheduler and the watch do.
THEOREM ReadsImplementCoalescer == ReadsSpec => Init /\ [][Next]_vars
  <1>1. ReadsInit => Init
    BY DEF ReadsInit
  <1>2. TypeOK /\ ReadsTypes /\ [ReadsNext]_readsVars => [Next]_vars
    BY ReadsShare
  <1> QED BY <1>1, <1>2, ReadsHold, PTL DEF ReadsSpec

\* So its calls are shared as the coalescer promises.
THEOREM ReadsCallsShared == ReadsSpec => []CallsShared
  BY SharingFollows, ReadsHold, PTL

-----------------------------------------------------------------------------
(* The clients of the selected context *)

USE RuntimeAssumption

\* A record with the fields of a process, of the runtime's binding.
ProcessFields == {"pc", "bound", "retried", "measured", "used", "key", "res", "current", "void",
                  "on", "call", "held", "fault"}

ProcessShape(r) == r = [f \in ProcessFields |-> r[f]]

RuntimeShape(r) == r = [cand |-> r.cand, fp |-> r.fp, ctx |-> r.ctx, gen |-> r.gen]

\* What a process and the cache are, whoever calls it.
Shapes ==
    /\ proc = [p \in Processes |-> proc[p]]
    /\ \A p \in Processes : ProcessShape(proc[p])
    /\ entries = [k \in Contexts |-> entries[k]]
    /\ RuntimeShape(rt)

\* Whoever would still be activated was not invalidated: invalidateKey raises
\* activationSeq together with the epoch.
CurrentIsValid == \A p \in Processes : proc[p].current => ~ proc[p].void

\* Who is to activate has a context to activate.
Named(p, r) ==
    /\ r.pc \in {"commit", "snapshot", "begin", "check", "lock", "build", "join", "refused"} => r.key \in Contexts
    /\ r.pc \in {"hook", "bind"} /\ p \in Selects => r.key \in Contexts

KeysNamed == rt.cand \in Contexts \cup {Nothing} /\ \A p \in Processes : Named(p, proc[p])

LeaseInv == Shapes /\ CurrentIsValid /\ KeysNamed /\ OneLiveLease /\ InvalidatedIsGone

\* What becomes of a process when another one calls the cache.
Aside(r, n) ==
    /\ ProcessShape(n)
    /\ n.pc = r.pc /\ n.bound = r.bound /\ n.measured = r.measured /\ n.used = r.used
    /\ n.key = r.key /\ n.held = r.held
    /\ n.current => ~ n.void

\* What becomes of the caller.
Called(r, n) ==
    /\ ProcessShape(n)
    /\ n.bound = r.bound /\ n.measured = r.measured /\ n.used = r.used /\ n.key = r.key
    /\ n.current => ~ n.void
    /\ n.pc \in {"lock", "build", "join", "leased", "refused"}
    /\ n.pc = "leased" => n.held.ctx = n.key

AllAside(ps) ==
    /\ ps = [q \in Processes |-> ps[q]]
    /\ \A q \in Processes : Aside(proc[q], ps[q])

LEMMA AsideSelf == ASSUME Shapes, CurrentIsValid PROVE AllAside(proc)
  BY DEF Shapes, CurrentIsValid, AllAside, Aside

LEMMA ProcessOutrun ==
  ASSUME NEW r, ProcessShape(r)
  PROVE  LET n == [r EXCEPT !.current = FALSE] IN
         /\ ProcessShape(n) /\ n.current = FALSE
         /\ n.pc = r.pc /\ n.bound = r.bound /\ n.measured = r.measured /\ n.used = r.used
         /\ n.key = r.key /\ n.held = r.held /\ n.void = r.void
  BY DEF ProcessShape, ProcessFields

LEMMA ProcessVoid ==
  ASSUME NEW r, ProcessShape(r), NEW v
  PROVE  LET n == [r EXCEPT !.void = v] IN
         /\ ProcessShape(n) /\ n.current = r.current
         /\ n.pc = r.pc /\ n.bound = r.bound /\ n.measured = r.measured /\ n.used = r.used
         /\ n.key = r.key /\ n.held = r.held
  BY DEF ProcessShape, ProcessFields

LEMMA ProcessReturned ==
  ASSUME NEW r, ProcessShape(r), NEW pc
  PROVE  LET n == [r EXCEPT !.pc = pc, !.on = Nothing, !.call = "none", !.current = FALSE, !.void = FALSE] IN
         /\ ProcessShape(n) /\ n.pc = pc /\ n.current = FALSE
         /\ n.bound = r.bound /\ n.measured = r.measured /\ n.used = r.used /\ n.key = r.key
  BY DEF ProcessShape, ProcessFields

LEMMA AsideOutrun == ASSUME NEW ps, AllAside(ps) PROVE AllAside(Outrun(ps))
<1> DEFINE n(q) == [ps[q] EXCEPT !.current = FALSE]
<1>1. ASSUME NEW q \in Processes PROVE Aside(proc[q], n(q))
  <2>1. ProcessShape(ps[q])
    BY DEF AllAside, Aside
  <2>2. QED  BY <2>1, ProcessOutrun DEF AllAside, Aside
<1>2. QED  BY <1>1 DEF Outrun, AllAside

\* One's own return to the caller.
LEMMA ReturnedShape ==
  ASSUME NEW p \in Processes, NEW pc, NEW ps, AllAside(ps)
  PROVE  /\ Returned(p, pc, ps) = [q \in Processes |-> Returned(p, pc, ps)[q]]
         /\ \A q \in Processes : q # p => Returned(p, pc, ps)[q] = ps[q]
         /\ LET n == Returned(p, pc, ps)[p] IN
              /\ ProcessShape(n) /\ n.pc = pc /\ n.bound = proc[p].bound /\ n.measured = proc[p].measured
              /\ n.used = proc[p].used /\ n.key = proc[p].key /\ ~ n.current
<1> DEFINE r == ps[p]
           n == [r EXCEPT !.pc = pc, !.on = Nothing, !.call = "none", !.current = FALSE, !.void = FALSE]
<1>1. Returned(p, pc, ps) = [ps EXCEPT ![p] = n]
  BY DEF Returned, AllAside
<1>2. /\ ProcessShape(n) /\ n.pc = pc /\ n.bound = proc[p].bound /\ n.measured = proc[p].measured
      /\ n.used = proc[p].used /\ n.key = proc[p].key /\ ~ n.current
  <2>1. ProcessShape(r)
    BY DEF AllAside, Aside
  <2>2. /\ ProcessShape(n) /\ n.pc = pc /\ n.current = FALSE
        /\ n.bound = r.bound /\ n.measured = r.measured /\ n.used = r.used /\ n.key = r.key
    BY <2>1, ProcessReturned
  <2> HIDE DEF n
  <2>3. QED  BY <2>2 DEF AllAside, Aside
<1>3. QED  BY <1>1, <1>2 DEF AllAside

LEMMA HoldingShape ==
  ASSUME NEW p \in Processes, NEW lease, NEW ps, AllAside(ps), lease.ctx = proc[p].key
  PROVE  /\ Holding(p, lease, ps) = [q \in Processes |-> Holding(p, lease, ps)[q]]
         /\ \A q \in Processes : q # p => Holding(p, lease, ps)[q] = ps[q]
         /\ Called(proc[p], Holding(p, lease, ps)[p])
<1> DEFINE rs == Returned(p, "leased", ps)
           r == rs[p]
           n == [r EXCEPT !.held = lease]
<1>1. /\ rs = [q \in Processes |-> rs[q]]
      /\ \A q \in Processes : q # p => rs[q] = ps[q]
      /\ ProcessShape(r) /\ r.pc = "leased" /\ r.bound = proc[p].bound /\ r.measured = proc[p].measured
      /\ r.used = proc[p].used /\ r.key = proc[p].key /\ ~ r.current
  BY ReturnedShape
<1>2. Holding(p, lease, ps) = [rs EXCEPT ![p] = n]
  BY <1>1 DEF Holding
<1> HIDE DEF rs, r
<1>3. Called(proc[p], n)
  BY <1>1 DEF Called, ProcessShape, ProcessFields
<1>4. QED  BY <1>1, <1>2, <1>3

LEMMA FailingShape ==
  ASSUME NEW p \in Processes, NEW fault, NEW ps, AllAside(ps)
  PROVE  /\ Failing(p, fault, ps) = [q \in Processes |-> Failing(p, fault, ps)[q]]
         /\ \A q \in Processes : q # p => Failing(p, fault, ps)[q] = ps[q]
         /\ Called(proc[p], Failing(p, fault, ps)[p])
<1> DEFINE rs == Returned(p, "refused", ps)
           r == rs[p]
           n == [r EXCEPT !.fault = fault]
<1>1. /\ rs = [q \in Processes |-> rs[q]]
      /\ \A q \in Processes : q # p => rs[q] = ps[q]
      /\ ProcessShape(r) /\ r.pc = "refused" /\ r.bound = proc[p].bound /\ r.measured = proc[p].measured
      /\ r.used = proc[p].used /\ r.key = proc[p].key /\ ~ r.current
  BY ReturnedShape
<1>2. Failing(p, fault, ps) = [rs EXCEPT ![p] = n]
  BY <1>1 DEF Failing
<1> HIDE DEF rs, r
<1>3. Called(proc[p], n)
  BY <1>1 DEF Called, ProcessShape, ProcessFields
<1>4. QED  BY <1>1, <1>2, <1>3

-----------------------------------------------------------------------------
(* The cache keeps its leases *)

\* invalidateKey beside a change of the caller.
LEMMA InvalidateAside ==
  ASSUME NEW p \in Processes, NEW k, NEW ps, LeaseInv,
         ps = [q \in Processes |-> ps[q]], \A q \in Processes : ProcessShape(ps[q]),
         Invalidate(k, ps)
  PROVE  /\ proc' = [q \in Processes |-> proc'[q]]
         /\ \A q \in Processes :
              /\ ProcessShape(proc'[q]) /\ ~ proc'[q].current
              /\ proc'[q].pc = ps[q].pc /\ proc'[q].bound = ps[q].bound
              /\ proc'[q].measured = ps[q].measured /\ proc'[q].used = ps[q].used
              /\ proc'[q].key = ps[q].key /\ proc'[q].held = ps[q].held
         /\ entries' = [x \in Contexts |-> entries'[x]]
         /\ OneLiveLease' /\ InvalidatedIsGone'
<1> DEFINE o(q) == [ps[q] EXCEPT !.current = FALSE]
           n(q) == [o(q) EXCEPT !.void = @ \/ (ps[q].pc \in {"build", "join"} /\ ps[q].key = k)]
<1>1. Outrun(ps) = [q \in Processes |-> o(q)]
  BY DEF Outrun
<1>2. proc' = [q \in Processes |-> n(q)]
  BY <1>1 DEF Invalidate
<1>3. ASSUME NEW q \in Processes
      PROVE  LET m == n(q) IN
             /\ ProcessShape(m) /\ ~ m.current
             /\ m.pc = ps[q].pc /\ m.bound = ps[q].bound /\ m.measured = ps[q].measured
             /\ m.used = ps[q].used /\ m.key = ps[q].key /\ m.held = ps[q].held
  <2> DEFINE r == o(q)
  <2>1. /\ ProcessShape(r) /\ r.current = FALSE
        /\ r.pc = ps[q].pc /\ r.bound = ps[q].bound /\ r.measured = ps[q].measured
        /\ r.used = ps[q].used /\ r.key = ps[q].key /\ r.held = ps[q].held
    BY ProcessOutrun
  <2> HIDE DEF r
  <2> DEFINE v == r.void \/ (ps[q].pc \in {"build", "join"} /\ ps[q].key = k)
             m == [r EXCEPT !.void = v]
  <2>2. n(q) = m
    BY DEF r
  <2> HIDE DEF v
  <2>3. /\ ProcessShape(m) /\ m.current = r.current
        /\ m.pc = r.pc /\ m.bound = r.bound /\ m.measured = r.measured
        /\ m.used = r.used /\ m.key = r.key /\ m.held = r.held
    BY <2>1, ProcessVoid
  <2> HIDE DEF m, n
  <2>4. QED  BY <2>1, <2>2, <2>3
<1> HIDE DEF n
<1>4. entries' = [x \in Contexts |-> entries'[x]] /\ \A x \in Contexts : entries'[x] \in {Nothing, entries[x]}
  BY DEF Invalidate, LeaseInv, Shapes
<1>5. OneLiveLease' /\ InvalidatedIsGone'
  BY <1>4 DEF Invalidate, LeaseInv, OneLiveLease, InvalidatedIsGone, NoLease
<1>6. QED  BY <1>2, <1>3, <1>4, <1>5

CacheMoves(p) == ActivateStep(p) \/ BuildEnds(p, "failed")

\* What a step of Activate does to the callers, and that it keeps the leases.
CacheEffect(p) ==
    /\ proc' = [q \in Processes |-> proc'[q]]
    /\ \A q \in Processes : q # p => Aside(proc[q], proc'[q])
    /\ Called(proc[p], proc'[p])
    /\ proc[p].pc \in {"check", "lock", "build", "join"}
    /\ entries' = [x \in Contexts |-> entries'[x]]
    /\ OneLiveLease' /\ InvalidatedIsGone'

LEMMA LeasesStay ==
  ASSUME LeaseInv, UNCHANGED <<entries, active, live>>
  PROVE  entries' = [x \in Contexts |-> entries'[x]] /\ OneLiveLease' /\ InvalidatedIsGone'
  BY DEF LeaseInv, Shapes, OneLiveLease, InvalidatedIsGone

LEMMA FailingEffect ==
  ASSUME NEW p \in Processes, LeaseInv, NEW fault, NEW ps, AllAside(ps), proc' = Failing(p, fault, ps)
  PROVE  /\ proc' = [q \in Processes |-> proc'[q]]
         /\ \A q \in Processes : q # p => Aside(proc[q], proc'[q])
         /\ Called(proc[p], proc'[p])
<1> DEFINE rs == Failing(p, fault, ps)
<1>1. /\ rs = [q \in Processes |-> rs[q]]
      /\ \A q \in Processes : q # p => rs[q] = ps[q]
      /\ Called(proc[p], rs[p])
  BY FailingShape
<1>2. proc' = rs
  OBVIOUS
<1> HIDE DEF rs
<1>3. QED  BY <1>1, <1>2 DEF AllAside

LEMMA HoldingEffect ==
  ASSUME NEW p \in Processes, LeaseInv, NEW lease, NEW ps, AllAside(ps), proc' = Holding(p, lease, ps),
         lease.ctx = proc[p].key
  PROVE  /\ proc' = [q \in Processes |-> proc'[q]]
         /\ \A q \in Processes : q # p => Aside(proc[q], proc'[q])
         /\ Called(proc[p], proc'[p])
<1> DEFINE rs == Holding(p, lease, ps)
<1>1. /\ rs = [q \in Processes |-> rs[q]]
      /\ \A q \in Processes : q # p => rs[q] = ps[q]
      /\ Called(proc[p], rs[p])
  BY HoldingShape
<1>2. proc' = rs
  OBVIOUS
<1> HIDE DEF rs
<1>3. QED  BY <1>1, <1>2 DEF AllAside

LEMMA LockedEffect ==
  ASSUME NEW p \in Processes, LeaseInv, NEW clients, NEW ps, AllAside(ps), ~ clients.void,
         ActivateLocked(p, clients, ps)
  PROVE  /\ proc' = [q \in Processes |-> proc'[q]]
         /\ \A q \in Processes : q # p => Aside(proc[q], proc'[q])
         /\ Called(proc[p], proc'[p])
         /\ OneLiveLease' /\ ~ active'.void
<1> DEFINE lease == [id |-> NextId, ctx |-> proc[p].key, fp |-> clients.fp, void |-> clients.void]
<1>1. /\ active' = lease /\ proc' = Holding(p, lease, ps)
      /\ live' = (live \ {active.id}) \cup {NextId}
  BY DEF ActivateLocked
<1>2. lease.ctx = proc[p].key /\ lease.id = NextId /\ ~ lease.void
  OBVIOUS
<1> HIDE DEF lease
<1>3. OneLiveLease' /\ ~ active'.void
  BY <1>1, <1>2 DEF LeaseInv, OneLiveLease
<1>4. QED  BY <1>1, <1>2, <1>3, HoldingEffect

LEMMA AllAsideSelf == ASSUME LeaseInv PROVE AllAside(proc)
  BY AsideSelf DEF LeaseInv

LEMMA Checks == ASSUME NEW p \in Processes, LeaseInv, CheckFingerprint(p) PROVE CacheEffect(p)
<1>1. CASE file[proc[p].key] = proc[p].res
  <2> DEFINE r == proc[p]
             n == [r EXCEPT !.pc = "lock"]
  <2>1. proc' = [proc EXCEPT ![p] = n] /\ r.pc = "check" /\ UNCHANGED cacheVars
    BY <1>1 DEF CheckFingerprint, LeaseInv, Shapes
  <2>2. ProcessShape(r) /\ (r.current => ~ r.void)
    BY DEF LeaseInv, Shapes, CurrentIsValid
  <2> HIDE DEF r
  <2>4. Called(r, n)
    BY <2>2 DEF Called, ProcessShape, ProcessFields
  <2> HIDE DEF n
  <2> USE DEF r
  <2>3. QED  BY <2>1, <2>4, AllAsideSelf, LeasesStay DEF AllAside, CacheEffect, cacheVars
<1>2. CASE file[proc[p].key] # proc[p].res
  <2> DEFINE ps == Failing(p, "changed", proc)
  <2>1. Invalidate(proc[p].key, ps) /\ proc[p].pc = "check"
    BY <1>2 DEF CheckFingerprint
  <2>2. /\ ps = [q \in Processes |-> ps[q]]
        /\ \A q \in Processes : q # p => ps[q] = proc[q]
        /\ Called(proc[p], ps[p])
    BY AllAsideSelf, FailingShape
  <2> HIDE DEF ps
  <2>3. \A q \in Processes : ProcessShape(ps[q])
    BY <2>2 DEF Called, LeaseInv, Shapes
  <2>4. /\ proc' = [q \in Processes |-> proc'[q]]
        /\ \A q \in Processes :
              /\ ProcessShape(proc'[q]) /\ ~ proc'[q].current
              /\ proc'[q].pc = ps[q].pc /\ proc'[q].bound = ps[q].bound
              /\ proc'[q].measured = ps[q].measured /\ proc'[q].used = ps[q].used
              /\ proc'[q].key = ps[q].key /\ proc'[q].held = ps[q].held
        /\ entries' = [x \in Contexts |-> entries'[x]]
        /\ OneLiveLease' /\ InvalidatedIsGone'
    BY <2>1, <2>2, <2>3, InvalidateAside
  <2>5. ASSUME NEW q \in Processes, q # p PROVE Aside(proc[q], proc'[q])
    <3>1. ps[q] = proc[q]
      BY <2>2, <2>5
    <3>2. QED  BY <2>4, <3>1 DEF Aside
  <2>6. Called(proc[p], proc'[p])
    BY <2>2, <2>4 DEF Called
  <2>7. QED  BY <2>1, <2>4, <2>5, <2>6 DEF CacheEffect
<1>3. QED  BY <1>1, <1>2

LEMMA Locks ==
  ASSUME NEW p \in Processes, LeaseInv, LockClosed(p) \/ LockActive(p) \/ JoinClosed(p)
  PROVE  CacheEffect(p)
<1>1. CASE LockClosed(p) \/ JoinClosed(p)
  BY <1>1, AllAsideSelf, FailingEffect, LeasesStay DEF LockClosed, JoinClosed, CacheEffect, cacheVars
<1>2. CASE LockActive(p)
  BY <1>2, AllAsideSelf, HoldingEffect, LeasesStay DEF LockActive, Matches, CacheEffect, cacheVars
<1>3. QED  BY <1>1, <1>2

LEMMA RetargetedAside ==
  ASSUME NEW p \in Processes, LeaseInv
  PROVE  AllAside(Retargeted(p).ps)
<1> DEFINE want == [ctx |-> proc[p].key, fp |-> proc[p].res, void |-> FALSE]
           rs == IF target = want THEN proc ELSE Outrun(proc)
           n == [rs[p] EXCEPT !.current = TRUE, !.void = FALSE]
           ps == [rs EXCEPT ![p].current = TRUE, ![p].void = FALSE]
<1>1. Retargeted(p).ps = ps
  BY DEF Retargeted
<1>2. AllAside(rs)
  BY AllAsideSelf, AsideOutrun
<1> HIDE DEF rs
<1>3. ps = [rs EXCEPT ![p] = n]
  BY <1>2 DEF AllAside
<1>4. ProcessShape(rs[p])
  BY <1>2 DEF AllAside, Aside
<1>5. Aside(proc[p], n)
  <2>1. Aside(rs[p], n)
    BY <1>4 DEF Aside, ProcessShape, ProcessFields
  <2> HIDE DEF n
  <2>2. QED  BY <1>2, <2>1 DEF AllAside, Aside
<1> HIDE DEF n
<1>6. QED  BY <1>1, <1>2, <1>3, <1>5, ZenonT(60) DEF AllAside

LEMMA Enters == ASSUME NEW p \in Processes, LeaseInv, LockEntry(p) PROVE CacheEffect(p)
<1> DEFINE ps == Retargeted(p).ps
           k == proc[p].key
<1>1. AllAside(ps)
  BY RetargetedAside
<1>2. ActivateLocked(p, entries[k], ps) /\ proc[p].pc = "lock" /\ entries[k] # Nothing /\ entries' = entries
  BY DEF LockEntry
<1> HIDE DEF ps, k
<1>3. ~ entries[k].void
  BY <1>2 DEF LeaseInv, KeysNamed, Named, InvalidatedIsGone, k
<1>4. QED  BY <1>1, <1>2, <1>3, LockedEffect DEF CacheEffect, LeaseInv, Shapes, InvalidatedIsGone

LEMMA Builds == ASSUME NEW p \in Processes, LeaseInv, LockBuild(p) PROVE CacheEffect(p)
<1> DEFINE ps == Retargeted(p).ps
           n(pc, o) == [ps[p] EXCEPT !.pc = pc, !.on = o]
<1>1. AllAside(ps)
  BY RetargetedAside
<1>2. PICK pc \in {"build", "join"}, o \in Processes : proc' = [ps EXCEPT ![p].pc = pc, ![p].on = o]
  <2>1. CASE Inflight(p) = {}
    BY <2>1 DEF LockBuild
  <2>2. CASE Inflight(p) # {}
    <3>1. (CHOOSE q \in Inflight(p) : TRUE) \in Processes
      BY <2>2 DEF Inflight
    <3>2. QED  BY <2>2, <3>1 DEF LockBuild
  <2>3. QED  BY <2>1, <2>2
<1>3. /\ entries' = [entries EXCEPT ![proc[p].key] = Nothing] /\ active' = NoLease /\ live' = live \ {active.id}
      /\ proc[p].pc = "lock"
  BY DEF LockBuild
<1> HIDE DEF ps
<1>4. proc' = [ps EXCEPT ![p] = n(pc, o)]
  BY <1>1, <1>2 DEF AllAside
<1>5. ProcessShape(ps[p]) /\ (ps[p].current => ~ ps[p].void)
  BY <1>1 DEF AllAside, Aside
<1>6. Called(ps[p], n(pc, o))
  BY <1>5 DEF Called, ProcessShape, ProcessFields
<1> HIDE DEF n
<1>7. Called(proc[p], n(pc, o))
  BY <1>1, <1>6 DEF Called, AllAside, Aside
<1>8. /\ entries' = [x \in Contexts |-> entries'[x]]
      /\ \A x \in Contexts : entries'[x] \in {Nothing, entries[x]}
  BY <1>3 DEF LeaseInv, Shapes
<1>9. OneLiveLease' /\ InvalidatedIsGone'
  BY <1>3, <1>8 DEF LeaseInv, OneLiveLease, InvalidatedIsGone, NoLease
<1>10. QED  BY <1>1, <1>3, <1>4, <1>7, <1>8, <1>9 DEF AllAside, CacheEffect

LEMMA DeliveredAside ==
  ASSUME NEW p \in Processes, LeaseInv, NEW outcome
  PROVE  AllAside(Delivered(p, outcome))
<1> DEFINE n(q) == [proc[q] EXCEPT !.call = outcome]
           ps == Delivered(p, outcome)
<1>1. ASSUME NEW q \in Processes PROVE Aside(proc[q], n(q))
  <2> DEFINE r == proc[q]
  <2>1. ProcessShape(r) /\ (r.current => ~ r.void)
    BY DEF LeaseInv, Shapes, CurrentIsValid
  <2> HIDE DEF r
  <2>2. Aside(r, [r EXCEPT !.call = outcome])
    BY <2>1 DEF Aside, ProcessShape, ProcessFields
  <2>3. QED  BY <2>2 DEF r
<1>2. ps = [q \in Processes |-> IF proc[q].on = p /\ proc[q].pc = "join" THEN n(q) ELSE proc[q]]
  BY DEF Delivered
<1> HIDE DEF n
<1>3. QED  BY <1>1, <1>2, AllAsideSelf DEF AllAside

LEMMA BuiltEffect == ASSUME NEW p \in Processes, LeaseInv, NEW outcome, BuildEnds(p, outcome) PROVE CacheEffect(p)
<1> DEFINE ps == Delivered(p, outcome)
           k == proc[p].key
           cached == ~shut /\ ~Superseded(p) /\ outcome = "built"
<1>1. AllAside(ps)
  BY DeliveredAside
<1>2. proc[p].pc = "build" /\ k \in Contexts
  BY DEF BuildEnds, LeaseInv, KeysNamed, Named
<1>3. cached => ~ Clients(p).void
  BY DEF Superseded, Clients
<1>4. entries' = IF cached THEN [entries EXCEPT ![k] = Clients(p)] ELSE entries
  BY DEF BuildEnds
<1>5. /\ entries' = [x \in Contexts |-> entries'[x]]
      /\ \A x \in Contexts : entries'[x] = entries[x] \/ (cached /\ entries'[x] = Clients(p))
  <2> DEFINE c == Clients(p)
  <2>0. entries = [x \in Contexts |-> entries[x]]
    BY DEF LeaseInv, Shapes
  <2>1. CASE cached
    <3>1. entries' = [entries EXCEPT ![k] = c]
      BY <1>4, <2>1
    <3> HIDE DEF cached, k, c
    <3>2. /\ entries' = [x \in Contexts |-> entries'[x]]
          /\ \A x \in Contexts : entries'[x] = entries[x] \/ entries'[x] = c
      BY <2>0, <3>1
    <3>3. QED  BY <2>1, <3>2 DEF c
  <2>2. CASE ~ cached
    <3>1. entries' = entries
      BY <1>4, <2>2
    <3> HIDE DEF cached
    <3>2. QED  BY <2>0, <3>1
  <2> HIDE DEF cached
  <2>3. QED  BY <2>1, <2>2
<1>6. \A x \in Contexts : entries'[x] # Nothing => ~ entries'[x].void
  <2> HIDE DEF cached
  <2>1. QED  BY <1>3, <1>5 DEF LeaseInv, InvalidatedIsGone
<1>7. CASE cached /\ ~ Matches(active, p)
  <2>1. ActivateLocked(p, Clients(p), ps)
    BY <1>7 DEF BuildEnds
  <2> HIDE DEF ps, cached
  <2>2. QED  BY <1>1, <1>2, <1>3, <1>5, <1>6, <1>7, <2>1, LockedEffect DEF CacheEffect, InvalidatedIsGone
<1>8. CASE ~ (cached /\ ~ Matches(active, p))
  <2>1. UNCHANGED <<active, live>>
    BY <1>8 DEF BuildEnds
  <2>2. OneLiveLease' /\ InvalidatedIsGone'
    BY <1>6, <2>1 DEF LeaseInv, OneLiveLease, InvalidatedIsGone
  <2>3. CASE cached
    <3>1. proc' = Holding(p, active, ps) /\ active.ctx = k
      BY <1>8, <2>3 DEF BuildEnds, Matches
    <3> HIDE DEF ps, cached
    <3>2. QED  BY <1>1, <1>2, <1>5, <2>2, <3>1, HoldingEffect DEF CacheEffect
  <2>4. CASE ~ cached
    <3>1. PICK fault : proc' = Failing(p, fault, ps)
      BY <1>8, <2>4 DEF BuildEnds
    <3> HIDE DEF ps, cached
    <3>2. QED  BY <1>1, <1>2, <1>5, <2>2, <3>1, FailingEffect DEF CacheEffect
  <2>5. QED  BY <2>3, <2>4
<1>9. QED  BY <1>7, <1>8

LEMMA JoinEffect == ASSUME NEW p \in Processes, LeaseInv, JoinEnds(p) PROVE CacheEffect(p)
<1> DEFINE ready == proc[p].current /\ proc[p].call = "built" /\ ~shut
<1>1. AllAside(proc)
  BY AllAsideSelf
<1>2. proc[p].pc = "join" /\ entries' = entries
  BY DEF JoinEnds
<1>3. ready => ~ Clients(p).void
  BY DEF Clients, LeaseInv, CurrentIsValid
<1>7. CASE ready /\ ~ Matches(active, p)
  <2>1. ActivateLocked(p, Clients(p), proc)
    BY <1>7 DEF JoinEnds
  <2> HIDE DEF ready
  <2>2. QED  BY <1>1, <1>2, <1>3, <1>7, <2>1, LockedEffect DEF CacheEffect, LeaseInv, Shapes, InvalidatedIsGone
<1>8. CASE ~ (ready /\ ~ Matches(active, p))
  <2>1. UNCHANGED <<entries, active, live>>
    BY <1>2, <1>8 DEF JoinEnds
  <2>3. CASE ready
    <3>1. proc' = Holding(p, active, proc) /\ active.ctx = proc[p].key
      BY <1>8, <2>3 DEF JoinEnds, Matches
    <3> HIDE DEF ready
    <3>2. QED  BY <1>1, <1>2, <2>1, <3>1, HoldingEffect, LeasesStay DEF CacheEffect
  <2>4. CASE ~ ready
    <3>1. PICK fault : proc' = Failing(p, fault, proc)
      BY <1>8, <2>4 DEF JoinEnds
    <3> HIDE DEF ready
    <3>2. QED  BY <1>1, <1>2, <2>1, <3>1, FailingEffect, LeasesStay DEF CacheEffect
  <2>5. QED  BY <2>3, <2>4
<1>9. QED  BY <1>7, <1>8

LEMMA CacheMoved == ASSUME NEW p \in Processes, LeaseInv, CacheMoves(p) PROVE CacheEffect(p)
  BY Checks, Locks, Enters, Builds, BuiltEffect, JoinEffect DEF CacheMoves, ActivateStep

-----------------------------------------------------------------------------
(* The runtime keeps the binding *)

\* What a process that works for a binding has of it: the clients it resolved,
\* leased and measured are those of the binding's context.
Serves(p, r) ==
    /\ r.used = Nothing
    /\ r.pc # "publish" => r.measured = Nothing
    /\ r.measured \in {Nothing, r.bound.ctx}
    /\ r.pc \in {"begin", "check", "lock", "build", "join", "leased", "refused", "version", "use"} =>
         r.key = r.bound.ctx
    /\ r.pc \in {"leased", "version", "use"} => r.held.ctx = r.key
    /\ r.pc \in {"commit", "snapshot"} /\ p \in Selecting => r.key = Destination[p]
    /\ r.pc \in {"hook", "bind"} /\ p \in Selects => r.key = r.bound.ctx

\* Who commits holds the coordinator's lock, for the generation that was minted.
HolderInv ==
    \A p \in Processes : proc[p].pc \in {"hook", "bind"} =>
        holder = p /\ p \in Selects \cup Scopes /\ proc[p].bound.gen = minted

\* What is shown is not newer than what is selected, nor that than what exists.
GenerationsInv ==
    /\ minted \in Nat /\ selection.gen \in Nat /\ status.gen \in Nat
    /\ status.gen <= selection.gen /\ selection.gen <= minted

Early == {"resolve", "commit", "snapshot"}

\* Until Bootstrap is done nobody else has begun.
BootAlone ==
    proc[Boot].pc # "done" =>
        /\ holder = Nothing
        /\ \A q \in Processes : q # Boot => proc[q].pc \in {"resolve", "idle"}
        /\ proc[Boot].pc = "snapshot" => selection.ctx = Destination[Boot]
        /\ proc[Boot].pc \notin Early => proc[Boot].bound = selection

BindingInv ==
    /\ rt.cand = rt.ctx
    /\ \A p \in Processes : Serves(p, proc[p])
    /\ HolderInv /\ GenerationsInv /\ BootAlone

Preserved == LeaseInv' /\ (BindingInv /\ ~Async => BindingInv')

\* One process changes, to n.
LEMMA OneMoves ==
  ASSUME LeaseInv, NEW p \in Processes, NEW n, ProcessShape(n), proc' = [proc EXCEPT ![p] = n]
  PROVE  /\ proc' = [q \in Processes |-> proc'[q]] /\ proc'[p] = n
         /\ \A q \in Processes : q # p => proc'[q] = proc[q] /\ Aside(proc[q], proc'[q])
  BY AllAsideSelf DEF AllAside

\* One process moves, what is its own aside.
Moves(p) ==
    /\ proc' = [q \in Processes |-> proc'[q]]
    /\ \A q \in Processes : q # p => Aside(proc[q], proc'[q])
    /\ ProcessShape(proc'[p]) /\ (proc'[p].current => ~ proc'[p].void)

LeasesKept == entries' = [x \in Contexts |-> entries'[x]] /\ OneLiveLease' /\ InvalidatedIsGone'

LEMMA LeaseMoved ==
  ASSUME LeaseInv, NEW p \in Processes, Moves(p), LeasesKept, Named(p, proc'[p]),
         RuntimeShape(rt'), rt'.cand \in Contexts \cup {Nothing}
  PROVE  LeaseInv'
<1>1. \A q \in Processes : ProcessShape(proc'[q]) /\ (proc'[q].current => ~ proc'[q].void)
  BY DEF Moves, Aside
<1>2. ASSUME NEW q \in Processes PROVE Named(q, proc'[q])
  <2>1. CASE q # p
    <3>1. Named(q, proc[q]) /\ proc'[q].pc = proc[q].pc /\ proc'[q].key = proc[q].key
      BY <2>1 DEF Moves, Aside, LeaseInv, KeysNamed
    <3>2. QED  BY <3>1 DEF Named
  <2>2. QED  BY <2>1
<1>3. Shapes'
  BY <1>1 DEF Shapes, Moves, LeasesKept
<1>4. QED  BY <1>1, <1>2, <1>3 DEF LeaseInv, CurrentIsValid, KeysNamed, LeasesKept

LEMMA BindingMoved ==
  ASSUME BindingInv, ~Async, NEW p \in Processes, Moves(p), Serves(p, proc'[p]), GenerationsInv',
         rt'.cand = rt'.ctx, UNCHANGED <<selection, minted, holder>>, proc'[p].pc \notin {"hook", "bind"},
         p # Boot => Serving \/ proc[p].pc \notin {"resolve", "idle"},
         p = Boot => \/ proc'[p].pc = "done"
                     \/ /\ proc'[p].bound = proc[p].bound
                        /\ proc[p].pc \notin Early \cup {"done"} /\ proc'[p].pc \notin Early
  PROVE  BindingInv'
<1>0. Boot \in Processes
  OBVIOUS
<1>1. ASSUME NEW q \in Processes, q # p
      PROVE  Serves(q, proc'[q]) /\ proc'[q].pc = proc[q].pc /\ proc'[q].bound = proc[q].bound
  <2>1. Aside(proc[q], proc'[q]) /\ Serves(q, proc[q])
    BY <1>1 DEF Moves, BindingInv
  <2>2. QED  BY <2>1 DEF Aside, Serves
<1>2. \A q \in Processes : Serves(q, proc'[q])
  BY <1>1
<1>3. HolderInv'
  BY <1>1 DEF BindingInv, HolderInv
<1>4. BootAlone'
  <2>1. CASE p # Boot
    <3>1. proc[Boot].pc = "done"
      BY <2>1 DEF Serving, BindingInv, BootAlone
    <3>2. QED  BY <1>0, <1>1, <2>1, <3>1 DEF BootAlone
  <2>2. CASE p = Boot
    BY <1>0, <1>1, <2>2 DEF BindingInv, BootAlone, Early
  <2>3. QED  BY <2>1, <2>2
<1>5. QED  BY <1>2, <1>3, <1>4 DEF BindingInv

\* The end of a process.
HasEnded(n) == ProcessShape(n) /\ n.pc = "done" /\ ~ n.current /\ n.measured = Nothing

LEMMA DoneShape ==
  ASSUME NEW p \in Processes, NEW ps, ps = [q \in Processes |-> ps[q]]
  PROVE  LET n == Done(p, ps)[p] IN
         /\ Done(p, ps) = [ps EXCEPT ![p] = n]
         /\ HasEnded(n)
         /\ ps[p].used \in {Nothing, ps[p].bound.ctx} => n.used = Nothing
<1> DEFINE u == IF ps[p].used \in {Nothing, ps[p].bound.ctx} THEN Nothing ELSE ps[p].used
           b == IF ps[p].used \in {Nothing, ps[p].bound.ctx} THEN Unbound ELSE ps[p].bound
           n == [NewProcess(p) EXCEPT !.pc = "done", !.used = u, !.bound = b]
<1>1. Done(p, ps) = [ps EXCEPT ![p] = n]
  BY DEF Done
<1>2. Done(p, ps)[p] = n
  BY <1>1
<1>3. ps[p].used \in {Nothing, ps[p].bound.ctx} => u = Nothing
  OBVIOUS
<1> HIDE DEF u, b
<1>4. HasEnded(n) /\ n.used = u
  BY DEF NewProcess, HasEnded, ProcessShape, ProcessFields
<1> HIDE DEF n
<1>5. QED  BY <1>1, <1>2, <1>3, <1>4

\* What is reported of an activation.
LEMMA ReportsShape ==
  ASSUME NEW p \in Processes, LeaseInv, NEW m
  PROVE  LET n == Reports(p, m)[p] IN
         /\ Reports(p, m) = [proc EXCEPT ![p] = n]
         /\ ProcessShape(n) /\ ~ n.current /\ n.pc = "publish" /\ n.bound = proc[p].bound
         /\ n.measured = m /\ n.used = Nothing
<1> DEFINE b == proc[p].bound
           n == [NewProcess(p) EXCEPT !.pc = "publish", !.bound = b, !.measured = m]
<1>1. Reports(p, m) = [proc EXCEPT ![p] = n]
  BY DEF Reports
<1>2. Reports(p, m)[p] = n
  BY <1>1 DEF LeaseInv, Shapes
<1> HIDE DEF b
<1>3. ProcessShape(n) /\ ~ n.current /\ n.pc = "publish" /\ n.bound = b /\ n.measured = m /\ n.used = Nothing
  BY DEF NewProcess, ProcessShape, ProcessFields
<1> HIDE DEF n
<1>4. QED  BY <1>1, <1>2, <1>3 DEF b

-----------------------------------------------------------------------------
(* One process moves *)

LEMMA StepKept ==
  ASSUME LeaseInv, NEW p \in Processes, NEW n, ProcessShape(n), n.current => ~ n.void,
         proc' = [proc EXCEPT ![p] = n], Named(p, n), LeasesKept,
         RuntimeShape(rt'), rt'.cand \in Contexts \cup {Nothing}, UNCHANGED <<selection, minted, holder>>,
         BindingInv /\ ~Async => Serves(p, n) /\ GenerationsInv' /\ rt'.cand = rt'.ctx,
         n.pc \notin {"hook", "bind"},
         p # Boot => Serving \/ proc[p].pc \notin {"resolve", "idle"},
         p = Boot => \/ n.pc = "done"
                     \/ /\ n.bound = proc[p].bound
                        /\ proc[p].pc \notin Early \cup {"done"} /\ n.pc \notin Early
  PROVE  Preserved
<1>1. /\ proc' = [q \in Processes |-> proc'[q]] /\ proc'[p] = n
      /\ \A q \in Processes : q # p => proc'[q] = proc[q] /\ Aside(proc[q], proc'[q])
  BY OneMoves
<1>2. Moves(p)
  BY <1>1 DEF Moves
<1>3. LeaseInv'
  BY <1>1, <1>2, LeaseMoved
<1>4. ASSUME BindingInv, ~Async PROVE BindingInv'
  BY <1>1, <1>2, <1>4, BindingMoved
<1>5. QED  BY <1>3, <1>4 DEF Preserved

\* What stays when the cache and the runtime do.
LEMMA StillKept ==
  ASSUME LeaseInv, UNCHANGED <<cacheVars, runtimeVars>>
  PROVE  /\ LeasesKept /\ RuntimeShape(rt') /\ rt'.cand \in Contexts \cup {Nothing}
         /\ UNCHANGED <<selection, minted, holder>>
         /\ BindingInv => GenerationsInv' /\ rt'.cand = rt'.ctx
<1>1. LeasesKept
  BY LeasesStay DEF LeasesKept, cacheVars
<1>2. UNCHANGED <<selection, minted, holder, rt, status>>
  BY DEF runtimeVars
<1>3. RuntimeShape(rt') /\ rt'.cand \in Contexts \cup {Nothing}
  BY <1>2 DEF LeaseInv, Shapes, KeysNamed
<1>4. BindingInv => GenerationsInv' /\ rt'.cand = rt'.ctx
  BY <1>2 DEF BindingInv, GenerationsInv
<1>5. QED  BY <1>1, <1>2, <1>3, <1>4

LEMMA EndKept ==
  ASSUME LeaseInv, NEW p \in Processes, proc' = Done(p, proc), LeasesKept,
         RuntimeShape(rt'), rt'.cand \in Contexts \cup {Nothing}, UNCHANGED <<selection, minted, holder>>,
         BindingInv /\ ~Async => GenerationsInv' /\ rt'.cand = rt'.ctx,
         p # Boot => Serving \/ proc[p].pc \notin {"resolve", "idle"}
  PROVE  Preserved
<1> DEFINE n == Done(p, proc)[p]
<1>1. /\ proc' = [proc EXCEPT ![p] = n] /\ HasEnded(n)
      /\ proc[p].used \in {Nothing, proc[p].bound.ctx} => n.used = Nothing
  BY DoneShape DEF LeaseInv, Shapes
<1> HIDE DEF n
<1>2. BindingInv => Serves(p, n)
  <2>1. BindingInv => n.used = Nothing
    BY <1>1 DEF BindingInv, Serves
  <2>2. QED  BY <1>1, <2>1 DEF Serves, HasEnded
<1>3. Named(p, n)
  BY <1>1 DEF Named, HasEnded
<1>4. ProcessShape(n) /\ ~ n.current /\ n.pc = "done"
  BY <1>1 DEF HasEnded
<1>5. QED  BY <1>1, <1>2, <1>3, <1>4, StepKept

LEMMA ReportKept ==
  ASSUME LeaseInv, NEW p \in Processes, NEW m, proc' = Reports(p, m), UNCHANGED <<cacheVars, runtimeVars>>,
         BindingInv /\ ~Async => m \in {Nothing, proc[p].bound.ctx},
         proc[p].pc \notin Early \cup {"idle", "done"}
  PROVE  Preserved
<1> DEFINE n == Reports(p, m)[p]
<1>1. /\ proc' = [proc EXCEPT ![p] = n]
      /\ ProcessShape(n) /\ ~ n.current /\ n.pc = "publish" /\ n.bound = proc[p].bound
      /\ n.measured = m /\ n.used = Nothing
  BY ReportsShape
<1> HIDE DEF n
<1>2. BindingInv /\ ~Async => Serves(p, n)
  BY <1>1 DEF Serves
<1>3. Named(p, n)
  BY <1>1 DEF Named
<1>4. n.pc \notin Early
  BY <1>1 DEF Early
<1>5. proc[p].pc \notin {"resolve", "idle"}
  BY DEF Early
<1>6. /\ LeasesKept /\ RuntimeShape(rt') /\ rt'.cand \in Contexts \cup {Nothing}
      /\ UNCHANGED <<selection, minted, holder>>
      /\ BindingInv => GenerationsInv' /\ rt'.cand = rt'.ctx
  BY StillKept
<1>7. QED  BY <1>1, <1>2, <1>3, <1>4, <1>5, <1>6, StepKept

\* A process takes a step by itself, to n.
LEMMA MoveKept ==
  ASSUME LeaseInv, NEW p \in Processes, NEW n, ProcessShape(n), n.current => ~ n.void,
         proc' = [proc EXCEPT ![p] = n], Named(p, n), UNCHANGED <<cacheVars, runtimeVars>>,
         BindingInv /\ ~Async => Serves(p, n),
         n.pc \notin {"hook", "bind"},
         p # Boot => Serving \/ proc[p].pc \notin {"resolve", "idle"},
         p = Boot => \/ n.pc = "done"
                     \/ /\ n.bound = proc[p].bound
                        /\ proc[p].pc \notin Early \cup {"done"} /\ n.pc \notin Early
  PROVE  Preserved
<1>1. /\ LeasesKept /\ RuntimeShape(rt') /\ rt'.cand \in Contexts \cup {Nothing}
      /\ UNCHANGED <<selection, minted, holder>>
      /\ BindingInv => GenerationsInv' /\ rt'.cand = rt'.ctx
  BY StillKept
<1>2. QED  BY <1>1, StepKept

LEMMA EndStill ==
  ASSUME LeaseInv, NEW p \in Processes, proc' = Done(p, proc), UNCHANGED <<cacheVars, runtimeVars>>,
         p # Boot => Serving \/ proc[p].pc \notin {"resolve", "idle"}
  PROVE  Preserved
  BY StillKept, EndKept

-----------------------------------------------------------------------------
(* Activations *)

LEMMA Overtakes ==
  ASSUME LeaseInv, NEW p \in Processes, proc' = Overtaken(p), UNCHANGED <<cacheVars, runtimeVars>>,
         proc[p].pc \notin Early \cup {"idle", "done"}
  PROVE  Preserved
<1>1. CASE p = Boot
  BY <1>1, ReportKept DEF Overtaken
<1>2. CASE p # Boot
  BY <1>2, EndStill DEF Overtaken, Early
<1>3. QED  BY <1>1, <1>2

LEMMA RefusedKept == ASSUME LeaseInv, NEW p \in Processes, ActivateRefused(p) PROVE Preserved
<1>1. UNCHANGED <<cacheVars, runtimeVars>> /\ proc[p].pc \notin Early \cup {"idle", "done"}
  BY DEF ActivateRefused, Move, Early
<1>2. proc' = Reports(p, Nothing) \/ proc' = Overtaken(p)
  BY DEF ActivateRefused, Move
<1>3. QED  BY <1>1, <1>2, ReportKept, Overtakes

LEMMA LeasedKept == ASSUME LeaseInv, NEW p \in Processes, PublishLease(p) PROVE Preserved
<1> DEFINE r == proc[p]
           n == [r EXCEPT !.pc = "version"]
<1>1. UNCHANGED <<cacheVars, runtimeVars>> /\ r.pc = "leased" /\ r.pc \notin Early \cup {"idle", "done"}
  BY DEF PublishLease, Move, Early
<1>2. proc' = [proc EXCEPT ![p] = n] \/ proc' = Overtaken(p)
  BY DEF PublishLease, Move, LeaseInv, Shapes
<1>3. CASE proc' = [proc EXCEPT ![p] = n]
  <2>1. ProcessShape(r) /\ (r.current => ~ r.void) /\ (BindingInv => Serves(p, r))
    BY DEF LeaseInv, Shapes, CurrentIsValid, BindingInv
  <2> HIDE DEF r
  <2>2. /\ ProcessShape(n) /\ n.pc = "version" /\ n.bound = r.bound /\ n.key = r.key /\ n.held = r.held
        /\ n.used = r.used /\ n.measured = r.measured /\ n.current = r.current /\ n.void = r.void
    BY <2>1 DEF ProcessShape, ProcessFields
  <2> HIDE DEF n
  <2>3. BindingInv => Serves(p, n)
    BY <1>1, <2>1, <2>2 DEF Serves
  <2>4. Named(p, n) /\ n.pc \notin Early
    BY <2>2 DEF Named, Early
  <2>5. r = proc[p]
    BY DEF r
  <2>6. QED  BY <1>1, <1>3, <2>1, <2>2, <2>3, <2>4, <2>5, MoveKept
<1>4. QED  BY <1>1, <1>2, <1>3, Overtakes

LEMMA VersionKept == ASSUME LeaseInv, NEW p \in Processes, CheckVersion(p) PROVE Preserved
<1> DEFINE m == IF proc[p].held.id \in live THEN proc[p].held.ctx ELSE Nothing
<1>1. UNCHANGED <<cacheVars, runtimeVars>> /\ proc[p].pc = "version" /\ proc[p].pc \notin Early \cup {"idle", "done"}
  BY DEF CheckVersion, Move, Early
<1>2. proc' = Reports(p, m) \/ proc' = Overtaken(p)
  BY DEF CheckVersion, Move
<1>3. BindingInv => m \in {Nothing, proc[p].bound.ctx}
  BY <1>1 DEF BindingInv, Serves
<1> HIDE DEF m
<1>4. QED  BY <1>1, <1>2, <1>3, ReportKept, Overtakes

LEMMA OwnKept ==
  ASSUME LeaseInv, NEW p \in Processes
  PROVE  /\ ProcessShape(proc[p]) /\ (proc[p].current => ~ proc[p].void) /\ Named(p, proc[p])
         /\ BindingInv => Serves(p, proc[p])
  BY DEF LeaseInv, Shapes, CurrentIsValid, BindingInv, KeysNamed

LEMMA PublishKept == ASSUME LeaseInv, NEW p \in Processes, Publish(p) PROVE Preserved
<1>1. /\ proc[p].pc = "publish" /\ proc' = Done(p, proc)
      /\ UNCHANGED <<cacheVars, selection, minted, holder, rt>>
      /\ status' = IF p = Boot \/ selection = proc[p].bound THEN Published(p) ELSE status
  BY DEF Publish
<1>2. LeasesKept
  BY <1>1, LeasesStay DEF LeasesKept, cacheVars
<1>3. RuntimeShape(rt') /\ rt'.cand \in Contexts \cup {Nothing} /\ (BindingInv => rt'.cand = rt'.ctx)
  BY <1>1 DEF LeaseInv, Shapes, KeysNamed, BindingInv
<1>4. BindingInv => GenerationsInv'
  <2> SUFFICES ASSUME BindingInv PROVE GenerationsInv'
    OBVIOUS
  <2>0. p = Boot => proc[p].bound = selection
    BY <1>1 DEF BindingInv, BootAlone, Early
  <2>1. status' = status \/ (proc[p].bound = selection /\ status' = Published(p))
    BY <1>1, <2>0
  <2>2. Published(p).gen = proc[p].bound.gen
    BY DEF Published
  <2>3. status'.gen \in {status.gen, selection.gen}
    BY <2>1, <2>2
  <2>4. QED  BY <1>1, <2>3 DEF BindingInv, GenerationsInv
<1>5. QED  BY <1>1, <1>2, <1>3, <1>4, EndKept

LEMMA BeginKept == ASSUME LeaseInv, NEW p \in Processes, BeginActivation(p) PROVE Preserved
<1> DEFINE r == proc[p]
           n == [r EXCEPT !.pc = "check"]
<1>1. /\ r.pc = "begin" /\ UNCHANGED <<cacheVars, selection, minted, holder, status>>
      /\ \/ proc' = Done(p, proc) /\ rt' = rt
         \/ /\ rt' = [cand |-> r.key, fp |-> r.res, ctx |-> r.bound.ctx, gen |-> r.bound.gen]
            /\ proc' = [proc EXCEPT ![p] = n]
  BY DEF BeginActivation, LeaseInv, Shapes
<1>2. LeasesKept
  BY <1>1, LeasesStay DEF LeasesKept, cacheVars
<1>3. BindingInv => GenerationsInv'
  BY <1>1 DEF BindingInv, GenerationsInv
<1>4. ProcessShape(r) /\ (r.current => ~ r.void) /\ (BindingInv => Serves(p, r)) /\ Named(p, r) /\ r = proc[p]
  BY OwnKept
<1> HIDE DEF r
<1>5. CASE proc' = Done(p, proc) /\ rt' = rt
  <2>1. RuntimeShape(rt') /\ rt'.cand \in Contexts \cup {Nothing} /\ (BindingInv => rt'.cand = rt'.ctx)
    BY <1>5 DEF LeaseInv, Shapes, KeysNamed, BindingInv
  <2>2. QED  BY <1>1, <1>2, <1>3, <1>4, <1>5, <2>1, EndKept
<1>6. CASE /\ rt' = [cand |-> r.key, fp |-> r.res, ctx |-> r.bound.ctx, gen |-> r.bound.gen]
           /\ proc' = [proc EXCEPT ![p] = n]
  <2>1. RuntimeShape(rt') /\ rt'.cand = r.key /\ rt'.ctx = r.bound.ctx
    BY <1>6 DEF RuntimeShape
  <2>2. rt'.cand \in Contexts /\ (BindingInv => rt'.cand = rt'.ctx)
    BY <1>1, <1>4, <2>1 DEF Named, Serves
  <2>3. /\ ProcessShape(n) /\ n.pc = "check" /\ n.bound = r.bound /\ n.key = r.key
        /\ n.used = r.used /\ n.measured = r.measured /\ n.current = r.current /\ n.void = r.void
    BY <1>4 DEF ProcessShape, ProcessFields
  <2> HIDE DEF n
  <2>4. BindingInv => Serves(p, n)
    BY <1>1, <1>4, <2>3 DEF Serves
  <2>5. Named(p, n) /\ n.pc \notin Early /\ r.pc \notin Early
    BY <1>1, <1>4, <2>3 DEF Named, Early
  <2>6. QED  BY <1>1, <1>2, <1>3, <1>4, <1>6, <2>1, <2>2, <2>3, <2>4, <2>5, StepKept
<1>7. QED  BY <1>1, <1>5, <1>6

-----------------------------------------------------------------------------
(* Requests *)

LEMMA AskKept == ASSUME LeaseInv, NEW p \in Processes, Ask(p) PROVE Preserved
<1> DEFINE r == proc[p]
           n(b) == [r EXCEPT !.pc = "lease", !.bound = b]
<1>1. /\ r.pc = "idle" /\ UNCHANGED <<cacheVars, runtimeVars>> /\ Serving /\ p # Boot
      /\ proc' = Done(p, proc) \/ \E b : proc' = [proc EXCEPT ![p] = n(b)]
  BY DEF Ask, Move, LeaseInv, Shapes
<1>2. ProcessShape(r) /\ (r.current => ~ r.void) /\ (BindingInv => Serves(p, r)) /\ r = proc[p]
  BY OwnKept
<1> HIDE DEF r
<1>3. ASSUME NEW b, proc' = [proc EXCEPT ![p] = n(b)] PROVE Preserved
  <2> DEFINE m == n(b)
  <2>1. /\ ProcessShape(m) /\ m.pc = "lease"
        /\ m.used = r.used /\ m.measured = r.measured /\ m.current = r.current /\ m.void = r.void
    BY <1>2 DEF ProcessShape, ProcessFields
  <2>2. proc' = [proc EXCEPT ![p] = m]
    BY <1>3
  <2> HIDE DEF m, n
  <2>3. BindingInv => Serves(p, m)
    BY <1>1, <1>2, <2>1 DEF Serves
  <2>4. Named(p, m)
    BY <2>1 DEF Named
  <2>5. QED  BY <1>1, <1>2, <2>1, <2>2, <2>3, <2>4, MoveKept
<1>4. QED  BY <1>1, <1>3, EndStill

LEMMA LeaseForKept == ASSUME LeaseInv, NEW p \in Processes, LeaseFor(p) PROVE Preserved
<1> DEFINE r == proc[p]
           n == [r EXCEPT !.pc = "check", !.key = rt.cand, !.res = rt.fp]
<1>1. /\ r.pc = "lease" /\ UNCHANGED <<cacheVars, runtimeVars>>
      /\ \/ proc' = Done(p, proc)
         \/ rt.cand # Nothing /\ rt.ctx = r.bound.ctx /\ proc' = [proc EXCEPT ![p] = n]
  BY DEF LeaseFor, Move, MatchesBinding, LeaseInv, Shapes
<1>2. ProcessShape(r) /\ (r.current => ~ r.void) /\ (BindingInv => Serves(p, r)) /\ r = proc[p]
  BY OwnKept
<1> HIDE DEF r
<1>3. CASE rt.cand # Nothing /\ rt.ctx = r.bound.ctx /\ proc' = [proc EXCEPT ![p] = n]
  <2>1. /\ ProcessShape(n) /\ n.pc = "check" /\ n.bound = r.bound /\ n.key = rt.cand
        /\ n.used = r.used /\ n.measured = r.measured /\ n.current = r.current /\ n.void = r.void
    BY <1>2 DEF ProcessShape, ProcessFields
  <2> HIDE DEF n
  <2>2. BindingInv => Serves(p, n)
    BY <1>1, <1>2, <1>3, <2>1 DEF Serves, BindingInv
  <2>3. Named(p, n) /\ n.pc \notin Early /\ r.pc \notin Early
    BY <1>1, <1>3, <2>1 DEF Named, Early, LeaseInv, KeysNamed
  <2>4. QED  BY <1>1, <1>2, <1>3, <2>1, <2>2, <2>3, MoveKept
<1>4. QED  BY <1>1, <1>2, <1>3, EndStill

LEMMA ResolveAgainKept == ASSUME LeaseInv, NEW p \in Processes, ResolveAgain(p) PROVE Preserved
<1> DEFINE r == proc[p]
           n == [r EXCEPT !.pc = "check", !.retried = TRUE, !.fault = "none", !.res = file[r.key]]
<1>1. /\ r.pc = "refused" /\ UNCHANGED <<cacheVars, runtimeVars>>
      /\ proc' = Done(p, proc) \/ proc' = [proc EXCEPT ![p] = n]
  BY DEF ResolveAgain, Move, LeaseInv, Shapes
<1>2. ProcessShape(r) /\ (r.current => ~ r.void) /\ (BindingInv => Serves(p, r)) /\ Named(p, r) /\ r = proc[p]
  BY OwnKept
<1> HIDE DEF r
<1>3. CASE proc' = [proc EXCEPT ![p] = n]
  <2>1. /\ ProcessShape(n) /\ n.pc = "check" /\ n.bound = r.bound /\ n.key = r.key
        /\ n.used = r.used /\ n.measured = r.measured /\ n.current = r.current /\ n.void = r.void
    BY <1>2 DEF ProcessShape, ProcessFields
  <2> HIDE DEF n
  <2>2. BindingInv => Serves(p, n)
    BY <1>1, <1>2, <2>1 DEF Serves
  <2>3. Named(p, n) /\ n.pc \notin Early /\ r.pc \notin Early
    BY <1>1, <1>2, <2>1 DEF Named, Early
  <2>4. QED  BY <1>1, <1>2, <1>3, <2>1, <2>2, <2>3, MoveKept
<1>4. QED  BY <1>1, <1>2, <1>3, EndStill

LEMMA AdoptKept == ASSUME LeaseInv, NEW p \in Processes, AdoptCandidate(p) PROVE Preserved
<1> DEFINE r == proc[p]
           n == [r EXCEPT !.pc = "use"]
<1>1. /\ r.pc = "leased" /\ UNCHANGED <<cacheVars, selection, minted, holder, status>>
      /\ proc' = [proc EXCEPT ![p] = n] /\ (rt' = rt \/ rt' = [rt EXCEPT !.fp = r.res])
  BY DEF AdoptCandidate, LeaseInv, Shapes
<1>2. ProcessShape(r) /\ (r.current => ~ r.void) /\ (BindingInv => Serves(p, r)) /\ r = proc[p]
  BY OwnKept
<1> HIDE DEF r
<1>3. LeasesKept
  BY <1>1, LeasesStay DEF LeasesKept, cacheVars
<1>4. RuntimeShape(rt') /\ rt'.cand = rt.cand /\ rt'.ctx = rt.ctx
  BY <1>1 DEF LeaseInv, Shapes, RuntimeShape
<1>5. rt'.cand \in Contexts \cup {Nothing} /\ (BindingInv => rt'.cand = rt'.ctx /\ GenerationsInv')
  BY <1>1, <1>4 DEF LeaseInv, KeysNamed, BindingInv, GenerationsInv
<1>6. /\ ProcessShape(n) /\ n.pc = "use" /\ n.bound = r.bound /\ n.key = r.key /\ n.held = r.held
      /\ n.used = r.used /\ n.measured = r.measured /\ n.current = r.current /\ n.void = r.void
  BY <1>2 DEF ProcessShape, ProcessFields
<1> HIDE DEF n
<1>7. BindingInv => Serves(p, n)
  BY <1>1, <1>2, <1>6 DEF Serves
<1>8. Named(p, n) /\ n.pc \notin Early /\ r.pc \notin Early
  BY <1>1, <1>6 DEF Named, Early
<1>9. QED  BY <1>1, <1>2, <1>3, <1>4, <1>5, <1>6, <1>7, <1>8, StepKept

LEMMA UseKept == ASSUME LeaseInv, NEW p \in Processes, Use(p) PROVE Preserved
<1> DEFINE r == proc[p]
           x == IF r.held.id \in live THEN r.held.ctx ELSE Nothing
           m == [r EXCEPT !.used = x]
           ps == [proc EXCEPT ![p] = m]
           n == Done(p, ps)[p]
<1>1. r.pc = "use" /\ UNCHANGED <<cacheVars, runtimeVars>> /\ proc' = Done(p, ps)
  BY DEF Use, Move, LeaseInv, Shapes
<1>2. ProcessShape(r) /\ (BindingInv => Serves(p, r)) /\ r = proc[p]
  BY OwnKept
<1>3. BindingInv => x \in {Nothing, r.bound.ctx}
  BY <1>1, <1>2 DEF Serves
<1> HIDE DEF r, x
<1>4. m.used = x /\ m.bound = r.bound
  BY <1>2 DEF ProcessShape, ProcessFields
<1> HIDE DEF m
<1>5. ps[p] = m /\ ps = [q \in Processes |-> ps[q]] /\ \A z : [ps EXCEPT ![p] = z] = [proc EXCEPT ![p] = z]
  BY DEF LeaseInv, Shapes
<1> HIDE DEF ps
<1>6. /\ proc' = [ps EXCEPT ![p] = n] /\ HasEnded(n)
      /\ ps[p].used \in {Nothing, ps[p].bound.ctx} => n.used = Nothing
  BY <1>1, <1>5, DoneShape
<1> HIDE DEF n
<1>7. proc' = [proc EXCEPT ![p] = n] /\ (BindingInv => n.used = Nothing)
  BY <1>3, <1>4, <1>5, <1>6
<1>8. BindingInv => Serves(p, n)
  BY <1>6, <1>7 DEF Serves, HasEnded
<1>9. Named(p, n) /\ ProcessShape(n) /\ ~ n.current /\ n.pc = "done"
  BY <1>6 DEF Named, HasEnded
<1>10. QED  BY <1>1, <1>2, <1>7, <1>8, <1>9, MoveKept

\* The cluster rejects the credentials.
LEMMA RejectedKept == ASSUME LeaseInv, NEW p \in Processes, Unauthorized(p) PROVE Preserved
<1> DEFINE ps == Done(p, proc)
           n == ps[p]
<1>1. PICK k : Invalidate(k, ps)
  BY DEF Unauthorized
<1>2. proc[p].pc = "use" /\ UNCHANGED <<selection, minted, holder, rt, status>>
  BY DEF Unauthorized
<1>3. ps = [proc EXCEPT ![p] = n] /\ HasEnded(n) /\ (proc[p].used \in {Nothing, proc[p].bound.ctx} => n.used = Nothing)
  BY DoneShape DEF LeaseInv, Shapes
<1> HIDE DEF ps, n
<1>4. ps = [q \in Processes |-> ps[q]] /\ ps[p] = n /\ \A q \in Processes : q # p => ps[q] = proc[q]
  BY <1>3 DEF LeaseInv, Shapes
<1>5. \A q \in Processes : ProcessShape(ps[q])
  BY <1>3, <1>4 DEF HasEnded, LeaseInv, Shapes
<1>6. /\ proc' = [q \in Processes |-> proc'[q]]
      /\ \A q \in Processes :
              /\ ProcessShape(proc'[q]) /\ ~ proc'[q].current
              /\ proc'[q].pc = ps[q].pc /\ proc'[q].bound = ps[q].bound
              /\ proc'[q].measured = ps[q].measured /\ proc'[q].used = ps[q].used
              /\ proc'[q].key = ps[q].key /\ proc'[q].held = ps[q].held
      /\ LeasesKept
  <2>1. ps = [q \in Processes |-> ps[q]]
    BY <1>4
  <2>2. /\ proc' = [q \in Processes |-> proc'[q]]
        /\ \A q \in Processes :
              /\ ProcessShape(proc'[q]) /\ ~ proc'[q].current
              /\ proc'[q].pc = ps[q].pc /\ proc'[q].bound = ps[q].bound
              /\ proc'[q].measured = ps[q].measured /\ proc'[q].used = ps[q].used
              /\ proc'[q].key = ps[q].key /\ proc'[q].held = ps[q].held
        /\ entries' = [x \in Contexts |-> entries'[x]]
        /\ OneLiveLease' /\ InvalidatedIsGone'
    BY <1>1, <1>5, <2>1, InvalidateAside
  <2>3. QED  BY <2>2 DEF LeasesKept
<1>7. ASSUME NEW q \in Processes, q # p PROVE Aside(proc[q], proc'[q])
  <2>1. ps[q] = proc[q]
    BY <1>4, <1>7
  <2>2. QED  BY <1>6, <2>1 DEF Aside
<1>8. Moves(p)
  BY <1>6, <1>7 DEF Moves
<1>9. proc'[p].pc = "done" /\ proc'[p].measured = Nothing /\ proc'[p].used = n.used
  BY <1>3, <1>4, <1>6 DEF HasEnded
<1>10. RuntimeShape(rt') /\ rt'.cand \in Contexts \cup {Nothing} /\ (BindingInv => rt'.cand = rt'.ctx /\ GenerationsInv')
  BY <1>2 DEF LeaseInv, Shapes, KeysNamed, BindingInv, GenerationsInv
<1>11. Named(p, proc'[p])
  BY <1>9 DEF Named
<1>12. LeaseInv'
  BY <1>6, <1>8, <1>10, <1>11, LeaseMoved
<1>13. ASSUME BindingInv, ~Async PROVE BindingInv'
  <2>1. n.used = Nothing
    BY <1>3, <1>13 DEF BindingInv, Serves
  <2>2. Serves(p, proc'[p])
    BY <1>9, <2>1 DEF Serves
  <2>3. QED  BY <1>2, <1>8, <1>9, <1>10, <1>13, <2>2, BindingMoved
<1>14. QED  BY <1>12, <1>13 DEF Preserved

\* A step of Activate in the cache.
LEMMA CacheKept ==
  ASSUME LeaseInv, NEW p \in Processes, CacheMoves(p), UNCHANGED <<selection, minted, holder, rt, status>>
  PROVE  Preserved
<1> DEFINE r == proc[p]
           n == proc'[p]
<1>1. CacheEffect(p)
  BY CacheMoved
<1>2. Moves(p) /\ LeasesKept
  BY <1>1 DEF CacheEffect, Moves, LeasesKept, Called
<1>3. /\ n.bound = r.bound /\ n.measured = r.measured /\ n.used = r.used /\ n.key = r.key
      /\ n.pc \in {"lock", "build", "join", "leased", "refused"} /\ (n.pc = "leased" => n.held.ctx = n.key)
      /\ r.pc \in {"check", "lock", "build", "join"}
  BY <1>1 DEF CacheEffect, Called
<1>4. Named(p, r) /\ (BindingInv => Serves(p, r))
  BY OwnKept
<1>5. RuntimeShape(rt') /\ rt'.cand \in Contexts \cup {Nothing} /\ (BindingInv => rt'.cand = rt'.ctx /\ GenerationsInv')
  BY DEF LeaseInv, Shapes, KeysNamed, BindingInv, GenerationsInv
<1> HIDE DEF n, r
<1>6. Named(p, n) /\ n.pc \notin Early \cup {"hook", "bind"} /\ r.pc \notin Early \cup {"done", "resolve", "idle"}
  BY <1>3, <1>4 DEF Named, Early
<1>7. BindingInv => Serves(p, n)
  BY <1>3, <1>4 DEF Serves
<1> USE DEF n, r
<1>8. LeaseInv'
  BY <1>2, <1>5, <1>6, LeaseMoved
<1>9. ASSUME BindingInv, ~Async PROVE BindingInv'
  BY <1>2, <1>3, <1>5, <1>6, <1>7, <1>9, BindingMoved
<1>10. QED  BY <1>8, <1>9 DEF Preserved

-----------------------------------------------------------------------------
(* Commits *)

LEMMA CommitKept == ASSUME LeaseInv, NEW p \in Processes, Commit(p) PROVE Preserved
<1> DEFINE r == proc[p]
           g == minted + 1
           c == IF p \in Selects THEN Destination[p] ELSE selection.ctx
           b == [ctx |-> c, gen |-> g]
           n == [r EXCEPT !.pc = "hook", !.bound = b]
<1>1. /\ p \in Selects \cup Scopes /\ holder = Nothing /\ minted' = g /\ holder' = p
      /\ p \in Selects => r.pc = "commit"
      /\ p \in Scopes => r.pc = "idle" /\ Serving
      /\ UNCHANGED <<cacheVars, selection, status>>
      /\ rt' = [rt EXCEPT !.gen = g] /\ proc' = [proc EXCEPT ![p] = n]
  BY DEF Commit, LeaseInv, Shapes
<1>2. ProcessShape(r) /\ (r.current => ~ r.void) /\ (BindingInv => Serves(p, r)) /\ Named(p, r) /\ r = proc[p]
  BY OwnKept
<1>3. b.ctx = c /\ b.gen = g /\ (p \in Selects => c = Destination[p])
  OBVIOUS
<1> HIDE DEF r, g, c, b
<1>4. RuntimeShape(rt') /\ rt'.cand = rt.cand /\ rt'.ctx = rt.ctx
  BY <1>1 DEF LeaseInv, Shapes, RuntimeShape
<1>5. /\ ProcessShape(n) /\ n.pc = "hook" /\ n.bound = b /\ n.key = r.key
      /\ n.used = r.used /\ n.measured = r.measured /\ n.current = r.current /\ n.void = r.void
  BY <1>2 DEF ProcessShape, ProcessFields
<1> HIDE DEF n
<1>6. /\ proc' = [q \in Processes |-> proc'[q]] /\ proc'[p] = n
      /\ \A q \in Processes : q # p => proc'[q] = proc[q] /\ Aside(proc[q], proc'[q])
  BY <1>1, <1>5, OneMoves
<1>7. LeaseInv'
  <2>1. Moves(p)
    BY <1>2, <1>5, <1>6 DEF Moves
  <2>2. LeasesKept
    BY <1>1, LeasesStay DEF LeasesKept, cacheVars
  <2>3. Named(p, n)
    BY <1>1, <1>2, <1>5 DEF Named
  <2>4. rt'.cand \in Contexts \cup {Nothing}
    BY <1>4 DEF LeaseInv, KeysNamed
  <2>5. QED  BY <1>4, <1>6, <2>1, <2>2, <2>3, <2>4, LeaseMoved
<1>8. ASSUME BindingInv, ~Async PROVE BindingInv'
  <2>1. proc[Boot].pc = "done" /\ p # Boot
    BY <1>1, <1>2, <1>8 DEF Serving, BindingInv, BootAlone
  <2>2. Serves(p, n)
    BY <1>1, <1>2, <1>3, <1>5, <1>8 DEF Serves, Selecting
  <2>3. \A q \in Processes : Serves(q, proc'[q])
    BY <1>6, <1>8, <2>2 DEF BindingInv
  <2>4. \A q \in Processes : proc[q].pc \notin {"hook", "bind"}
    BY <1>1, <1>8 DEF BindingInv, HolderInv
  <2>5. HolderInv'
    BY <1>1, <1>3, <1>5, <1>6, <2>4 DEF HolderInv
  <2>6. GenerationsInv'
    BY <1>1, <1>8 DEF BindingInv, GenerationsInv, g
  <2>7. BootAlone'
    BY <1>6, <2>1 DEF BootAlone
  <2>8. rt'.cand = rt'.ctx
    BY <1>4, <1>8 DEF BindingInv
  <2>9. QED  BY <2>3, <2>5, <2>6, <2>7, <2>8 DEF BindingInv
<1>9. QED  BY <1>7, <1>8 DEF Preserved

\* The hook moves on while the lock is held; what it invalidates is aside.
LEMMA HookKept == ASSUME LeaseInv, NEW p \in Processes, OnGeneration(p) PROVE Preserved
<1> DEFINE r == proc[p]
           n == [r EXCEPT !.pc = "bind"]
           ps == [proc EXCEPT ![p] = n]
<1>1. /\ r.pc = "hook" /\ UNCHANGED runtimeVars
      /\ (proc' = ps /\ UNCHANGED cacheVars) \/ \E k : Invalidate(k, ps)
  BY DEF OnGeneration, LeaseInv, Shapes
<1>2. ProcessShape(r) /\ (r.current => ~ r.void) /\ (BindingInv => Serves(p, r)) /\ Named(p, r) /\ r = proc[p]
  BY OwnKept
<1> HIDE DEF r
<1>3. /\ ProcessShape(n) /\ n.pc = "bind" /\ n.bound = r.bound /\ n.key = r.key
      /\ n.used = r.used /\ n.measured = r.measured /\ n.current = r.current /\ n.void = r.void
  BY <1>2 DEF ProcessShape, ProcessFields
<1> HIDE DEF n
<1>4. ps = [q \in Processes |-> ps[q]] /\ ps[p] = n /\ \A q \in Processes : q # p => ps[q] = proc[q]
  BY DEF LeaseInv, Shapes
<1>5. \A q \in Processes : ProcessShape(ps[q])
  BY <1>3, <1>4 DEF LeaseInv, Shapes
<1>6. /\ proc' = [q \in Processes |-> proc'[q]]
      /\ \A q \in Processes :
              /\ ProcessShape(proc'[q]) /\ (proc'[q].current => ~ proc'[q].void)
              /\ proc'[q].pc = ps[q].pc /\ proc'[q].bound = ps[q].bound
              /\ proc'[q].measured = ps[q].measured /\ proc'[q].used = ps[q].used
              /\ proc'[q].key = ps[q].key /\ proc'[q].held = ps[q].held
      /\ LeasesKept
  <2>1. CASE proc' = ps /\ UNCHANGED cacheVars
    <3>1. LeasesKept
      BY <2>1, LeasesStay DEF LeasesKept, cacheVars
    <3>2. \A q \in Processes : ps[q].current => ~ ps[q].void
      BY <1>2, <1>3, <1>4 DEF LeaseInv, CurrentIsValid
    <3> HIDE DEF ps
    <3>3. QED  BY <1>4, <1>5, <2>1, <3>1, <3>2
  <2>2. ASSUME NEW k, Invalidate(k, ps)
        PROVE  /\ proc' = [q \in Processes |-> proc'[q]]
               /\ \A q \in Processes :
                    /\ ProcessShape(proc'[q]) /\ ~ proc'[q].current
                    /\ proc'[q].pc = ps[q].pc /\ proc'[q].bound = ps[q].bound
                    /\ proc'[q].measured = ps[q].measured /\ proc'[q].used = ps[q].used
                    /\ proc'[q].key = ps[q].key /\ proc'[q].held = ps[q].held
               /\ entries' = [x \in Contexts |-> entries'[x]]
               /\ OneLiveLease' /\ InvalidatedIsGone'
    <3> HIDE DEF ps
    <3>1. ps = [q \in Processes |-> ps[q]]
      BY <1>4
    <3>2. QED  BY <1>5, <2>2, <3>1, InvalidateAside
  <2> HIDE DEF ps
  <2>3. CASE \E k : Invalidate(k, ps)
    BY <2>2, <2>3 DEF LeasesKept
  <2>4. QED  BY <1>1, <2>1, <2>3
<1> HIDE DEF ps
<1>7. ASSUME NEW q \in Processes, q # p PROVE Aside(proc[q], proc'[q])
  <2>1. ps[q] = proc[q]
    BY <1>4, <1>7
  <2>2. QED  BY <1>6, <2>1 DEF Aside
<1>8. Moves(p)
  BY <1>6, <1>7 DEF Moves
<1>9. /\ proc'[p].pc = "bind" /\ proc'[p].bound = r.bound /\ proc'[p].measured = r.measured
      /\ proc'[p].used = r.used /\ proc'[p].key = r.key
  BY <1>3, <1>4, <1>6
<1>10. UNCHANGED <<selection, minted, holder, rt, status>>
  BY <1>1 DEF runtimeVars
<1>11. RuntimeShape(rt') /\ rt'.cand \in Contexts \cup {Nothing}
  BY <1>10 DEF LeaseInv, Shapes, KeysNamed
<1>12. LeaseInv'
  <2>1. Named(p, proc'[p])
    BY <1>1, <1>2, <1>9 DEF Named
  <2>2. QED  BY <1>6, <1>8, <1>11, <2>1, LeaseMoved
<1>13. ASSUME BindingInv, ~Async PROVE BindingInv'
  <2>1. Serves(p, proc'[p])
    BY <1>1, <1>2, <1>9, <1>13 DEF Serves
  <2>2. ASSUME NEW q \in Processes PROVE Serves(q, proc'[q])
    <3>1. CASE q # p
      <4>1. Aside(proc[q], proc'[q]) /\ Serves(q, proc[q])
        BY <1>7, <1>13, <3>1 DEF BindingInv
      <4>2. QED  BY <4>1 DEF Aside, Serves
    <3>2. QED  BY <2>1, <3>1
  <2>3. \A q \in Processes : q # p => proc'[q].pc = proc[q].pc /\ proc'[q].bound = proc[q].bound
    BY <1>7 DEF Aside
  <2>4. holder = p /\ p \in Selects \cup Scopes /\ r.bound.gen = minted
    BY <1>1, <1>2, <1>13 DEF BindingInv, HolderInv
  <2>5. HolderInv'
    BY <1>9, <1>10, <1>13, <2>3, <2>4 DEF BindingInv, HolderInv
  <2>6. GenerationsInv' /\ rt'.cand = rt'.ctx
    BY <1>10, <1>13 DEF BindingInv, GenerationsInv
  <2>7. proc[Boot].pc = "done" /\ p # Boot
    BY <1>13, <2>4 DEF BindingInv, BootAlone
  <2>8. BootAlone'
    BY <2>3, <2>7 DEF BootAlone
  <2>9. QED  BY <2>2, <2>5, <2>6, <2>8 DEF BindingInv
<1>14. QED  BY <1>12, <1>13 DEF Preserved

LEMMA BindKept == ASSUME LeaseInv, NEW p \in Processes, Bind(p) PROVE Preserved
<1> DEFINE r == proc[p]
           c == IF p \in Selects THEN "begin" ELSE "publish"
           n == [r EXCEPT !.pc = c]
<1>1. /\ r.pc = "bind" /\ selection' = r.bound /\ holder' = Nothing
      /\ UNCHANGED <<cacheVars, minted, rt, status>> /\ proc' = [proc EXCEPT ![p] = n]
  BY DEF Bind, LeaseInv, Shapes
<1>2. ProcessShape(r) /\ (r.current => ~ r.void) /\ (BindingInv => Serves(p, r)) /\ Named(p, r) /\ r = proc[p]
  BY OwnKept
<1>3. IF p \in Selects THEN c = "begin" ELSE c = "publish"
  OBVIOUS
<1> HIDE DEF r, c
<1>5. /\ ProcessShape(n) /\ n.pc = c /\ n.bound = r.bound /\ n.key = r.key
      /\ n.used = r.used /\ n.measured = r.measured /\ n.current = r.current /\ n.void = r.void
  BY <1>2 DEF ProcessShape, ProcessFields
<1> HIDE DEF n
<1>6. /\ proc' = [q \in Processes |-> proc'[q]] /\ proc'[p] = n
      /\ \A q \in Processes : q # p => proc'[q] = proc[q] /\ Aside(proc[q], proc'[q])
  BY <1>1, <1>5, OneMoves
<1>7. LeaseInv'
  <2>1. Moves(p)
    BY <1>2, <1>5, <1>6 DEF Moves
  <2>2. LeasesKept
    BY <1>1, LeasesStay DEF LeasesKept, cacheVars
  <2>3. Named(p, n)
    BY <1>1, <1>2, <1>3, <1>5 DEF Named
  <2>4. RuntimeShape(rt') /\ rt'.cand \in Contexts \cup {Nothing}
    BY <1>1 DEF LeaseInv, Shapes, KeysNamed
  <2>5. QED  BY <1>6, <2>1, <2>2, <2>3, <2>4, LeaseMoved
<1>8. ASSUME BindingInv, ~Async PROVE BindingInv'
  <2>1. holder = p /\ p \in Selects \cup Scopes /\ r.bound.gen = minted
    BY <1>1, <1>2, <1>8 DEF BindingInv, HolderInv
  <2>2. proc[Boot].pc = "done" /\ p # Boot
    BY <1>8, <2>1 DEF BindingInv, BootAlone
  <2>3. Serves(p, n)
    BY <1>1, <1>2, <1>3, <1>5, <1>8 DEF Serves
  <2>4. \A q \in Processes : Serves(q, proc'[q])
    BY <1>6, <1>8, <2>3 DEF BindingInv
  <2>5. HolderInv'
    <3>1. ASSUME NEW q \in Processes PROVE proc'[q].pc \notin {"hook", "bind"}
      <4>1. CASE q = p
        BY <1>3, <1>5, <1>6, <4>1
      <4>2. CASE q # p
        <5>1. proc[q].pc \notin {"hook", "bind"}
          BY <1>8, <2>1, <4>2 DEF BindingInv, HolderInv
        <5>2. QED  BY <1>6, <4>2, <5>1
      <4>3. QED  BY <4>1, <4>2
    <3>2. QED  BY <3>1 DEF HolderInv
  <2>6. GenerationsInv'
    BY <1>1, <1>8, <2>1 DEF BindingInv, GenerationsInv
  <2>7. BootAlone'
    BY <1>6, <2>2 DEF BootAlone
  <2>8. rt'.cand = rt'.ctx
    BY <1>1, <1>8 DEF BindingInv
  <2>9. QED  BY <2>4, <2>5, <2>6, <2>7, <2>8 DEF BindingInv
<1>9. QED  BY <1>7, <1>8 DEF Preserved

-----------------------------------------------------------------------------
(* The first steps of a selection *)

\* Bootstrap moves while it is alone.
LEMMA BootMoved ==
  ASSUME BindingInv, NEW n, proc'[Boot] = n, \A q \in Processes : q # Boot => proc'[q] = proc[q],
         proc[Boot].pc # "done", Serves(Boot, n), GenerationsInv', rt'.cand = rt'.ctx, UNCHANGED holder,
         n.pc \notin {"hook", "bind"},
         n.pc = "snapshot" => selection'.ctx = Destination[Boot], n.pc \notin Early => n.bound = selection'
  PROVE  BindingInv'
<1>1. \A q \in Processes : Serves(q, proc'[q])
  BY DEF BindingInv
<1>2. HolderInv'
  <2>1. \A q \in Processes : q # Boot => proc[q].pc \notin {"hook", "bind"}
    BY DEF BindingInv, BootAlone
  <2>2. QED  BY <2>1 DEF HolderInv
<1>3. BootAlone'
  BY DEF BindingInv, BootAlone
<1>4. QED  BY <1>1, <1>2, <1>3 DEF BindingInv

LEMMA ResolveKept == ASSUME LeaseInv, NEW p \in Selecting, Resolve(p) PROVE Preserved
<1> DEFINE r == proc[p]
           n == [r EXCEPT !.pc = "commit", !.key = Destination[p], !.res = file[Destination[p]]]
<1>0. p \in Processes
  BY DEF Selecting
<1>1. /\ r.pc = "resolve" /\ UNCHANGED <<cacheVars, runtimeVars>> /\ proc' = [proc EXCEPT ![p] = n]
      /\ p # Boot => Serving
  BY <1>0 DEF Resolve, Move, LeaseInv, Shapes
<1>2. ProcessShape(r) /\ (r.current => ~ r.void) /\ (BindingInv => Serves(p, r)) /\ r = proc[p]
  BY <1>0, OwnKept
<1> HIDE DEF r
<1>3. /\ ProcessShape(n) /\ n.pc = "commit" /\ n.bound = r.bound /\ n.key = Destination[p]
      /\ n.used = r.used /\ n.measured = r.measured /\ n.current = r.current /\ n.void = r.void
  BY <1>2 DEF ProcessShape, ProcessFields
<1> HIDE DEF n
<1>4. /\ proc' = [q \in Processes |-> proc'[q]] /\ proc'[p] = n
      /\ \A q \in Processes : q # p => proc'[q] = proc[q] /\ Aside(proc[q], proc'[q])
  BY <1>0, <1>1, <1>3, OneMoves
<1>5. Moves(p)
  BY <1>2, <1>3, <1>4 DEF Moves
<1>6. /\ LeasesKept /\ RuntimeShape(rt') /\ rt'.cand \in Contexts \cup {Nothing}
      /\ UNCHANGED <<selection, minted, holder>>
      /\ BindingInv => GenerationsInv' /\ rt'.cand = rt'.ctx
  BY <1>1, StillKept
<1>7. Named(p, n)
  <2>1. Destination[p] \in Contexts
    BY DEF Selecting
  <2>2. QED  BY <1>3, <2>1 DEF Named
<1>8. LeaseInv'
  BY <1>0, <1>4, <1>5, <1>6, <1>7, LeaseMoved
<1>9. ASSUME BindingInv, ~Async PROVE BindingInv'
  <2>1. Serves(p, n)
    BY <1>1, <1>2, <1>3, <1>9 DEF Serves
  <2>2. CASE p = Boot
    <3>1. n.pc \in Early /\ n.pc # "snapshot" /\ proc[Boot].pc # "done"
      BY <1>1, <1>2, <1>3, <2>2 DEF Early
    <3>2. QED  BY <1>3, <1>4, <1>6, <1>9, <2>1, <2>2, <3>1, BootMoved
  <2>3. CASE p # Boot
    BY <1>0, <1>1, <1>3, <1>4, <1>5, <1>6, <1>9, <2>1, <2>3, BindingMoved
  <2>4. QED  BY <2>2, <2>3
<1>10. QED  BY <1>8, <1>9 DEF Preserved

LEMMA InitializeKept == ASSUME LeaseInv, Initialize PROVE Preserved
<1> DEFINE r == proc[Boot]
           n == [r EXCEPT !.pc = "snapshot"]
           b == [ctx |-> Destination[Boot], gen |-> minted]
<1>0. Boot \in Processes
  OBVIOUS
<1>1. /\ r.pc = "commit" /\ UNCHANGED <<cacheVars, minted, holder, rt, status>>
      /\ \/ proc' = Done(Boot, proc) /\ UNCHANGED selection
         \/ selection' = b /\ proc' = [proc EXCEPT ![Boot] = n]
  BY DEF Initialize, LeaseInv, Shapes
<1>2. LeasesKept
  BY <1>1, LeasesStay DEF LeasesKept, cacheVars
<1>3. RuntimeShape(rt') /\ rt'.cand \in Contexts \cup {Nothing} /\ (BindingInv => rt'.cand = rt'.ctx)
  BY <1>1 DEF LeaseInv, Shapes, KeysNamed, BindingInv
<1>4. CASE proc' = Done(Boot, proc) /\ UNCHANGED selection
  <2>1. BindingInv => GenerationsInv'
    BY <1>1, <1>4 DEF BindingInv, GenerationsInv
  <2>2. QED  BY <1>0, <1>1, <1>2, <1>3, <1>4, <2>1, EndKept
<1>5. CASE selection' = b /\ proc' = [proc EXCEPT ![Boot] = n]
  <2>1. ProcessShape(r) /\ (r.current => ~ r.void) /\ (BindingInv => Serves(Boot, r)) /\ Named(Boot, r) /\ r = proc[Boot]
    BY <1>0, OwnKept
  <2>2. b.ctx = Destination[Boot] /\ b.gen = minted
    OBVIOUS
  <2> HIDE DEF r, b
  <2>3. /\ ProcessShape(n) /\ n.pc = "snapshot" /\ n.bound = r.bound /\ n.key = r.key
        /\ n.used = r.used /\ n.measured = r.measured /\ n.current = r.current /\ n.void = r.void
    BY <2>1 DEF ProcessShape, ProcessFields
  <2> HIDE DEF n
  <2>4. /\ proc' = [q \in Processes |-> proc'[q]] /\ proc'[Boot] = n
        /\ \A q \in Processes : q # Boot => proc'[q] = proc[q] /\ Aside(proc[q], proc'[q])
    BY <1>0, <1>5, <2>3, OneMoves
  <2>5. Moves(Boot)
    BY <2>1, <2>3, <2>4 DEF Moves
  <2>6. Named(Boot, n)
    BY <1>1, <2>1, <2>3 DEF Named
  <2>7. LeaseInv'
    BY <1>0, <1>2, <1>3, <2>4, <2>5, <2>6, LeaseMoved
  <2>8. ASSUME BindingInv, ~Async PROVE BindingInv'
    <3>1. Serves(Boot, n)
      BY <1>1, <2>1, <2>3, <2>8 DEF Serves
    <3>2. GenerationsInv'
      BY <1>1, <1>5, <2>2, <2>8 DEF BindingInv, GenerationsInv
    <3>3. n.pc \in Early /\ selection'.ctx = Destination[Boot] /\ proc[Boot].pc # "done"
      BY <1>1, <1>5, <2>1, <2>2, <2>3 DEF Early
    <3>4. QED  BY <1>1, <1>3, <2>3, <2>4, <2>8, <3>1, <3>2, <3>3, BootMoved
  <2>9. QED  BY <2>7, <2>8 DEF Preserved
<1>6. QED  BY <1>1, <1>4, <1>5

LEMMA SnapshotKept == ASSUME LeaseInv, BootSnapshot PROVE Preserved
<1> DEFINE r == proc[Boot]
           n == [r EXCEPT !.pc = "begin", !.bound = selection]
<1>0. Boot \in Processes
  OBVIOUS
<1>1. /\ r.pc = "snapshot" /\ UNCHANGED <<cacheVars, runtimeVars>> /\ proc' = [proc EXCEPT ![Boot] = n]
  BY <1>0 DEF BootSnapshot, Move, LeaseInv, Shapes
<1>2. ProcessShape(r) /\ (r.current => ~ r.void) /\ (BindingInv => Serves(Boot, r)) /\ Named(Boot, r) /\ r = proc[Boot]
  BY <1>0, OwnKept
<1> HIDE DEF r
<1>3. /\ ProcessShape(n) /\ n.pc = "begin" /\ n.bound = selection /\ n.key = r.key
      /\ n.used = r.used /\ n.measured = r.measured /\ n.current = r.current /\ n.void = r.void
  BY <1>2 DEF ProcessShape, ProcessFields
<1> HIDE DEF n
<1>4. /\ proc' = [q \in Processes |-> proc'[q]] /\ proc'[Boot] = n
      /\ \A q \in Processes : q # Boot => proc'[q] = proc[q] /\ Aside(proc[q], proc'[q])
  BY <1>0, <1>1, <1>3, OneMoves
<1>5. Moves(Boot)
  BY <1>2, <1>3, <1>4 DEF Moves
<1>6. /\ LeasesKept /\ RuntimeShape(rt') /\ rt'.cand \in Contexts \cup {Nothing}
      /\ UNCHANGED <<selection, minted, holder>>
      /\ BindingInv => GenerationsInv' /\ rt'.cand = rt'.ctx
  BY <1>1, StillKept
<1>7. Named(Boot, n)
  BY <1>1, <1>2, <1>3 DEF Named
<1>8. LeaseInv'
  BY <1>0, <1>4, <1>5, <1>6, <1>7, LeaseMoved
<1>9. ASSUME BindingInv, ~Async PROVE BindingInv'
  <2>1. selection.ctx = Destination[Boot]
    BY <1>1, <1>2, <1>9 DEF BindingInv, BootAlone
  <2>2. Serves(Boot, n)
    BY <1>1, <1>2, <1>3, <1>9, <2>1 DEF Serves, Selecting
  <2>3. n.bound = selection' /\ n.pc # "snapshot" /\ proc[Boot].pc # "done"
    BY <1>1, <1>2, <1>3, <1>6
  <2>4. QED  BY <1>3, <1>4, <1>6, <1>9, <2>2, <2>3, BootMoved
<1>10. QED  BY <1>8, <1>9 DEF Preserved

-----------------------------------------------------------------------------
(* The theorems *)

LEMMA RuntimeStart == RuntimeInit => LeaseInv /\ BindingInv
<1> SUFFICES ASSUME RuntimeInit PROVE LeaseInv /\ BindingInv
  OBVIOUS
<1>1. \A p \in Processes : proc[p] = NewProcess(p)
  BY DEF RuntimeInit
<1>2. ASSUME NEW p \in Processes
      PROVE  /\ ProcessShape(NewProcess(p)) /\ ~ NewProcess(p).current /\ NewProcess(p).pc \in {"resolve", "idle"}
             /\ NewProcess(p).used = Nothing /\ NewProcess(p).measured = Nothing
  BY DEF NewProcess, ProcessShape, ProcessFields
<1>3. NewProcess(Boot).pc = "resolve"
  BY DEF NewProcess
<1>4. Shapes
  BY <1>1, <1>2 DEF Shapes, RuntimeInit, CacheInit, RuntimeShape
<1>5. CurrentIsValid /\ KeysNamed
  BY <1>1, <1>2 DEF CurrentIsValid, KeysNamed, Named, RuntimeInit
<1>6. OneLiveLease /\ InvalidatedIsGone
  BY DEF OneLiveLease, InvalidatedIsGone, RuntimeInit, CacheInit, NoLease
<1>7. \A p \in Processes : Serves(p, proc[p])
  BY <1>1, <1>2 DEF Serves
<1>8. HolderInv
  BY <1>1, <1>2 DEF HolderInv
<1>9. GenerationsInv
  BY DEF GenerationsInv, RuntimeInit, Unbound
<1>10. BootAlone
  BY <1>1, <1>2, <1>3 DEF BootAlone, Early, RuntimeInit
<1>11. rt.cand = rt.ctx
  BY DEF RuntimeInit
<1>12. QED  BY <1>4, <1>5, <1>6, <1>7, <1>8, <1>9, <1>10, <1>11 DEF LeaseInv, BindingInv

\* What touches no process.
LEMMA StillProcesses ==
  ASSUME LeaseInv, LeasesKept, UNCHANGED <<proc, selection, minted, holder, rt, status>>
  PROVE  Preserved
<1>1. LeaseInv'
  BY DEF LeaseInv, LeasesKept, Shapes, CurrentIsValid, KeysNamed
<1>2. BindingInv => BindingInv'
  BY DEF BindingInv, HolderInv, GenerationsInv, BootAlone
<1>3. QED  BY <1>1, <1>2 DEF Preserved

LEMMA EnvironmentKept ==
  ASSUME LeaseInv, (\E k \in Contexts : FileChanges(k)) \/ Stop \/ UNCHANGED allVars
  PROVE  Preserved
<1>1. CASE \E k \in Contexts : FileChanges(k)
  BY <1>1, LeasesStay, StillProcesses DEF FileChanges, LeasesKept
<1>2. CASE Stop
  <2>1. LeasesKept
    BY <1>2 DEF Stop, CloseCache, LeasesKept, LeaseInv, OneLiveLease, InvalidatedIsGone, NoLease
  <2>2. QED  BY <1>2, <2>1, StillProcesses DEF Stop, CloseCache
<1>3. CASE UNCHANGED allVars
  BY <1>3, LeasesStay, StillProcesses DEF allVars, cacheVars, runtimeVars, LeasesKept
<1>4. QED  BY <1>1, <1>2, <1>3

LEMMA RuntimeKept == ASSUME LeaseInv, [RuntimeNext]_allVars PROVE Preserved
<1>1. ASSUME NEW p \in Processes, RuntimeStep(p) PROVE Preserved
  <2>1. CASE Commit(p) \/ OnGeneration(p) \/ Bind(p)
    BY <2>1, CommitKept, HookKept, BindKept
  <2>2. CASE BeginActivation(p) \/ ActivateRefused(p) \/ PublishLease(p) \/ CheckVersion(p) \/ Publish(p)
    BY <2>2, BeginKept, RefusedKept, LeasedKept, VersionKept, PublishKept
  <2>3. CASE Ask(p) \/ LeaseFor(p) \/ ResolveAgain(p) \/ AdoptCandidate(p) \/ Use(p) \/ Unauthorized(p)
    BY <2>3, AskKept, LeaseForKept, ResolveAgainKept, AdoptKept, UseKept, RejectedKept
  <2>4. CASE BuildFails(p)
    BY <2>4, CacheKept DEF BuildFails, CacheMoves
  <2>5. CASE ActivateStep(p) /\ UNCHANGED runtimeVars
    BY <2>5, CacheKept DEF CacheMoves, runtimeVars
  <2>6. QED  BY <1>1, <2>1, <2>2, <2>3, <2>4, <2>5 DEF RuntimeStep
<1>2. ASSUME NEW p \in {Boot} \cup Selects, Resolve(p) PROVE Preserved
  BY <1>2, ResolveKept DEF Selecting
<1>3. QED  BY <1>1, <1>2, InitializeKept, SnapshotKept, EnvironmentKept DEF RuntimeNext

\* The leases of any runtime, also of the desktop shell's: whatever is selected,
\* rebuilt, rejected or changed in between, one lease is live (activateLocked
\* cancels its predecessor) and neither the active one nor the cache's entries
\* stem from credentials that were invalidated (invalidateKey, Activate).
THEOREM LeasesFenced == RuntimeSpec => [](OneLiveLease /\ InvalidatedIsGone)
<1>1. RuntimeInit => LeaseInv
  BY RuntimeStart
<1>2. LeaseInv /\ [RuntimeNext]_allVars => LeaseInv'
  BY RuntimeKept DEF Preserved
<1>3. LeaseInv => OneLiveLease /\ InvalidatedIsGone
  BY DEF LeaseInv
<1>4. QED  BY <1>1, <1>2, <1>3, PTL DEF RuntimeSpec

\* The invariant of the headless server, which serves once Bootstrap is done.
THEOREM RuntimeHolds == ASSUME ~Async PROVE RuntimeSpec => [](LeaseInv /\ BindingInv)
<1>1. RuntimeInit => LeaseInv /\ BindingInv
  BY RuntimeStart
<1>2. LeaseInv /\ BindingInv /\ [RuntimeNext]_allVars => LeaseInv' /\ BindingInv'
  BY RuntimeKept DEF Preserved
<1>3. QED  BY <1>1, <1>2, PTL DEF RuntimeSpec

\* Clients are those of the binding they serve (leaseFor, beginActivation,
\* ClientCache.Activate), for any number of selections, scope changes, lists and
\* reviews.
THEOREM ClientsStayCurrent == ASSUME ~Async PROVE RuntimeSpec => []ClientsCurrent
<1>1. LeaseInv /\ BindingInv => ClientsCurrent
  BY DEF LeaseInv, BindingInv, Serves, ClientsCurrent, AnsweredByItsContext
<1>2. QED  BY <1>1, RuntimeHolds, PTL

\* The status moves forward, and shows a connectivity that was measured on the
\* context it shows (publishSelection, Activate).
THEOREM StatusForward == ASSUME ~Async PROVE RuntimeSpec => StatusMovesForward
<1>1. LeaseInv /\ BindingInv /\ [RuntimeNext]_allVars =>
        [/\ status'.gen >= status.gen
         /\ status'.measured # status.measured => status'.measured \in {Nothing, status'.ctx}]_status
  <2> SUFFICES ASSUME LeaseInv, BindingInv, [RuntimeNext]_allVars, status' # status
               PROVE  /\ status'.gen >= status.gen
                      /\ status'.measured # status.measured => status'.measured \in {Nothing, status'.ctx}
    BY SMTT(30)
  <2>1. PICK p \in Processes : Publish(p)
    BY ZenonT(60) DEF RuntimeNext, RuntimeStep, allVars, runtimeVars, Resolve, Initialize, BootSnapshot, Commit, OnGeneration,
           Bind, BeginActivation, ActivateRefused, PublishLease, CheckVersion, Ask, LeaseFor, ResolveAgain,
           AdoptCandidate, Use, Unauthorized, BuildFails, FileChanges, Stop, Move
  <2> DEFINE r == proc[p]
  <2>2. status' = Published(p) /\ (p = Boot \/ selection = r.bound) /\ r.pc = "publish"
    BY <2>1 DEF Publish
  <2>3. r.bound = selection
    BY <2>2 DEF BindingInv, BootAlone, Early
  <2>4. r.measured \in {Nothing, r.bound.ctx}
    BY DEF BindingInv, Serves
  <2> HIDE DEF r
  <2>5. /\ status'.ctx = r.bound.ctx /\ status'.gen = r.bound.gen
        /\ status'.measured \in {status.measured, r.measured}
    BY <2>2 DEF Published, r
  <2>6. status'.gen >= status.gen
    BY <2>3, <2>5 DEF BindingInv, GenerationsInv
  <2>7. QED  BY <2>4, <2>5, <2>6
<1>2. QED  BY <1>1, RuntimeHolds, PTL DEF RuntimeSpec, StatusMovesForward
=============================================================================
