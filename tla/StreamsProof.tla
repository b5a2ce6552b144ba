------------------------------ MODULE StreamsProof ------------------------------
(***************************************************************************)
(* Resource streams, for any number of viewers, sessions and sources and any  *)
(* size of rings and queues: a viewer receives what was published, each event  *)
(* once and in order, or starts over (ImplementsFeed, the refinement of Feed), *)
(* and what is published tells all that the sources told (Assembled).          *)
(***************************************************************************)
EXTENDS Streams, FiniteSetTheorems, SequenceTheorems, TLAPS

USE StreamsAssumption

-----------------------------------------------------------------------------
(* Types *)

Item  == [kind : {"snapshot", "change"}, news : [Sources -> Nat]]
Entry == [id : Nat, kind : {"progress", "reset", "snapshot", "change"}]

Session ==
    [made : Nat, started : BOOLEAN, expired : BOOLEAN, stopped : BOOLEAN, terminal : BOOLEAN, timer : BOOLEAN,
     log : Seq(Item), first : Int, taken : [Sources -> Nat], final : SUBSET Sources, complete : BOOLEAN,
     buffered : Seq(Item), out : Seq(Item)]

Viewer ==
    [pc : {"idle", "attach", "stream"}, session : Sessions \cup {None}, last : Nat, replay : Seq(Nat),
     queue : Seq(Entry), closed : BOOLEAN, slot : BOOLEAN]

StreamTypes ==
    /\ session \in [Sessions -> Session] /\ viewer \in [Viewers -> Viewer]
    /\ registered \subseteq Sessions

-----------------------------------------------------------------------------
(* The inductive invariant *)

\* A session that is assembled keeps back what it took; one that is complete
\* has told it, in the log or in what is about to be published.
Assembles(r) ==
    /\ r.made = 0 => ~ r.started
    /\ ~ r.started => r.log = <<>>
    /\ ~ r.complete => /\ r.log = <<>> /\ r.out = <<>>
                       /\ \A s \in Sources : /\ s \in r.final <=> r.taken[s] > 0
                                             /\ Tells(r.buffered, s, 2, r.taken[s])
    /\ r.complete /\ ~ r.terminal => \A s \in Sources : Tells(r.log \o r.out, s, 1, r.taken[s])

\* The numbered entries of a queue are those after `start`, without a gap; those
\* of an open queue go up to `end`.
Lines(q, start, end, open) ==
    /\ \A i \in 1..Len(q) : q[i].id # 0 => start < q[i].id /\ q[i].id <= end
    /\ \A i, j \in 1..Len(q) : i # j /\ q[i].id # 0 => q[i].id # q[j].id
    /\ \A i \in 1..Len(q) : \A n \in (start + 1)..(q[i].id - 1) : \E j \in 1..(i - 1) : q[j].id = n
    /\ open => \A n \in (start + 1)..end : \E j \in 1..Len(q) : q[j].id = n

\* Where the replay of a viewer ends and its queue begins.
Ahead(w) == w.last + Len(w.replay)

\* What a viewer received, will be sent again and has queued are the events of
\* its session so far.
InOrder(w, end) ==
    /\ w.pc # "stream" => w.replay = <<>> /\ w.queue = <<>>
    /\ \A i \in 1..Len(w.replay) : w.replay[i] = w.last + i
    /\ Ahead(w) <= end
    /\ Lines(w.queue, Ahead(w), end, w.pc = "stream" /\ ~ w.closed)

\* A stream is opened in a session of its own, which has published nothing
\* before its viewer is attached.
Fresh(v) ==
    viewer[v].pc = "attach" /\ viewer[v].last = 0 =>
        /\ ~ session[viewer[v].session].started
        /\ \A u \in Viewers \ {v} : viewer[u].session # viewer[v].session

ViewersInv ==
    \A v \in Viewers :
        /\ InOrder(viewer[v], Published[viewer[v].session])
        /\ viewer[v].session = None => viewer[v].pc = "idle" /\ viewer[v].last = 0
        /\ viewer[v].session # None => session[viewer[v].session].made # 0
        /\ Fresh(v)

SessionsInv == \A e \in Sessions : Assembles(session[e])

StreamInv == StreamTypes /\ SessionsInv /\ ViewersInv

-----------------------------------------------------------------------------
(* What sequences of events tell *)

\* One more event, the next of its source.
LEMMA TellsNext ==
    ASSUME NEW E \in Seq(Item), NEW x \in Item, NEW s \in Sources, NEW m \in Nat, NEW n \in Nat,
           Tells(E, s, m, n), x.news[s] = n + 1, m <= n + 1
    PROVE  Tells(Append(E, x), s, m, n + 1)
  <1> DEFINE F == Append(E, x)
  <1>1. /\ F \in Seq(Item) /\ Len(F) = Len(E) + 1 /\ DOMAIN F = 1..(Len(E) + 1) /\ F[Len(E) + 1] = x
        /\ \A i \in 1..Len(E) : F[i] = E[i]
        /\ DOMAIN E = 1..Len(E) /\ Len(E) \in Nat
    OBVIOUS
  <1> HIDE DEF F
  <1>2. \A i \in DOMAIN F : F[i].news[s] \in {0} \cup m..(n + 1)
    <2> SUFFICES ASSUME NEW i \in 1..(Len(E) + 1) PROVE F[i].news[s] \in {0} \cup m..(n + 1)
      BY <1>1
    <2>1. CASE i = Len(E) + 1
      BY <1>1, <2>1
    <2>2. CASE i \in 1..Len(E)
      <3>1. E[i].news[s] \in {0} \cup m..n
        BY <1>1, <2>2 DEF Tells
      <3> QED BY <1>1, <2>2, <3>1
    <2> QED BY <1>1, <2>1, <2>2
  <1>3. \A k \in m..(n + 1) : \E i \in DOMAIN F : F[i].news[s] = k
    <2> SUFFICES ASSUME NEW k \in m..(n + 1) PROVE \E i \in DOMAIN F : F[i].news[s] = k
      OBVIOUS
    <2>1. CASE k = n + 1
      BY <1>1, <2>1
    <2>2. CASE k \in m..n
      <3>1. PICK i \in DOMAIN E : E[i].news[s] = k
        BY <2>2 DEF Tells
      <3> QED BY <1>1, <3>1
    <2> QED BY <2>1, <2>2
  <1>4. \A i, j \in DOMAIN F : i < j /\ F[i].news[s] # 0 /\ F[j].news[s] # 0 => F[i].news[s] < F[j].news[s]
    <2> SUFFICES ASSUME NEW i \in 1..(Len(E) + 1), NEW j \in 1..(Len(E) + 1),
                        i < j, F[i].news[s] # 0, F[j].news[s] # 0
                 PROVE  F[i].news[s] < F[j].news[s]
      BY <1>1
    <2>1. i \in 1..Len(E) /\ F[i] = E[i] /\ E[i].news[s] \in m..n
      BY <1>1 DEF Tells
    <2>2. CASE j = Len(E) + 1
      BY <1>1, <2>1, <2>2
    <2>3. CASE j \in 1..Len(E)
      BY <1>1, <2>1, <2>3 DEF Tells
    <2> QED BY <1>1, <2>2, <2>3
  <1> QED BY <1>2, <1>3, <1>4 DEF Tells, F

\* One more event, of another source.
LEMMA TellsSame ==
    ASSUME NEW E \in Seq(Item), NEW x \in Item, NEW s \in Sources, NEW m \in Nat, NEW n \in Nat,
           Tells(E, s, m, n), x.news[s] = 0
    PROVE  Tells(Append(E, x), s, m, n)
  <1> DEFINE F == Append(E, x)
  <1>1. /\ DOMAIN F = 1..(Len(E) + 1) /\ F[Len(E) + 1] = x
        /\ \A i \in 1..Len(E) : F[i] = E[i]
        /\ DOMAIN E = 1..Len(E) /\ Len(E) \in Nat
    OBVIOUS
  <1> HIDE DEF F
  <1>2. \A i \in DOMAIN F : F[i].news[s] \in {0} \cup m..n
    BY <1>1 DEF Tells
  <1>3. \A k \in m..n : \E i \in DOMAIN F : F[i].news[s] = k
    BY <1>1 DEF Tells
  <1>4. \A i, j \in DOMAIN F : i < j /\ F[i].news[s] # 0 /\ F[j].news[s] # 0 => F[i].news[s] < F[j].news[s]
    BY <1>1 DEF Tells
  <1> QED BY <1>2, <1>3, <1>4 DEF Tells, F

\* The snapshot, followed by what was kept back.
LEMMA TellsAll ==
    ASSUME NEW E \in Seq(Item), NEW x \in Item, NEW s \in Sources, NEW n \in Nat,
           Tells(E, s, 2, n), x.news[s] = 1, n > 0
    PROVE  Tells(<<x>> \o E, s, 1, n)
  <1> DEFINE F == <<x>> \o E
  <1>1. /\ DOMAIN F = 1..(Len(E) + 1) /\ F[1] = x
        /\ \A i \in 1..Len(E) : F[i + 1] = E[i]
        /\ DOMAIN E = 1..Len(E) /\ Len(E) \in Nat
    OBVIOUS
  <1> HIDE DEF F
  <1>2. \A i \in 2..(Len(E) + 1) : i - 1 \in 1..Len(E) /\ F[i] = E[i - 1]
    <2> SUFFICES ASSUME NEW i \in 2..(Len(E) + 1) PROVE i - 1 \in 1..Len(E) /\ F[i] = E[i - 1]
      OBVIOUS
    <2>1. i - 1 \in 1..Len(E) /\ (i - 1) + 1 = i
      BY <1>1
    <2> QED BY <1>1, <2>1
  <1>3. \A i \in DOMAIN F : F[i].news[s] \in {0} \cup 1..n
    <2> SUFFICES ASSUME NEW i \in 1..(Len(E) + 1) PROVE F[i].news[s] \in {0} \cup 1..n
      BY <1>1
    <2>1. CASE i = 1
      BY <1>1, <2>1
    <2>2. CASE i \in 2..(Len(E) + 1)
      BY <1>1, <1>2, <2>2 DEF Tells
    <2> QED BY <1>1, <2>1, <2>2
  <1>4. \A k \in 1..n : \E i \in DOMAIN F : F[i].news[s] = k
    <2> SUFFICES ASSUME NEW k \in 1..n PROVE \E i \in DOMAIN F : F[i].news[s] = k
      OBVIOUS
    <2>1. CASE k = 1
      BY <1>1, <2>1
    <2>2. CASE k \in 2..n
      <3>1. PICK i \in 1..Len(E) : E[i].news[s] = k
        BY <1>1, <2>2 DEF Tells
      <3>2. i + 1 \in DOMAIN F /\ F[i + 1].news[s] = k
        BY <1>1, <3>1
      <3> QED BY <3>2
    <2> QED BY <2>1, <2>2
  <1>5. \A i, j \in DOMAIN F : i < j /\ F[i].news[s] # 0 /\ F[j].news[s] # 0 => F[i].news[s] < F[j].news[s]
    <2> SUFFICES ASSUME NEW i \in 1..(Len(E) + 1), NEW j \in 1..(Len(E) + 1),
                        i < j, F[i].news[s] # 0, F[j].news[s] # 0
                 PROVE  F[i].news[s] < F[j].news[s]
      BY <1>1
    <2>1. j - 1 \in 1..Len(E) /\ F[j] = E[j - 1] /\ E[j - 1].news[s] \in 2..n
      BY <1>1, <1>2 DEF Tells
    <2>2. CASE i = 1
      BY <1>1, <2>1, <2>2
    <2>3. CASE i \in 2..(Len(E) + 1)
      <3>1. i - 1 \in 1..Len(E) /\ F[i] = E[i - 1] /\ i - 1 < j - 1
        BY <1>1, <1>2, <2>3
      <3>2. \A a, b \in 1..Len(E) : a < b /\ E[a].news[s] # 0 /\ E[b].news[s] # 0 => E[a].news[s] < E[b].news[s]
        BY <1>1 DEF Tells
      <3>3. E[i - 1].news[s] < E[j - 1].news[s]
        BY <2>1, <3>1, <3>2
      <3> QED BY <2>1, <3>1, <3>3
    <2> QED BY <1>1, <2>2, <2>3
  <1> QED BY <1>3, <1>4, <1>5 DEF Tells, F

\* A source begins.
LEMMA TellsFirst ==
    ASSUME NEW E, NEW s, Tells(E, s, 2, 0)
    PROVE  Tells(E, s, 2, 1)
  BY DEF Tells

\* Publishing moves an event from `out` into the log.
LEMMA ToldKept ==
    ASSUME NEW log \in Seq(Item), NEW out \in Seq(Item), out # <<>>
    PROVE  /\ Head(out) \in Item /\ Tail(out) \in Seq(Item)
           /\ Append(log, Head(out)) \in Seq(Item) /\ Len(Append(log, Head(out))) = Len(log) + 1
           /\ Append(log, Head(out)) \o Tail(out) = log \o out
  <1>1. Head(out) \in Item /\ Tail(out) \in Seq(Item) /\ out = <<Head(out)>> \o Tail(out)
    BY HeadTailProperties, HeadTailAppend, ConcatSimplifications
  <1>2. Append(log, Head(out)) = log \o <<Head(out)>>
    BY <1>1, AppendIsConcat
  <1>3. (log \o <<Head(out)>>) \o Tail(out) = log \o (<<Head(out)>> \o Tail(out))
    BY <1>1, ConcatAssociative
  <1> QED BY <1>1, <1>2, <1>3

-----------------------------------------------------------------------------
(* Queues *)

LEMMA EntryIds == ASSUME NEW q \in Seq(Entry) PROVE \A i \in 1..Len(q) : q[i].id \in Nat
  <1>1. \A i \in 1..Len(q) : q[i] \in Entry
    BY ElementOfSeq
  <1>2. \A x \in Entry : x.id \in Nat
    BY DEF Entry
  <1> QED BY <1>1, <1>2

\* An entry without an id is queued.
LEMMA LinesUnnumbered ==
    ASSUME NEW q \in Seq(Entry), NEW x \in Entry, NEW a \in Nat, NEW b \in Nat, NEW o \in BOOLEAN,
           Lines(q, a, b, o), x.id = 0
    PROVE  Lines(Append(q, x), a, b, o)
  <1> DEFINE r == Append(q, x)
  <1>1. /\ Len(r) = Len(q) + 1 /\ r[Len(q) + 1] = x /\ Len(q) \in Nat
        /\ \A i \in 1..Len(q) : r[i] = q[i]
    OBVIOUS
  <1>0. \A i \in 1..Len(q) : q[i].id \in Nat
    BY EntryIds
  <1> HIDE DEF r
  <1>2. \A i \in 1..Len(r) : i \in 1..Len(q) \/ (i = Len(q) + 1 /\ r[i].id = 0)
    BY <1>1
  <1>3. \A i \in 1..Len(r) : r[i].id # 0 => a < r[i].id /\ r[i].id <= b
    BY <1>1, <1>2 DEF Lines
  <1>4. \A i, j \in 1..Len(r) : i # j /\ r[i].id # 0 => r[i].id # r[j].id
    BY <1>1, <1>2 DEF Lines
  <1>5. \A i \in 1..Len(r) : \A n \in (a + 1)..(r[i].id - 1) : \E j \in 1..(i - 1) : r[j].id = n
    <2> SUFFICES ASSUME NEW i \in 1..Len(r), NEW n \in (a + 1)..(r[i].id - 1)
                 PROVE  \E j \in 1..(i - 1) : r[j].id = n
      OBVIOUS
    <2>1. i \in 1..Len(q) /\ n \in (a + 1)..(q[i].id - 1)
      BY <1>1, <1>2
    <2>2. PICK j \in 1..(i - 1) : q[j].id = n
      BY <2>1 DEF Lines
    <2> QED BY <1>1, <2>1, <2>2
  <1>6. o => \A n \in (a + 1)..b : \E j \in 1..Len(r) : r[j].id = n
    <2> SUFFICES ASSUME o, NEW n \in (a + 1)..b PROVE \E j \in 1..Len(r) : r[j].id = n
      OBVIOUS
    <2>1. PICK j \in 1..Len(q) : q[j].id = n
      BY DEF Lines
    <2> QED BY <1>1, <2>1
  <1> QED BY <1>3, <1>4, <1>5, <1>6 DEF Lines, r

\* The next event is queued.
LEMMA LinesNext ==
    ASSUME NEW q \in Seq(Entry), NEW x \in Entry, NEW a \in Nat, NEW b \in Nat, a <= b,
           Lines(q, a, b, TRUE), x.id = b + 1
    PROVE  Lines(Append(q, x), a, b + 1, TRUE)
  <1> DEFINE r == Append(q, x)
  <1>1. /\ Len(r) = Len(q) + 1 /\ r[Len(q) + 1] = x /\ Len(q) \in Nat
        /\ \A i \in 1..Len(q) : r[i] = q[i]
    OBVIOUS
  <1>0. \A i \in 1..Len(q) : q[i].id \in Nat
    BY EntryIds
  <1> HIDE DEF r
  <1>2. \A i \in 1..Len(r) : (i \in 1..Len(q) /\ r[i] = q[i]) \/ (i = Len(q) + 1 /\ r[i].id = b + 1)
    BY <1>1
  <1>3. \A i \in 1..Len(q) : q[i].id # 0 => a < q[i].id /\ q[i].id <= b
    BY DEF Lines
  <1>4. \A i \in 1..Len(r) : r[i].id # 0 => a < r[i].id /\ r[i].id <= b + 1
    BY <1>0, <1>2, <1>3
  <1>5. \A i, j \in 1..Len(r) : i # j /\ r[i].id # 0 => r[i].id # r[j].id
    <2> SUFFICES ASSUME NEW i \in 1..Len(r), NEW j \in 1..Len(r), i # j, r[i].id # 0, r[i].id = r[j].id
                 PROVE  FALSE
      OBVIOUS
    <2>1. CASE i \in 1..Len(q) /\ j \in 1..Len(q)
      BY <1>1, <2>1 DEF Lines
    <2>2. CASE i = Len(q) + 1 /\ j \in 1..Len(q)
      BY <1>0, <1>1, <1>3, <2>2
    <2>3. CASE j = Len(q) + 1 /\ i \in 1..Len(q)
      BY <1>0, <1>1, <1>3, <2>3
    <2> QED BY <1>1, <1>2, <2>1, <2>2, <2>3
  <1>6. \A i \in 1..Len(r) : \A n \in (a + 1)..(r[i].id - 1) : \E j \in 1..(i - 1) : r[j].id = n
    <2> SUFFICES ASSUME NEW i \in 1..Len(r), NEW n \in (a + 1)..(r[i].id - 1)
                 PROVE  \E j \in 1..(i - 1) : r[j].id = n
      OBVIOUS
    <2>1. CASE i \in 1..Len(q)
      <3>1. PICK j \in 1..(i - 1) : q[j].id = n
        BY <1>1, <2>1 DEF Lines
      <3> QED BY <1>1, <2>1, <3>1
    <2>2. CASE i = Len(q) + 1
      <3>1. n \in (a + 1)..b
        BY <1>1, <2>2
      <3>2. PICK j \in 1..Len(q) : q[j].id = n
        BY <3>1 DEF Lines
      <3> QED BY <1>1, <2>2, <3>2
    <2> QED BY <1>1, <2>1, <2>2
  <1>7. \A n \in (a + 1)..(b + 1) : \E j \in 1..Len(r) : r[j].id = n
    <2> SUFFICES ASSUME NEW n \in (a + 1)..(b + 1) PROVE \E j \in 1..Len(r) : r[j].id = n
      OBVIOUS
    <2>1. CASE n = b + 1
      BY <1>1, <2>1
    <2>2. CASE n \in (a + 1)..b
      <3>1. PICK j \in 1..Len(q) : q[j].id = n
        BY <2>2 DEF Lines
      <3> QED BY <1>1, <3>1
    <2> QED BY <2>1, <2>2
  <1> QED BY <1>4, <1>5, <1>6, <1>7 DEF Lines, r

\* A terminal alone; an empty queue; a queue that is no longer filled.
LEMMA LinesTrivially ==
    ASSUME NEW a \in Nat, NEW b \in Nat
    PROVE  /\ \A x \in Entry : x.id = 0 => Lines(<<x>>, a, b, FALSE)
           /\ Lines(<<>>, a, b, FALSE) /\ Lines(<<>>, b, b, TRUE)
           /\ \A q \in Seq(Entry), o \in BOOLEAN : Lines(q, a, b, o) => Lines(q, a, b, FALSE) /\ Lines(q, a, b + 1, FALSE)
  <1>1. ASSUME NEW x \in Entry, x.id = 0 PROVE Lines(<<x>>, a, b, FALSE)
    BY <1>1 DEF Lines
  <1>2. Lines(<<>>, a, b, FALSE) /\ Lines(<<>>, b, b, TRUE)
    BY DEF Lines
  <1>3. ASSUME NEW q \in Seq(Entry), NEW o \in BOOLEAN, Lines(q, a, b, o)
        PROVE  Lines(q, a, b, FALSE) /\ Lines(q, a, b + 1, FALSE)
    <2>1. \A i \in 1..Len(q) : q[i].id \in Nat
      BY EntryIds
    <2> QED BY <1>3, <2>1 DEF Lines
  <1> QED BY <1>1, <1>2, <1>3

\* The first entry is written: it is the next one, or has no id.
LEMMA LinesTaken ==
    ASSUME NEW q \in Seq(Entry), q # <<>>, NEW a \in Nat, NEW b \in Nat, NEW o \in BOOLEAN, Lines(q, a, b, o)
    PROVE  /\ Head(q).id = 0 => Lines(Tail(q), a, b, o)
           /\ Head(q).id # 0 => Head(q).id = a + 1 /\ a + 1 <= b /\ Lines(Tail(q), a + 1, b, o)
  <1> DEFINE r == Tail(q)
  <1>1. /\ Len(q) \in Nat /\ Len(q) > 0 /\ Head(q) = q[1] /\ Len(r) = Len(q) - 1
        /\ \A i \in 1..Len(r) : r[i] = q[i + 1]
    BY HeadTailProperties
  <1>0. \A i \in 1..Len(q) : q[i].id \in Nat
    BY EntryIds
  <1> HIDE DEF r
  <1> DEFINE c == IF q[1].id = 0 THEN a ELSE a + 1
  <1>2. q[1].id # 0 => q[1].id = a + 1 /\ a + 1 <= b
    <2> SUFFICES ASSUME q[1].id # 0 PROVE q[1].id = a + 1 /\ a + 1 <= b
      OBVIOUS
    <2>1. a < q[1].id /\ q[1].id <= b /\ q[1].id \in Nat
      BY <1>0, <1>1 DEF Lines
    <2>2. ASSUME a + 1 < q[1].id PROVE FALSE
      <3>1. a + 1 \in (a + 1)..(q[1].id - 1) /\ 1 \in 1..Len(q)
        BY <1>1, <2>1, <2>2
      <3>2. \E j \in 1..(1 - 1) : q[j].id = a + 1
        BY <3>1 DEF Lines
      <3> QED BY <3>2
    <2> QED BY <2>1, <2>2
  <1>3. c \in Nat /\ (c = a \/ c = a + 1) /\ (q[1].id = 0 \/ q[1].id = c) /\ \A n \in Nat : n > c => n # q[1].id /\ n > a
    BY <1>2
  <1>4. q[1].id # 0 => c = a + 1
    OBVIOUS
  <1>5. q[1].id = 0 => c = a
    OBVIOUS
  <1> HIDE DEF c
  <1>6. \A i \in 1..Len(r) : r[i].id # 0 => c < r[i].id /\ r[i].id <= b
    <2> SUFFICES ASSUME NEW i \in 1..Len(r), r[i].id # 0 PROVE c < r[i].id /\ r[i].id <= b
      OBVIOUS
    <2>1. i + 1 \in 1..Len(q) /\ r[i] = q[i + 1] /\ i + 1 # 1 /\ 1 \in 1..Len(q)
      BY <1>1
    <2>2. a < q[i + 1].id /\ q[i + 1].id <= b /\ q[i + 1].id # q[1].id /\ q[i + 1].id \in Nat
      BY <1>0, <2>1 DEF Lines
    <2> QED BY <1>2, <1>3, <1>4, <1>5, <2>1, <2>2
  <1>7. \A i, j \in 1..Len(r) : i # j /\ r[i].id # 0 => r[i].id # r[j].id
    <2> SUFFICES ASSUME NEW i \in 1..Len(r), NEW j \in 1..Len(r), i # j, r[i].id # 0 PROVE r[i].id # r[j].id
      OBVIOUS
    <2>1. i + 1 \in 1..Len(q) /\ j + 1 \in 1..Len(q) /\ i + 1 # j + 1 /\ r[i] = q[i + 1] /\ r[j] = q[j + 1]
      BY <1>1, SMTT(30)
    <2> QED BY <2>1 DEF Lines
  <1>8. \A i \in 1..Len(r) : \A n \in (c + 1)..(r[i].id - 1) : \E j \in 1..(i - 1) : r[j].id = n
    <2> SUFFICES ASSUME NEW i \in 1..Len(r), NEW n \in (c + 1)..(r[i].id - 1)
                 PROVE  \E j \in 1..(i - 1) : r[j].id = n
      OBVIOUS
    <2>1. i + 1 \in 1..Len(q) /\ r[i] = q[i + 1] /\ n \in (a + 1)..(q[i + 1].id - 1) /\ n # q[1].id
      BY <1>0, <1>1, <1>3
    <2>2. PICK j \in 1..((i + 1) - 1) : q[j].id = n
      BY <2>1 DEF Lines
    <2>3. j # 1 /\ j - 1 \in 1..(i - 1) /\ j - 1 \in 1..Len(r) /\ (j - 1) + 1 = j
      BY <1>1, <2>1, <2>2
    <2>4. r[j - 1] = q[j]
      BY <1>1, <2>3
    <2> QED BY <2>2, <2>3, <2>4
  <1>9. o => \A n \in (c + 1)..b : \E j \in 1..Len(r) : r[j].id = n
    <2> SUFFICES ASSUME o, NEW n \in (c + 1)..b PROVE \E j \in 1..Len(r) : r[j].id = n
      OBVIOUS
    <2>1. n \in (a + 1)..b /\ n # q[1].id
      BY <1>3
    <2>2. PICK j \in 1..Len(q) : q[j].id = n
      BY <2>1 DEF Lines
    <2>3. j # 1 /\ j - 1 \in 1..Len(r) /\ (j - 1) + 1 = j
      BY <1>1, <2>1, <2>2
    <2>4. r[j - 1] = q[j]
      BY <1>1, <2>3
    <2> QED BY <2>2, <2>3, <2>4
  <1>10. Lines(r, c, b, o)
    BY <1>6, <1>7, <1>8, <1>9 DEF Lines
  <1> QED BY <1>1, <1>2, <1>4, <1>5, <1>10 DEF r

-----------------------------------------------------------------------------
(* What steps do to sessions *)

\* Flags aside, a session stays as it was, or ends.
Calm(r, t) ==
    /\ t.made = r.made /\ t.started = r.started /\ t.log = r.log /\ t.taken = r.taken
    /\ t.final = r.final /\ t.complete = r.complete /\ t.buffered = r.buffered
    /\ (t.out = r.out /\ t.terminal = r.terminal) \/ (t.out = <<>> /\ t.terminal)

LEMMA CalmKeeps ==
    ASSUME NEW r \in Session, NEW t \in Session, Calm(r, t), Assembles(r)
    PROVE  Assembles(t)
  BY DEF Calm, Assembles

AllCalm == session' \in [Sessions -> Session] /\ \A x \in Sessions : Calm(session[x], session'[x])

LEMMA CalmSame == \A r : Calm(r, r)
  BY Zenon DEF Calm

LEMMA UnchangedCalm == ASSUME StreamTypes, session' = session PROVE AllCalm
  BY CalmSame DEF StreamTypes, AllCalm

LEMMA SessionUpdates ==
    ASSUME NEW r \in Session
    PROVE  /\ \A b \in BOOLEAN : [r EXCEPT !.timer = b] \in Session /\ Calm(r, [r EXCEPT !.timer = b])
           /\ LET t == [r EXCEPT !.timer = FALSE, !.expired = TRUE, !.stopped = TRUE] IN t \in Session /\ Calm(r, t)
           /\ LET t == [r EXCEPT !.terminal = TRUE, !.stopped = TRUE, !.out = <<>>] IN t \in Session /\ Calm(r, t)
  <1>0. <<>> \in Seq(Item)
    OBVIOUS
  <1>1. ASSUME NEW b \in BOOLEAN PROVE [r EXCEPT !.timer = b] \in Session
    BY DEF Session
  <1>2. ASSUME NEW b \in BOOLEAN PROVE Calm(r, [r EXCEPT !.timer = b])
    BY Zenon DEF Calm, Session
  <1>3. [r EXCEPT !.timer = FALSE, !.expired = TRUE, !.stopped = TRUE] \in Session
    BY DEF Session
  <1>4. Calm(r, [r EXCEPT !.timer = FALSE, !.expired = TRUE, !.stopped = TRUE])
    BY Zenon DEF Calm, Session
  <1>5. [r EXCEPT !.terminal = TRUE, !.stopped = TRUE, !.out = <<>>] \in Session
    BY <1>0 DEF Session
  <1>6. Calm(r, [r EXCEPT !.terminal = TRUE, !.stopped = TRUE, !.out = <<>>])
    BY DEF Calm, Session
  <1> QED BY <1>1, <1>2, <1>3, <1>4, <1>5, <1>6

LEMMA OneCalm ==
    ASSUME StreamTypes, NEW e \in Sessions, NEW t \in Session, session' = [session EXCEPT ![e] = t], Calm(session[e], t)
    PROVE  AllCalm
  <1>1. session' \in [Sessions -> Session] /\ \A x \in Sessions : session'[x] = IF x = e THEN t ELSE session[x]
    BY DEF StreamTypes
  <1> QED BY <1>1, CalmSame DEF AllCalm

\* Retention begins, ends or is called off.
LEMMA TimerCalm ==
    ASSUME StreamTypes, NEW e \in Sessions, NEW b \in BOOLEAN, session' = [session EXCEPT ![e].timer = b]
    PROVE  AllCalm
  <1>1. session[e] \in Session
    BY DEF StreamTypes
  <1> QED BY <1>1, SessionUpdates, OneCalm

LEMMA TerminateCalm == ASSUME StreamTypes, NEW e \in Sessions, Terminate(e) PROVE AllCalm
  <1>1. session[e] \in Session
    BY DEF StreamTypes
  <1>2. CASE session' = session
    BY <1>2, UnchangedCalm
  <1>3. CASE session' = [session EXCEPT ![e].terminal = TRUE, ![e].stopped = TRUE, ![e].out = <<>>]
    <2>1. session' = [session EXCEPT ![e] = [session[e] EXCEPT !.terminal = TRUE, !.stopped = TRUE, !.out = <<>>]]
      BY <1>3 DEF StreamTypes
    <2> QED BY <1>1, <2>1, SessionUpdates, OneCalm
  <1> QED BY <1>2, <1>3 DEF Terminate

LEMMA DetachedCalm ==
    ASSUME StreamTypes, NEW e \in Sessions, session' = Detached(e, viewer')
    PROVE  AllCalm
  BY UnchangedCalm, TimerCalm DEF Detached

LEMMA ExpireCalm == ASSUME StreamTypes, NEW e \in Sessions, Expire(e) PROVE AllCalm
  <1>1. session[e] \in Session
    BY DEF StreamTypes
  <1>2. CASE session' = [session EXCEPT ![e].timer = FALSE]
    BY <1>2, TimerCalm
  <1>3. CASE session' = [session EXCEPT ![e].timer = FALSE, ![e].expired = TRUE, ![e].stopped = TRUE]
    <2>1. session' = [session EXCEPT ![e] = [session[e] EXCEPT !.timer = FALSE, !.expired = TRUE, !.stopped = TRUE]]
      BY <1>3 DEF StreamTypes
    <2> QED BY <1>1, <2>1, SessionUpdates, OneCalm
  <1> QED BY <1>2, <1>3 DEF Expire

\* Nothing is published, begun or opened.
SameLogs ==
    \A x \in Sessions : /\ session'[x].log = session[x].log /\ session'[x].started = session[x].started
                        /\ session'[x].made = session[x].made

\* The sessions after a step.
SessionsKept == session' \in [Sessions -> Session] /\ \A x \in Sessions : Assembles(session'[x])

LEMMA CalmSessions == ASSUME StreamTypes, SessionsInv, AllCalm PROVE SessionsKept /\ SameLogs
  <1>1. \A x \in Sessions : session[x] \in Session /\ session'[x] \in Session
    BY DEF StreamTypes, AllCalm
  <1>2. SameLogs
    BY Zenon DEF AllCalm, Calm, SameLogs
  <1> QED BY <1>1, <1>2, CalmKeeps DEF AllCalm, SessionsKept, SessionsInv

\* One session moves on.
LEMMA OneSession ==
    ASSUME StreamTypes, SessionsInv, NEW e \in Sessions, NEW t \in Session, Assembles(t),
           session' = [session EXCEPT ![e] = t]
    PROVE  /\ SessionsKept /\ session'[e] = t /\ \A x \in Sessions \ {e} : session'[x] = session[x]
           /\ t.log = session[e].log /\ t.started = session[e].started /\ t.made = session[e].made => SameLogs
  <1>1. session' \in [Sessions -> Session] /\ session'[e] = t /\ \A x \in Sessions \ {e} : session'[x] = session[x]
    BY DEF StreamTypes
  <1>2. \A x \in Sessions : Assembles(session'[x])
    BY <1>1 DEF SessionsInv
  <1>3. t.log = session[e].log /\ t.started = session[e].started /\ t.made = session[e].made => SameLogs
    BY <1>1, Zenon DEF SameLogs
  <1> QED BY <1>1, <1>2, <1>3 DEF SessionsKept

\* An event of source s is taken.
LEMMA TakenFields ==
    ASSUME StreamTypes, NEW e \in Sessions, NEW s \in Sources
    PROVE  /\ Taken(e, s) \in Session
           /\ Taken(e, s).taken = [session[e].taken EXCEPT ![s] = @ + 1]
           /\ Taken(e, s).taken \in [Sources -> Nat]
           /\ Taken(e, s).log = session[e].log /\ Taken(e, s).out = session[e].out
           /\ Taken(e, s).final = session[e].final /\ Taken(e, s).buffered = session[e].buffered
           /\ Taken(e, s).made = session[e].made
  <1> DEFINE r == session[e]
             tk == [r.taken EXCEPT ![s] = @ + 1]
  <1>1. r \in Session /\ r.taken \in [Sources -> Nat]
    BY DEF StreamTypes, Session
  <1>2. tk \in [Sources -> Nat]
    BY <1>1
  <1> HIDE DEF tk
  <1>3. Taken(e, s) = [r EXCEPT !.taken = tk]
    BY <1>1 DEF Taken, Session, tk
  <1> HIDE DEF r
  <1>4. [r EXCEPT !.taken = tk] \in Session
    BY <1>1, <1>2 DEF Session
  <1>5. /\ [r EXCEPT !.taken = tk].taken = tk /\ [r EXCEPT !.taken = tk].log = r.log
        /\ [r EXCEPT !.taken = tk].out = r.out /\ [r EXCEPT !.taken = tk].final = r.final
        /\ [r EXCEPT !.taken = tk].buffered = r.buffered /\ [r EXCEPT !.taken = tk].made = r.made
    BY <1>1 DEF Session
  <1> QED BY <1>2, <1>3, <1>4, <1>5 DEF r, tk

LEMMA TakenFlags ==
    ASSUME StreamTypes, NEW e \in Sessions, NEW s \in Sources
    PROVE  /\ Taken(e, s).started = session[e].started /\ Taken(e, s).complete = session[e].complete
           /\ Taken(e, s).terminal = session[e].terminal
  <1>1. session[e] \in Session
    BY DEF StreamTypes
  <1> QED BY <1>1, Zenon DEF Taken, Session

\* The snapshot of source s, which may be the last one.
LEMMA TakeSnapshotKeeps ==
    ASSUME StreamTypes, SessionsInv, NEW e \in Sessions, NEW s \in Sources, TakeSnapshot(e, s), ~ (s \in Taken(e, s).final)
    PROVE  SessionsKept /\ SameLogs
  <1> DEFINE r == Taken(e, s)
             final == r.final \cup {s}
             all == final = Sources
             snap == Event("snapshot", [t \in Sources |-> 1])
             out == IF all THEN <<snap>> \o r.buffered ELSE <<>>
             kept == IF all THEN <<>> ELSE r.buffered
             t == [r EXCEPT !.final = final, !.complete = all, !.out = out, !.buffered = kept]
  <1>1. session' = [session EXCEPT ![e] = t] /\ ~ session[e].complete
    BY DEF TakeSnapshot
  <1>2. r \in Session /\ r.buffered \in Seq(Item) /\ r.final \in SUBSET Sources
    BY TakenFields DEF Session
  <1>3. snap \in Item /\ snap.news = [x \in Sources |-> 1]
    BY DEF Event, Item
  <1>4. out \in Seq(Item) /\ kept \in Seq(Item) /\ final \in SUBSET Sources /\ all \in BOOLEAN
    BY <1>2, <1>3
  <1> HIDE DEF r, final, all, snap, out, kept
  <1>5. t \in Session
    BY <1>2, <1>4 DEF Session
  <1>6. t.final = final /\ t.out = out /\ t.buffered = kept /\ t.taken = r.taken /\ t.log = r.log /\ t.made = r.made
    BY <1>2 DEF Session
  <1>7. t.complete = all /\ t.started = r.started /\ t.terminal = r.terminal
    BY <1>2, Zenon DEF Session
  <1> HIDE DEF t
  <1>8. Assembles(session[e])
    BY DEF SessionsInv
  <1>9. /\ session[e].log = <<>> /\ session[e].taken \in [Sources -> Nat]
        /\ \A x \in Sources : /\ x \in session[e].final <=> session[e].taken[x] > 0
                             /\ Tells(session[e].buffered, x, 2, session[e].taken[x])
    BY <1>1, <1>8 DEF Assembles, StreamTypes, Session
  <1>10. /\ r.log = <<>> /\ r.taken \in [Sources -> Nat] /\ s \notin r.final
         /\ \A x \in Sources : /\ x \in final <=> r.taken[x] > 0
                              /\ Tells(r.buffered, x, 2, r.taken[x])
    <2>1. /\ r.taken = [session[e].taken EXCEPT ![s] = @ + 1] /\ r.log = session[e].log
          /\ r.final = session[e].final /\ r.buffered = session[e].buffered
      BY TakenFields DEF r
    <2>2. s \notin r.final
      BY DEF r
    <2>3. session[e].taken[s] = 0 /\ r.taken[s] = 1
      BY <1>9, <2>1, <2>2
    <2>4. \A x \in Sources \ {s} : r.taken[x] = session[e].taken[x]
      BY <1>9, <2>1
    <2>5. ASSUME NEW x \in Sources
          PROVE  (x \in final <=> r.taken[x] > 0) /\ Tells(r.buffered, x, 2, r.taken[x])
      <3>1. CASE x = s
        BY <1>9, <2>1, <2>3, <3>1, TellsFirst DEF final
      <3>2. CASE x # s
        BY <1>9, <2>1, <2>4, <3>2 DEF final
      <3> QED BY <3>1, <3>2
    <2> QED BY <1>9, <2>1, <2>2, <2>5
  <1>11. t.made = 0 => ~ t.started
    <2>1. r.made = session[e].made /\ r.started = session[e].started
      BY TakenFields, TakenFlags DEF r
    <2> QED BY <1>6, <1>7, <1>8, <2>1 DEF Assembles
  <1>12. Assembles(t)
    <2>1. CASE ~ all
      BY <1>6, <1>7, <1>10, <1>11, <2>1 DEF Assembles, out, kept
    <2>2. CASE all
      <3>1. \A x \in Sources : Tells(<<snap>> \o r.buffered, x, 1, r.taken[x])
        BY <1>2, <1>3, <1>10, <2>2, TellsAll DEF all
      <3>2. t.log \o t.out = <<snap>> \o r.buffered
        BY <1>2, <1>3, <1>6, <1>10, <2>2, <1>4 DEF out
      <3> QED BY <1>6, <1>7, <1>10, <1>11, <2>2, <3>1, <3>2 DEF Assembles
    <2> QED BY <2>1, <2>2
  <1>13. t.log = session[e].log /\ t.made = session[e].made
    BY <1>6, TakenFields DEF r
  <1>14. t.started = session[e].started
    BY <1>7, TakenFlags, Zenon DEF r
  <1> QED BY <1>1, <1>5, <1>12, <1>13, <1>14, OneSession

\* A later event of source s: it is told, or kept back.
LEMMA TakeChangeKeeps ==
    ASSUME StreamTypes, SessionsInv, NEW e \in Sessions, NEW s \in Sources, TakeChange(e, s)
    PROVE  SessionsKept /\ SameLogs
  <1> DEFINE r == Taken(e, s)
             event == Event("change", [t \in Sources |-> IF t = s THEN r.taken[s] ELSE 0])
             told == [r EXCEPT !.out = <<event>>]
             kept == [r EXCEPT !.buffered = Append(@, event)]
  <1>1. /\ session[e].out = <<>> /\ s \in r.final
        /\ \/ r.complete /\ session' = [session EXCEPT ![e] = told]
           \/ ~ r.complete /\ session' = [session EXCEPT ![e] = kept]
           \/ Terminate(e)
    BY DEF TakeChange
  <1>2. /\ r \in Session /\ r.buffered \in Seq(Item) /\ r.log \in Seq(Item) /\ r.final \in SUBSET Sources
        /\ r.taken \in [Sources -> Nat] /\ session[e].taken \in [Sources -> Nat]
    BY TakenFields DEF Session, StreamTypes
  <1>3. event \in Item /\ event.news = [x \in Sources |-> IF x = s THEN r.taken[s] ELSE 0]
    BY <1>2 DEF Event, Item
  <1>4. /\ r.taken = [session[e].taken EXCEPT ![s] = @ + 1] /\ r.log = session[e].log
        /\ r.final = session[e].final /\ r.buffered = session[e].buffered /\ r.made = session[e].made
    BY TakenFields
  <1>5. r.started = session[e].started /\ r.complete = session[e].complete /\ r.terminal = session[e].terminal
    BY TakenFlags
  <1> HIDE DEF r, event
  <1>6. event.news[s] = session[e].taken[s] + 1 /\ r.taken[s] = session[e].taken[s] + 1
    BY <1>2, <1>3, <1>4
  <1>7. \A x \in Sources \ {s} : event.news[x] = 0 /\ r.taken[x] = session[e].taken[x]
    BY <1>2, <1>3, <1>4
  <1>8. Assembles(session[e])
    BY DEF SessionsInv
  <1>9. CASE r.complete /\ session' = [session EXCEPT ![e] = told]
    <2>0. <<event>> \in Seq(Item)
      BY <1>3
    <2>1. told \in Session
      BY <1>2, <2>0 DEF Session
    <2>2. told.out = <<event>> /\ told.taken = r.taken /\ told.log = r.log /\ told.made = r.made
      BY <1>2 DEF Session
    <2>3. told.complete = r.complete /\ told.started = r.started /\ told.terminal = r.terminal
      BY <1>2, Zenon DEF Session
    <2> HIDE DEF told
    <2>4. ASSUME ~ r.terminal, NEW x \in Sources PROVE Tells(Append(r.log, event), x, 1, r.taken[x])
      <3>1. Tells(r.log \o <<>>, x, 1, session[e].taken[x])
        BY <1>1, <1>4, <1>5, <1>8, <1>9, <2>4 DEF Assembles
      <3>2. r.log \o <<>> = r.log
        BY <1>2
      <3>3. Tells(r.log, x, 1, session[e].taken[x]) /\ session[e].taken[x] \in Nat
        BY <1>2, <3>1, <3>2
      <3>4. CASE x = s
        BY <1>2, <1>3, <1>6, <3>3, <3>4, TellsNext
      <3>5. CASE x # s
        BY <1>2, <1>3, <1>7, <3>3, <3>5, TellsSame
      <3> QED BY <3>4, <3>5
    <2>5. told.log \o told.out = Append(r.log, event)
      BY <1>2, <1>3, <2>2
    <2>6. Assembles(told)
      BY <1>4, <1>5, <1>8, <1>9, <2>2, <2>3, <2>4, <2>5 DEF Assembles
    <2>7. told.log = session[e].log /\ told.made = session[e].made
      BY <1>4, <2>2
    <2>8. told.started = session[e].started
      BY <1>5, <2>3, Zenon
    <2> QED BY <1>9, <2>1, <2>6, <2>7, <2>8, OneSession
  <1>10. CASE ~ r.complete /\ session' = [session EXCEPT ![e] = kept]
    <2> DEFINE buffered == Append(r.buffered, event)
    <2>0. buffered \in Seq(Item)
      BY <1>2, <1>3
    <2>1. kept \in Session /\ kept.buffered = buffered
      BY <1>2, <2>0 DEF Session
    <2>2. kept.out = r.out /\ kept.taken = r.taken /\ kept.log = r.log /\ kept.made = r.made /\ kept.final = r.final
      BY <1>2 DEF Session
    <2>3. kept.complete = r.complete /\ kept.started = r.started /\ kept.terminal = r.terminal
      BY <1>2, Zenon DEF Session
    <2> HIDE DEF kept
    <2>4. /\ r.log = <<>> /\ session[e].out = <<>>
          /\ \A x \in Sources : /\ x \in r.final <=> session[e].taken[x] > 0
                               /\ Tells(r.buffered, x, 2, session[e].taken[x])
      BY <1>1, <1>4, <1>5, <1>8, <1>10 DEF Assembles
    <2>5. ASSUME NEW x \in Sources
          PROVE  (x \in r.final <=> r.taken[x] > 0) /\ Tells(buffered, x, 2, r.taken[x])
      <3>1. session[e].taken[x] \in Nat
        BY <1>2
      <3>2. CASE x = s
        <4>1. session[e].taken[s] > 0
          BY <1>1, <2>4
        <4>2. s \in r.final /\ r.taken[s] > 0
          BY <1>1, <1>6, <3>1, <3>2
        <4>3. Tells(r.buffered, s, 2, session[e].taken[s]) /\ 2 <= session[e].taken[s] + 1
          BY <2>4, <3>1, <3>2, <4>1
        <4>4. Tells(buffered, s, 2, session[e].taken[s] + 1)
          BY <1>2, <1>3, <1>6, <3>1, <3>2, <4>3, TellsNext
        <4> QED BY <1>6, <3>2, <4>2, <4>4
      <3>3. CASE x # s
        BY <1>2, <1>3, <1>7, <2>4, <3>1, <3>3, TellsSame
      <3> QED BY <3>2, <3>3
    <2>6. r.out = <<>>
      BY <2>4, TakenFields DEF r
    <2> HIDE DEF buffered
    <2>7. kept.made = 0 => ~ kept.started
      BY <1>4, <1>5, <1>8, <2>2, <2>3 DEF Assembles
    <2>8. Assembles(kept)
      BY <1>10, <2>7, <2>1, <2>2, <2>3, <2>4, <2>5, <2>6 DEF Assembles
    <2>9. kept.log = session[e].log /\ kept.made = session[e].made
      BY <1>4, <2>2
    <2>10. kept.started = session[e].started
      BY <1>5, <2>3, Zenon
    <2> QED BY <1>10, <2>1, <2>8, <2>9, <2>10, OneSession
  <1>11. CASE Terminate(e)
    BY <1>11, TerminateCalm, CalmSessions
  <1> QED BY <1>1, <1>9, <1>10, <1>11

\* The next event is published.
LEMMA PublishKeeps ==
    ASSUME StreamTypes, SessionsInv, NEW e \in Sessions, PublishNext(e)
    PROVE  /\ SessionsKept
           /\ Len(session'[e].log) = Len(session[e].log) + 1
           /\ session[e].started /\ session'[e].started = session[e].started /\ session'[e].made = session[e].made
           /\ \A x \in Sessions \ {e} : session'[x] = session[x]
           /\ Head(session[e].out) \in Item
  <1> DEFINE r == session[e]
             id == Len(r.log) + 1
             log == Append(r.log, Head(r.out))
             first == IF id - r.first + 1 > RingEvents THEN r.first + 1 ELSE r.first
             t == [r EXCEPT !.out = Tail(r.out), !.log = log, !.first = first]
  <1>1. r \in Session /\ r.log \in Seq(Item) /\ r.out \in Seq(Item) /\ r.first \in Int
    BY DEF StreamTypes, Session
  <1>2. r.out # <<>> /\ r.started
    BY DEF PublishNext, Running
  <1>3. session' = [session EXCEPT ![e] = t]
    BY <1>1 DEF PublishNext, StreamTypes, Session
  <1>4. /\ Head(r.out) \in Item /\ Tail(r.out) \in Seq(Item) /\ log \in Seq(Item) /\ Len(log) = Len(r.log) + 1
        /\ log \o Tail(r.out) = r.log \o r.out
    BY <1>1, <1>2, ToldKept
  <1>5. first \in Int
    BY <1>1
  <1> HIDE DEF r, log, first
  <1>6. t \in Session
    BY <1>1, <1>4, <1>5 DEF Session
  <1>7. t.out = Tail(r.out) /\ t.log = log /\ t.taken = r.taken /\ t.made = r.made
    BY <1>1 DEF Session
  <1>8. t.started = r.started /\ t.complete = r.complete /\ t.terminal = r.terminal
    BY <1>1, Zenon DEF Session
  <1> HIDE DEF t
  <1>9. Assembles(r)
    BY DEF SessionsInv, r
  <1>10. r.complete
    BY <1>2, <1>9 DEF Assembles
  <1>11. Assembles(t)
    BY <1>2, <1>4, <1>7, <1>8, <1>9, <1>10 DEF Assembles
  <1>12. SessionsKept /\ session'[e] = t /\ \A x \in Sessions \ {e} : session'[x] = session[x]
    BY <1>3, <1>6, <1>11, OneSession
  <1> QED BY <1>2, <1>4, <1>7, <1>8, <1>12 DEF r

\* The goroutine of a session begins.
LEMMA StartKeeps ==
    ASSUME StreamTypes, SessionsInv, NEW e \in Sessions, session[e].made # 0,
           session' = [session EXCEPT ![e].started = TRUE]
    PROVE  /\ SessionsKept
           /\ \A x \in Sessions : session'[x].log = session[x].log /\ session'[x].made = session[x].made
           /\ \A x \in Sessions \ {e} : session'[x].started = session[x].started
  <1> DEFINE r == session[e]
             t == [r EXCEPT !.started = TRUE]
  <1>1. r \in Session
    BY DEF StreamTypes
  <1>2. session' = [session EXCEPT ![e] = t]
    OBVIOUS
  <1> HIDE DEF r
  <1>3. t \in Session
    BY <1>1 DEF Session
  <1>4. /\ t.out = r.out /\ t.log = r.log /\ t.taken = r.taken /\ t.made = r.made /\ t.final = r.final
        /\ t.buffered = r.buffered
    BY <1>1 DEF Session
  <1>5. t.started = TRUE /\ t.complete = r.complete /\ t.terminal = r.terminal
    BY <1>1, Zenon DEF Session
  <1> HIDE DEF t
  <1>6. Assembles(r)
    BY DEF SessionsInv, r
  <1>7. t.made # 0
    BY <1>4 DEF r
  <1>8. Assembles(t)
    BY <1>4, <1>5, <1>6, <1>7 DEF Assembles
  <1>9. SessionsKept /\ session'[e] = t /\ \A x \in Sessions \ {e} : session'[x] = session[x]
    BY <1>2, <1>3, <1>8, OneSession
  <1> QED BY <1>4, <1>9, Zenon DEF r

\* A session is made, and the oldest idle one may be told to leave.
LEMMA OpenKeeps ==
    ASSUME StreamTypes, SessionsInv, NEW v \in Viewers, NEW e \in Sessions, Open(v, e)
    PROVE  /\ SessionsKept
           /\ \A x \in Sessions : session'[x].log = session[x].log /\ session'[x].started = session[x].started
           /\ session'[e].made # 0 /\ \A x \in Sessions \ {e} : session'[x].made = session[x].made
           /\ registered' \subseteq Sessions
  <1> DEFINE used == {x \in Sessions : session[x].made # 0}
             n == 1 + Cardinality(used)
             m(x) == IF x = e THEN n ELSE session[x].made
  <1>1. n \in Nat /\ n # 0
    <2>1. IsFiniteSet(used)
      BY FS_Subset
    <2>2. Cardinality(used) \in Nat
      BY <2>1, FS_CardinalityType
    <2> QED BY <2>2
  <1>2. registered' \subseteq Sessions
    BY DEF Open, StreamTypes
  <1>3. \A x \in Sessions : session[x] \in Session
    BY DEF StreamTypes
  <1> DEFINE idle == {x \in registered : Clients(x, viewer) = {}}
             old == CHOOSE x \in idle : \A y \in idle : session[x].made <= session[y].made
             full == Cardinality(registered) >= MaximumStreams
  <1>4. session' = IF full THEN [session EXCEPT ![e].made = n, ![old].timer = TRUE] ELSE [session EXCEPT ![e].made = n]
    BY DEF Open
  <1> HIDE DEF n, old, full
  <1>5. ASSUME NEW x \in Sessions
        PROVE  /\ session'[x] \in Session /\ session'[x].made = m(x) /\ session'[x].log = session[x].log
               /\ session'[x].taken = session[x].taken /\ session'[x].final = session[x].final
               /\ session'[x].buffered = session[x].buffered /\ session'[x].out = session[x].out
               /\ session'[x].started = session[x].started /\ session'[x].complete = session[x].complete
               /\ session'[x].terminal = session[x].terminal
    <2> DEFINE r == session[x]
    <2>1. /\ session'[x] = r \/ session'[x] = [r EXCEPT !.made = n] \/ session'[x] = [r EXCEPT !.timer = TRUE]
             \/ session'[x] = [[r EXCEPT !.made = n] EXCEPT !.timer = TRUE]
          /\ x = e => session'[x] = [r EXCEPT !.made = n] \/ session'[x] = [[r EXCEPT !.made = n] EXCEPT !.timer = TRUE]
          /\ x # e => session'[x] = r \/ session'[x] = [r EXCEPT !.timer = TRUE]
      BY <1>4 DEF StreamTypes
    <2>2. r \in Session
      BY <1>3
    <2> HIDE DEF r
    <2>3. session'[x] \in Session
      BY <1>1, <2>1, <2>2 DEF Session
    <2>4. session'[x].made = m(x)
      BY <2>1, <2>2 DEF Session, r
    <2>5. /\ session'[x].log = r.log /\ session'[x].taken = r.taken /\ session'[x].final = r.final
          /\ session'[x].buffered = r.buffered /\ session'[x].out = r.out
      BY <2>1, <2>2 DEF Session
    <2>6. session'[x].started = r.started /\ session'[x].complete = r.complete /\ session'[x].terminal = r.terminal
      BY <2>1, <2>2, Zenon DEF Session
    <2> QED BY <2>3, <2>4, <2>5, <2>6 DEF r
  <1>6. session' = [x \in Sessions |-> session'[x]]
    BY <1>4 DEF StreamTypes
  <1>7. session' \in [Sessions -> Session]
    BY <1>5, <1>6
  <1>8. ASSUME NEW x \in Sessions PROVE Assembles(session'[x])
    <2>1. Assembles(session[x])
      BY DEF SessionsInv
    <2>2. session'[x].made = 0 => ~ session'[x].started
      BY <1>1, <1>5, <2>1 DEF Assembles
    <2> QED BY <1>5, <2>1, <2>2 DEF Assembles
  <1> QED BY <1>1, <1>2, <1>5, <1>7, <1>8 DEF SessionsKept

-----------------------------------------------------------------------------
(* What steps do to viewers *)

LEMMA PublishedIs ==
    ASSUME StreamTypes
    PROVE  /\ DOMAIN Published = Sessions \cup {None} /\ Published[None] = 0
           /\ \A e \in Sessions : Published[e] = Len(session[e].log) /\ Len(session[e].log) \in Nat
           /\ \A e \in Sessions \cup {None} : Published[e] \in Nat
  <1>1. \A e \in Sessions : session[e].log \in Seq(Item)
    BY DEF StreamTypes, Session
  <1>2. \A e \in Sessions : Len(session[e].log) \in Nat
    BY <1>1, LenProperties
  <1> QED BY <1>2 DEF Published

LEMMA PublishedNext ==
    ASSUME session' \in [Sessions -> Session]
    PROVE  /\ Published'[None] = 0 /\ \A e \in Sessions : Published'[e] = Len(session'[e].log)
           /\ Published' = [e \in Sessions \cup {None} |-> IF e = None THEN 0 ELSE Len(session'[e].log)]
  BY DEF Published

Quiet == \A x \in Sessions : session'[x].log = session[x].log

LEMMA PublishedSame == ASSUME StreamTypes, session' \in [Sessions -> Session], Quiet PROVE Published' = Published
  BY DEF Published, Quiet

LEMMA ViewerTypes ==
    ASSUME StreamTypes, NEW v \in Viewers
    PROVE  /\ viewer[v] \in Viewer /\ viewer[v].pc \in {"idle", "attach", "stream"}
           /\ viewer[v].session \in Sessions \cup {None} /\ viewer[v].last \in Nat /\ viewer[v].replay \in Seq(Nat)
           /\ viewer[v].queue \in Seq(Entry) /\ viewer[v].closed \in BOOLEAN /\ Len(viewer[v].replay) \in Nat
           /\ Len(viewer[v].queue) \in Nat /\ Ahead(viewer[v]) \in Nat
  <1>1. viewer[v] \in Viewer
    BY DEF StreamTypes
  <1>2. /\ viewer[v].pc \in {"idle", "attach", "stream"}
        /\ viewer[v].session \in Sessions \cup {None} /\ viewer[v].last \in Nat /\ viewer[v].replay \in Seq(Nat)
        /\ viewer[v].queue \in Seq(Entry) /\ viewer[v].closed \in BOOLEAN
    BY <1>1 DEF Viewer
  <1>3. Len(viewer[v].replay) \in Nat /\ Len(viewer[v].queue) \in Nat
    BY <1>2, LenProperties
  <1> QED BY <1>1, <1>2, <1>3 DEF Ahead

LEMMA Unnumbered == Progress \in Entry /\ Progress.id = 0 /\ Reset \in Entry /\ Reset.id = 0 /\ <<Reset>> \in Seq(Entry)
  BY DEF Progress, Reset, Entry

\* A viewer keeps its place: only its queue changes.
Placed(w, u) == w.pc = u.pc /\ w.session = u.session /\ w.last = u.last /\ w.replay = u.replay

\* An entry is pushed to an open queue, which may overflow.
LEMMA PushedKeeps ==
    ASSUME StreamTypes, NEW v \in Viewers, NEW x \in Entry, NEW b \in Nat,
           viewer[v].pc = "stream", ~ viewer[v].closed, InOrder(viewer[v], b)
    PROVE  /\ Pushed(v, x) \in Viewer /\ Placed(Pushed(v, x), viewer[v])
           /\ x.id = 0 => InOrder(Pushed(v, x), b)
           /\ x.id = b + 1 => InOrder(Pushed(v, x), b + 1)
  <1> DEFINE w == viewer[v]
             q == Append(w.queue, x)
             p == [w EXCEPT !.queue = q]
             c == [w EXCEPT !.queue = <<Reset>>, !.closed = TRUE]
  <1>1. /\ w \in Viewer /\ w.queue \in Seq(Entry) /\ w.closed \in BOOLEAN /\ Ahead(w) \in Nat
    BY ViewerTypes
  <1>2. q \in Seq(Entry)
    BY <1>1
  <1>3. Pushed(v, x) = p \/ Pushed(v, x) = c
    BY DEF Pushed
  <1>4. Lines(w.queue, Ahead(w), b, TRUE) /\ Ahead(w) <= b /\ \A i \in 1..Len(w.replay) : w.replay[i] = w.last + i
    BY DEF InOrder
  <1>5. x.id = 0 => Lines(q, Ahead(w), b, TRUE)
    BY <1>1, <1>4, LinesUnnumbered
  <1>6. x.id = b + 1 => Lines(q, Ahead(w), b + 1, TRUE)
    BY <1>1, <1>4, LinesNext
  <1>7. Lines(<<Reset>>, Ahead(w), b, FALSE) /\ Lines(<<Reset>>, Ahead(w), b + 1, FALSE)
    BY <1>1, Unnumbered, LinesTrivially
  <1>8. w.pc = "stream"
    OBVIOUS
  <1>9. ~ w.closed
    OBVIOUS
  <1> HIDE DEF w, q
  <1>10. p \in Viewer /\ c \in Viewer
    BY <1>1, <1>2, Unnumbered DEF Viewer
  <1>11. p.queue = q /\ c.queue = <<Reset>> /\ Placed(p, w) /\ Placed(c, w)
    BY <1>1 DEF Viewer, Placed
  <1>12. p.closed = w.closed /\ c.closed = TRUE
    BY <1>1, Zenon DEF Viewer
  <1> HIDE DEF p, c
  <1>13. Ahead(p) = Ahead(w) /\ Ahead(c) = Ahead(w)
    BY <1>11 DEF Ahead, Placed
  <1>14. x.id = 0 => InOrder(p, b)
    BY <1>4, <1>5, <1>8, <1>9, <1>11, <1>12, <1>13 DEF InOrder, Placed
  <1>15. Ahead(w) <= b + 1
    BY <1>1, <1>4
  <1>16. x.id = b + 1 => InOrder(p, b + 1)
    BY <1>15, <1>4, <1>6, <1>8, <1>9, <1>11, <1>12, <1>13 DEF InOrder, Placed
  <1>17. InOrder(c, b)
    BY <1>4, <1>7, <1>8, <1>11, <1>12, <1>13 DEF InOrder, Placed
  <1>18. InOrder(c, b) /\ InOrder(c, b + 1)
    BY <1>15, <1>17, <1>4, <1>7, <1>8, <1>11, <1>12, <1>13 DEF InOrder, Placed
  <1> QED BY <1>3, <1>10, <1>11, <1>14, <1>16, <1>18 DEF w

\* The session ends.
LEMMA PushedTerminalKeeps ==
    ASSUME StreamTypes, NEW v \in Viewers, NEW b \in Nat, viewer[v].pc = "stream", InOrder(viewer[v], b)
    PROVE  PushedTerminal(v) \in Viewer /\ Placed(PushedTerminal(v), viewer[v]) /\ InOrder(PushedTerminal(v), b)
  <1> DEFINE w == viewer[v]
             q == IF Len(w.queue) < QueueEvents THEN Append(w.queue, Reset) ELSE <<Reset>>
             p == [w EXCEPT !.closed = TRUE, !.queue = q]
  <1>1. /\ w \in Viewer /\ w.queue \in Seq(Entry) /\ w.closed \in BOOLEAN /\ Ahead(w) \in Nat
    BY ViewerTypes
  <1>2. q \in Seq(Entry)
    BY <1>1, Unnumbered
  <1>3. PushedTerminal(v) = p
    BY DEF PushedTerminal
  <1>4. Lines(w.queue, Ahead(w), b, FALSE) /\ Ahead(w) <= b /\ \A i \in 1..Len(w.replay) : w.replay[i] = w.last + i
    BY <1>1, LinesTrivially DEF InOrder
  <1>5. Lines(Append(w.queue, Reset), Ahead(w), b, FALSE) /\ Lines(<<Reset>>, Ahead(w), b, FALSE)
    BY <1>1, <1>4, Unnumbered, LinesUnnumbered, LinesTrivially
  <1>6. Lines(q, Ahead(w), b, FALSE) /\ w.pc = "stream"
    BY <1>5
  <1> HIDE DEF w, q
  <1>7. p \in Viewer
    BY <1>1, <1>2 DEF Viewer
  <1>8. p.queue = q /\ Placed(p, w)
    BY <1>1 DEF Viewer, Placed
  <1>9. p.closed = TRUE
    BY <1>1, Zenon DEF Viewer
  <1> HIDE DEF p
  <1>10. Ahead(p) = Ahead(w)
    BY <1>8 DEF Ahead, Placed
  <1>11. InOrder(p, b)
    BY <1>4, <1>6, <1>8, <1>9, <1>10 DEF InOrder, Placed
  <1> QED BY <1>3, <1>7, <1>8, <1>11 DEF w

\* Everybody keeps its place.
AllPlaced ==
    /\ viewer' \in [Viewers -> Viewer]
    /\ \A v \in Viewers : /\ Placed(viewer'[v], viewer[v])
                          /\ InOrder(viewer'[v], Published'[viewer[v].session])

LEMMA PlacedKeeps ==
    ASSUME StreamInv, SessionsKept, AllPlaced,
           \A x \in Sessions : session'[x].started = session[x].started /\ session'[x].made = session[x].made
    PROVE  ViewersInv'
  <1> SUFFICES ASSUME NEW v \in Viewers
               PROVE  /\ InOrder(viewer'[v], Published'[viewer'[v].session])
                      /\ viewer'[v].session = None => viewer'[v].pc = "idle" /\ viewer'[v].last = 0
                      /\ viewer'[v].session # None => session'[viewer'[v].session].made # 0
                      /\ viewer'[v].pc = "attach" /\ viewer'[v].last = 0 =>
                            /\ ~ session'[viewer'[v].session].started
                            /\ \A u \in Viewers \ {v} : viewer'[u].session # viewer'[v].session
    BY DEF ViewersInv, Fresh
  <1>1. \A u \in Viewers : viewer'[u].pc = viewer[u].pc /\ viewer'[u].session = viewer[u].session /\ viewer'[u].last = viewer[u].last
    BY DEF AllPlaced, Placed
  <1>2. viewer[v].session \in Sessions \cup {None}
    BY ViewerTypes DEF StreamInv
  <1>3. /\ viewer[v].session = None => viewer[v].pc = "idle" /\ viewer[v].last = 0
        /\ viewer[v].session # None => session[viewer[v].session].made # 0
        /\ viewer[v].pc = "attach" /\ viewer[v].last = 0 =>
               /\ ~ session[viewer[v].session].started
               /\ \A u \in Viewers \ {v} : viewer[u].session # viewer[v].session
    BY DEF StreamInv, ViewersInv, Fresh
  <1>4. InOrder(viewer'[v], Published'[viewer'[v].session])
    BY <1>1 DEF AllPlaced
  <1> QED BY <1>1, <1>2, <1>3, <1>4

LEMMA UnchangedPlaced ==
    ASSUME StreamInv, session' \in [Sessions -> Session], Quiet, viewer' = viewer
    PROVE  AllPlaced
  <1>1. Published' = Published
    BY PublishedSame DEF StreamInv
  <1> QED BY <1>1 DEF StreamInv, StreamTypes, ViewersInv, AllPlaced, Placed

LEMMA ClientsAre ==
    ASSUME StreamTypes, NEW e \in Sessions
    PROVE  \A v \in Viewers : v \in Clients(e, viewer) <=>
                viewer[v].session = e /\ ~ viewer[v].closed /\ viewer[v].pc = "stream"
  BY DEF Clients

\* A preview is pushed.
LEMMA ToldAll ==
    ASSUME StreamInv, NEW e \in Sessions, session' \in [Sessions -> Session], Quiet, viewer' = ToClients(e, Progress)
    PROVE  AllPlaced
  <1>1. Published' = Published
    BY PublishedSame DEF StreamInv
  <1>2. ASSUME NEW v \in Viewers
        PROVE  viewer'[v] \in Viewer /\ Placed(viewer'[v], viewer[v]) /\ InOrder(viewer'[v], Published[viewer[v].session])
    <2>1. StreamTypes /\ viewer[v] \in Viewer /\ InOrder(viewer[v], Published[viewer[v].session])
          /\ Published[viewer[v].session] \in Nat
      BY ViewerTypes, PublishedIs DEF StreamInv, ViewersInv
    <2>2. CASE v \in Clients(e, viewer)
      BY <2>1, <2>2, ClientsAre, PushedKeeps, Unnumbered DEF ToClients
    <2>3. CASE v \notin Clients(e, viewer)
      BY <2>1, <2>3 DEF ToClients, Placed
    <2> QED BY <2>2, <2>3
  <1>3. viewer' = [v \in Viewers |-> viewer'[v]]
    BY DEF ToClients
  <1> QED BY <1>1, <1>2, <1>3 DEF AllPlaced

LEMMA TerminatePlaced ==
    ASSUME StreamInv, NEW e \in Sessions, session' \in [Sessions -> Session], Quiet, Terminate(e)
    PROVE  AllPlaced
  <1>1. Published' = Published
    BY PublishedSame DEF StreamInv
  <1>2. CASE viewer' = viewer
    BY <1>2, UnchangedPlaced
  <1>3. CASE viewer' = [v \in Viewers |-> IF v \in Clients(e, viewer) THEN PushedTerminal(v) ELSE viewer[v]]
    <2>1. ASSUME NEW v \in Viewers
          PROVE  /\ viewer'[v] \in Viewer /\ Placed(viewer'[v], viewer[v])
                 /\ InOrder(viewer'[v], Published[viewer[v].session])
      <3>1. StreamTypes /\ viewer[v] \in Viewer /\ InOrder(viewer[v], Published[viewer[v].session])
            /\ Published[viewer[v].session] \in Nat
        BY ViewerTypes, PublishedIs DEF StreamInv, ViewersInv
      <3>2. CASE v \in Clients(e, viewer)
        BY <1>3, <3>1, <3>2, ClientsAre, PushedTerminalKeeps
      <3>3. CASE v \notin Clients(e, viewer)
        BY <1>3, <3>1, <3>3 DEF Placed
      <3> QED BY <3>2, <3>3
    <2>2. viewer' = [v \in Viewers |-> viewer'[v]]
      BY <1>3
    <2> QED BY <1>1, <2>1, <2>2 DEF AllPlaced
  <1> QED BY <1>2, <1>3 DEF Terminate

\* The next event is pushed to every open queue of its session; a viewer whose
\* queue is closed has its place behind the new end.
LEMMA PublishPlaced == ASSUME StreamInv, NEW e \in Sessions, PublishNext(e) PROVE AllPlaced
  <1> DEFINE n == Len(session[e].log)
             x == [id |-> n + 1, kind |-> Head(session[e].out).kind]
  <1>1. /\ SessionsKept /\ Len(session'[e].log) = n + 1 /\ session[e].started /\ Head(session[e].out) \in Item
        /\ \A y \in Sessions \ {e} : session'[y] = session[y]
    BY PublishKeeps DEF StreamInv
  <1>2. n \in Nat /\ Published[e] = n
    BY PublishedIs DEF StreamInv
  <1>3. x \in Entry /\ x.id = n + 1
    BY <1>1, <1>2 DEF Entry, Item
  <1>4. viewer' = ToClients(e, x)
    BY DEF PublishNext
  <1>5. Published'[e] = n + 1 /\ \A y \in Sessions \cup {None} : y # e => Published'[y] = Published[y]
    BY <1>1, PublishedIs, PublishedNext DEF SessionsKept, StreamInv
  <1> HIDE DEF n, x
  <1>6. ASSUME NEW v \in Viewers
        PROVE  viewer'[v] \in Viewer /\ Placed(viewer'[v], viewer[v]) /\ InOrder(viewer'[v], Published'[viewer[v].session])
    <2>1. /\ viewer[v] \in Viewer /\ InOrder(viewer[v], Published[viewer[v].session])
          /\ viewer[v].session \in Sessions \cup {None} /\ viewer[v].queue \in Seq(Entry) /\ Ahead(viewer[v]) \in Nat
      BY ViewerTypes DEF StreamInv, ViewersInv
    <2>2. CASE v \in Clients(e, viewer)
      <3>1. viewer[v].session = e /\ ~ viewer[v].closed /\ viewer[v].pc = "stream"
        BY <2>2, ClientsAre DEF StreamInv
      <3>2. viewer'[v] = Pushed(v, x)
        BY <1>4, <2>2 DEF ToClients
      <3> QED BY <1>2, <1>3, <1>5, <2>1, <3>1, <3>2, PushedKeeps DEF StreamInv
    <2>3. CASE v \notin Clients(e, viewer)
      <3>1. viewer'[v] = viewer[v]
        BY <1>4, <2>3 DEF ToClients
      <3>2. CASE viewer[v].session # e
        BY <1>5, <2>1, <3>1, <3>2 DEF Placed
      <3>3. CASE viewer[v].session = e
        <4>1. ~ (viewer[v].pc = "stream" /\ ~ viewer[v].closed)
          BY <2>3, <3>3, ClientsAre DEF StreamInv
        <4>2. Lines(viewer[v].queue, Ahead(viewer[v]), n, FALSE) /\ Ahead(viewer[v]) <= n
          BY <1>2, <2>1, <3>3, <4>1 DEF InOrder
        <4>3. Lines(viewer[v].queue, Ahead(viewer[v]), n + 1, FALSE)
          BY <1>2, <2>1, <4>2, LinesTrivially
        <4>4. Ahead(viewer[v]) <= n + 1
          BY <1>2, <2>1, <4>2
        <4>5. InOrder(viewer[v], n + 1)
          BY <1>2, <2>1, <3>3, <4>1, <4>3, <4>4 DEF InOrder
        <4> QED BY <1>5, <2>1, <3>1, <3>3, <4>5 DEF Placed
      <3> QED BY <3>2, <3>3
    <2> QED BY <2>2, <2>3
  <1>7. viewer' = [v \in Viewers |-> viewer'[v]]
    BY <1>4 DEF ToClients
  <1> QED BY <1>6, <1>7 DEF AllPlaced

\* One viewer moves, and the others stay where they were.
LEMMA OneViewer ==
    ASSUME StreamInv, session' \in [Sessions -> Session], Quiet, NEW v \in Viewers, NEW w \in Viewer,
           viewer' = [viewer EXCEPT ![v] = w],
           \A x \in Sessions : session[x].made # 0 => session'[x].made # 0,
           \A u \in Viewers \ {v} : viewer[u].pc = "attach" /\ viewer[u].last = 0 =>
                ~ session'[viewer[u].session].started /\ w.session # viewer[u].session,
           InOrder(w, Published[w.session]),
           w.session = None => w.pc = "idle" /\ w.last = 0,
           w.session # None => session'[w.session].made # 0,
           w.pc = "attach" /\ w.last = 0 =>
                ~ session'[w.session].started /\ \A u \in Viewers \ {v} : viewer[u].session # w.session
    PROVE  viewer' \in [Viewers -> Viewer] /\ ViewersInv'
  <1>1. Published' = Published
    BY PublishedSame DEF StreamInv
  <1>2. viewer' \in [Viewers -> Viewer] /\ viewer'[v] = w /\ \A u \in Viewers \ {v} : viewer'[u] = viewer[u]
    BY DEF StreamInv, StreamTypes
  <1>3. ASSUME NEW u \in Viewers
        PROVE  /\ InOrder(viewer'[u], Published'[viewer'[u].session])
               /\ viewer'[u].session = None => viewer'[u].pc = "idle" /\ viewer'[u].last = 0
               /\ viewer'[u].session # None => session'[viewer'[u].session].made # 0
               /\ viewer'[u].pc = "attach" /\ viewer'[u].last = 0 =>
                     /\ ~ session'[viewer'[u].session].started
                     /\ \A y \in Viewers \ {u} : viewer'[y].session # viewer'[u].session
    <2>1. CASE u = v
      BY <1>1, <1>2, <2>1
    <2>2. CASE u # v
      <3>1. /\ InOrder(viewer[u], Published[viewer[u].session])
            /\ viewer[u].session = None => viewer[u].pc = "idle" /\ viewer[u].last = 0
            /\ viewer[u].session # None => session[viewer[u].session].made # 0
            /\ viewer[u].pc = "attach" /\ viewer[u].last = 0 =>
                   \A y \in Viewers \ {u} : viewer[y].session # viewer[u].session
        BY DEF StreamInv, ViewersInv, Fresh
      <3>2. viewer[u].session \in Sessions \cup {None}
        BY ViewerTypes DEF StreamInv
      <3>3. viewer'[u] = viewer[u]
        BY <1>2, <2>2
      <3>4. viewer[u].session # None => session'[viewer[u].session].made # 0
        BY <3>1, <3>2
      <3>5. viewer[u].pc = "attach" /\ viewer[u].last = 0 =>
                /\ ~ session'[viewer[u].session].started
                /\ \A y \in Viewers \ {u} : viewer'[y].session # viewer[u].session
        BY <1>2, <2>2, <3>1
      <3> QED BY <1>1, <3>1, <3>3, <3>4, <3>5
    <2> QED BY <2>1, <2>2
  <1> QED BY <1>2, <1>3 DEF ViewersInv, Fresh

LEMMA NewViewerIs ==
    /\ NewViewer \in Viewer /\ NewViewer.session = None /\ NewViewer.pc = "idle" /\ NewViewer.last = 0
    /\ NewViewer.replay = <<>> /\ NewViewer.queue = <<>> /\ ~ NewViewer.closed
    /\ \A b \in Nat : InOrder(NewViewer, b)
  <1>1. <<>> \in Seq(Nat) /\ <<>> \in Seq(Entry) /\ Len(<<>>) = 0
    OBVIOUS
  <1>2. NewViewer \in Viewer
    BY <1>1 DEF NewViewer, Viewer
  <1>3. /\ NewViewer.session = None /\ NewViewer.pc = "idle" /\ NewViewer.last = 0
        /\ NewViewer.replay = <<>> /\ NewViewer.queue = <<>> /\ ~ NewViewer.closed
    BY DEF NewViewer
  <1>4. ASSUME NEW b \in Nat PROVE InOrder(NewViewer, b)
    <2>1. Ahead(NewViewer) = 0
      BY <1>1, <1>3 DEF Ahead
    <2>2. Lines(<<>>, 0, b, FALSE)
      BY LinesTrivially
    <2>3. NewViewer.pc # "stream"
      BY <1>3
    <2>4. Lines(NewViewer.queue, Ahead(NewViewer), b, NewViewer.pc = "stream" /\ ~ NewViewer.closed)
      BY <1>3, <2>1, <2>2, <2>3
    <2>5. Ahead(NewViewer) <= b /\ \A i \in 1..Len(NewViewer.replay) : NewViewer.replay[i] = NewViewer.last + i
      BY <1>1, <1>3, <2>1
    <2> QED BY <1>3, <2>4, <2>5 DEF InOrder
  <1> QED BY <1>2, <1>3, <1>4

\* What is known of the other viewers, when the sessions are as they were.
LEMMA OthersFresh ==
    ASSUME StreamInv, NEW v \in Viewers, NEW e \in {None, viewer[v].session},
           \A x \in Sessions : session'[x].started = session[x].started
    PROVE  \A u \in Viewers \ {v} : viewer[u].pc = "attach" /\ viewer[u].last = 0 =>
                ~ session'[viewer[u].session].started /\ e # viewer[u].session
  <1> SUFFICES ASSUME NEW u \in Viewers \ {v}, viewer[u].pc = "attach", viewer[u].last = 0
               PROVE  ~ session'[viewer[u].session].started /\ e # viewer[u].session
    OBVIOUS
  <1>1. viewer[u].session # None /\ viewer[u].session \in Sessions
    BY ViewerTypes DEF StreamInv, ViewersInv
  <1>2. ~ session[viewer[u].session].started /\ viewer[v].session # viewer[u].session
    BY DEF StreamInv, ViewersInv, Fresh
  <1> QED BY <1>1, <1>2

\* A viewer starts over.
LEMMA StartsOver ==
    ASSUME StreamInv, session' \in [Sessions -> Session], SameLogs, NEW v \in Viewers,
           viewer' = [viewer EXCEPT ![v] = NewViewer]
    PROVE  viewer' \in [Viewers -> Viewer] /\ ViewersInv'
  <1>1. Quiet /\ \A x \in Sessions : session'[x].started = session[x].started /\ session'[x].made = session[x].made
    BY DEF Quiet, SameLogs
  <1>2. InOrder(NewViewer, Published[None])
    BY NewViewerIs, PublishedIs DEF StreamInv
  <1>3. \A u \in Viewers \ {v} : viewer[u].pc = "attach" /\ viewer[u].last = 0 =>
                ~ session'[viewer[u].session].started /\ None # viewer[u].session
    BY <1>1, OthersFresh
  <1> QED BY <1>1, <1>2, <1>3, NewViewerIs, OneViewer

-----------------------------------------------------------------------------
(* The steps of viewers *)

LEMMA OpenStep ==
    ASSUME StreamInv, NEW v \in Viewers, NEW e \in Sessions, Open(v, e)
    PROVE  StreamInv'
  <1> DEFINE w == [NewViewer EXCEPT !.pc = "attach", !.session = e, !.slot = TRUE]
  <1>1. /\ SessionsKept /\ registered' \subseteq Sessions /\ session'[e].made # 0
        /\ \A x \in Sessions : session'[x].log = session[x].log /\ session'[x].started = session[x].started
        /\ \A x \in Sessions \ {e} : session'[x].made = session[x].made
    BY OpenKeeps DEF StreamInv
  <1>2. session[e].made = 0 /\ viewer' = [viewer EXCEPT ![v] = w]
    BY DEF Open
  <1>3. w \in Viewer
    BY NewViewerIs DEF Viewer
  <1>4. w.pc = "attach" /\ w.session = e /\ w.last = 0 /\ w.replay = <<>> /\ w.queue = <<>>
    BY NewViewerIs DEF NewViewer
  <1> HIDE DEF w
  <1>5. \A u \in Viewers : viewer[u].session # e
    BY <1>2 DEF StreamInv, ViewersInv
  <1>6. ~ session[e].started /\ session[e].log = <<>>
    BY <1>2 DEF StreamInv, SessionsInv, Assembles
  <1>7. Published[e] = 0
    BY <1>6, PublishedIs DEF StreamInv
  <1>8. InOrder(w, Published[w.session])
    <2>1. InOrder(NewViewer, 0)
      BY NewViewerIs
    <2>2. Ahead(w) = Ahead(NewViewer)
      BY <1>4, NewViewerIs DEF Ahead
    <2> QED BY <1>4, <1>7, <2>1, <2>2, NewViewerIs DEF InOrder
  <1>9. \A u \in Viewers \ {v} : viewer[u].pc = "attach" /\ viewer[u].last = 0 =>
                ~ session'[viewer[u].session].started /\ w.session # viewer[u].session
    <2>1. \A u \in Viewers \ {v} : viewer[u].pc = "attach" /\ viewer[u].last = 0 => ~ session'[viewer[u].session].started
      BY <1>1, OthersFresh
    <2> QED BY <1>4, <1>5, <2>1
  <1>10. \A x \in Sessions : session[x].made # 0 => session'[x].made # 0
    BY <1>1
  <1>11. ~ session'[w.session].started /\ session'[w.session].made # 0 /\ w.session # None
    BY <1>1, <1>4, <1>6
  <1>12. session' \in [Sessions -> Session] /\ Quiet
    BY <1>1 DEF SessionsKept, Quiet
  <1>13. \A u \in Viewers \ {v} : viewer[u].session # w.session
    BY <1>4, <1>5
  <1>14. viewer' \in [Viewers -> Viewer] /\ ViewersInv'
    BY <1>2, <1>3, <1>8, <1>9, <1>10, <1>11, <1>12, <1>13, OneViewer
  <1> QED BY <1>1, <1>14 DEF StreamInv, StreamTypes, SessionsInv, SessionsKept

\* A viewer that is not idle follows a session.
LEMMA FollowsOne ==
    ASSUME StreamInv, NEW v \in Viewers, viewer[v].pc # "idle" \/ viewer[v].last > 0
    PROVE  viewer[v].session \in Sessions /\ viewer[v].session # None /\ session[viewer[v].session].made # 0
  <1>1. viewer[v].last > 0 => viewer[v].last # 0
    BY ViewerTypes DEF StreamInv
  <1> QED BY <1>1, ViewerTypes DEF StreamInv, ViewersInv

LEMMA CalmKept == ASSUME StreamInv, AllCalm PROVE SessionsKept /\ SameLogs /\ Quiet /\ session' \in [Sessions -> Session]
  BY CalmSessions DEF StreamInv, SessionsKept, SameLogs, Quiet

\* One viewer moves within its session, while the sessions stay as they are.
LEMMA MovesWithin ==
    ASSUME StreamInv, AllCalm, registered' \subseteq Sessions, NEW v \in Viewers, NEW w \in Viewer,
           viewer' = [viewer EXCEPT ![v] = w], w.session = viewer[v].session, w.session # None,
           w.pc # "attach" \/ w.last # 0,
           InOrder(w, Published[w.session])
    PROVE  StreamInv'
  <1>1. SessionsKept /\ SameLogs /\ Quiet /\ session' \in [Sessions -> Session]
    BY CalmKept
  <1>2. \A x \in Sessions : session'[x].started = session[x].started /\ session'[x].made = session[x].made
    BY <1>1 DEF SameLogs
  <1>3. \A u \in Viewers \ {v} : viewer[u].pc = "attach" /\ viewer[u].last = 0 =>
                ~ session'[viewer[u].session].started /\ w.session # viewer[u].session
    BY <1>2, OthersFresh
  <1>4. w.session \in Sessions /\ session'[w.session].made # 0
    BY <1>2, ViewerTypes DEF StreamInv, ViewersInv
  <1>5. viewer' \in [Viewers -> Viewer] /\ ViewersInv'
    BY <1>1, <1>2, <1>3, <1>4, OneViewer
  <1> QED BY <1>1, <1>5 DEF StreamInv, StreamTypes, SessionsInv, SessionsKept

LEMMA StartsOverStep ==
    ASSUME StreamInv, AllCalm, registered' \subseteq Sessions, NEW v \in Viewers,
           viewer' = [viewer EXCEPT ![v] = NewViewer]
    PROVE  StreamInv'
  <1>1. SessionsKept /\ SameLogs /\ session' \in [Sessions -> Session]
    BY CalmKept
  <1> QED BY <1>1, StartsOver DEF StreamInv, StreamTypes, SessionsInv, SessionsKept

LEMMA AttachNewStep == ASSUME StreamInv, NEW v \in Viewers, AttachNew(v) PROVE StreamInv'
  <1> DEFINE e == viewer[v].session
             w == [viewer[v] EXCEPT !.pc = "stream"]
  <1>1. viewer[v].pc = "attach" /\ viewer[v].last = 0 /\ registered' = registered
    BY DEF AttachNew
  <1>2. e \in Sessions /\ e # None /\ session[e].made # 0 /\ viewer[v] \in Viewer
    BY <1>1, FollowsOne, ViewerTypes DEF StreamInv
  <1>3. CASE viewer' = [viewer EXCEPT ![v] = NewViewer] /\ session' = session
    BY <1>1, <1>3, UnchangedCalm, StartsOverStep DEF StreamInv, StreamTypes
  <1>4. CASE viewer' = [viewer EXCEPT ![v] = w] /\ session' = [session EXCEPT ![e].started = TRUE]
    <2>1. /\ SessionsKept
          /\ \A x \in Sessions : session'[x].log = session[x].log /\ session'[x].made = session[x].made
          /\ \A x \in Sessions \ {e} : session'[x].started = session[x].started
      BY <1>2, <1>4, StartKeeps DEF StreamInv
    <2>2. w \in Viewer
      BY <1>2 DEF Viewer
    <2>3. /\ w.pc = "stream" /\ w.session = e /\ w.last = viewer[v].last /\ w.replay = viewer[v].replay
          /\ w.queue = viewer[v].queue
      BY <1>2 DEF Viewer
    <2> HIDE DEF w
    <2>4. ~ session[e].started /\ session[e].log = <<>> /\ \A u \in Viewers \ {v} : viewer[u].session # e
      BY <1>1, <1>2 DEF StreamInv, ViewersInv, Fresh, SessionsInv, Assembles
    <2>5. Published[e] = 0
      BY <1>2, <2>4, PublishedIs DEF StreamInv
    <2>6. viewer[v].queue = <<>> /\ viewer[v].replay = <<>> /\ Ahead(w) = 0
      BY <1>1, <2>3 DEF StreamInv, ViewersInv, InOrder, Ahead
    <2>7. \A o \in BOOLEAN : Lines(<<>>, 0, 0, o)
      BY LinesTrivially
    <2>8. InOrder(w, Published[w.session])
      <3>1. Lines(w.queue, Ahead(w), 0, w.pc = "stream" /\ ~ w.closed)
        BY <2>3, <2>6, <2>7
      <3>2. \A i \in 1..Len(w.replay) : w.replay[i] = w.last + i
        BY <2>3, <2>6
      <3> QED BY <2>3, <2>5, <2>6, <3>1, <3>2 DEF InOrder
    <2>9. ASSUME NEW u \in Viewers \ {v}, viewer[u].pc = "attach", viewer[u].last = 0
          PROVE  ~ session'[viewer[u].session].started /\ w.session # viewer[u].session
      <3>1. viewer[u].session \in Sessions /\ viewer[u].session # e
        BY <2>4, <2>9, FollowsOne
      <3>2. ~ session[viewer[u].session].started
        BY <2>9 DEF StreamInv, ViewersInv, Fresh
      <3> QED BY <2>1, <2>3, <3>1, <3>2
    <2>10. session' \in [Sessions -> Session] /\ Quiet
      BY <2>1 DEF SessionsKept, Quiet
    <2>11. \A u \in Viewers \ {v} : viewer[u].pc = "attach" /\ viewer[u].last = 0 =>
                ~ session'[viewer[u].session].started /\ w.session # viewer[u].session
      BY <2>9
    <2>12. w.session # None /\ session'[w.session].made # 0 /\ w.pc # "attach"
      BY <1>2, <2>1, <2>3
    <2>13. \A x \in Sessions : session[x].made # 0 => session'[x].made # 0
      BY <2>1
    <2>14. viewer' \in [Viewers -> Viewer] /\ ViewersInv'
      BY <1>4, <2>2, <2>8, <2>10, <2>11, <2>12, <2>13, OneViewer
    <2> QED BY <1>1, <2>1, <2>14 DEF StreamInv, StreamTypes, SessionsInv, SessionsKept
  <1> QED BY <1>3, <1>4 DEF AttachNew

LEMMA ResumeStep == ASSUME StreamInv, NEW v \in Viewers, Resume(v) PROVE StreamInv'
  <1> DEFINE c == viewer[v].session \notin registered
             w == [viewer[v] EXCEPT !.pc = "attach", !.slot = TRUE, !.closed = c]
  <1>1. /\ viewer[v].pc = "idle" /\ viewer[v].last > 0 /\ registered' = registered /\ session' = session
        /\ viewer' = [viewer EXCEPT ![v] = w]
    BY ViewerTypes DEF Resume, StreamInv, StreamTypes, Viewer
  <1>2. viewer[v].session \in Sessions /\ viewer[v].session # None /\ viewer[v] \in Viewer /\ viewer[v].last \in Nat
    BY <1>1, FollowsOne, ViewerTypes DEF StreamInv
  <1>3. c \in BOOLEAN
    OBVIOUS
  <1> HIDE DEF c
  <1>4. w \in Viewer
    BY <1>2, <1>3 DEF Viewer
  <1>5. /\ w.pc = "attach" /\ w.session = viewer[v].session /\ w.last = viewer[v].last
        /\ w.replay = viewer[v].replay /\ w.queue = viewer[v].queue
    BY <1>2 DEF Viewer
  <1> HIDE DEF w
  <1>6. InOrder(viewer[v], Published[viewer[v].session])
    BY DEF StreamInv, ViewersInv
  <1>7. InOrder(w, Published[w.session])
    <2>1. Ahead(w) = Ahead(viewer[v])
      BY <1>5 DEF Ahead
    <2>2. viewer[v].pc # "stream" /\ w.pc # "stream"
      BY <1>1, <1>5
    <2> QED BY <1>5, <1>6, <2>1, <2>2 DEF InOrder
  <1>8. w.last # 0
    BY <1>1, <1>2, <1>5
  <1>9. AllCalm /\ registered' \subseteq Sessions
    BY <1>1, UnchangedCalm DEF StreamInv, StreamTypes
  <1> QED BY <1>1, <1>2, <1>4, <1>5, <1>7, <1>8, <1>9, MovesWithin

LEMMA AttachResumedStep == ASSUME StreamInv, NEW v \in Viewers, AttachResumed(v) PROVE StreamInv'
  <1> DEFINE e == viewer[v].session
             n == Len(session[e].log)
             replay == [i \in 1..(n - viewer[v].last) |-> viewer[v].last + i]
             queue == IF session[e].terminal THEN <<Reset>> ELSE <<>>
             w == Attached(v, e)
  <1>1. viewer[v].pc = "attach" /\ viewer[v].last > 0 /\ registered' = registered
    BY DEF AttachResumed
  <1>2. /\ e \in Sessions /\ e # None /\ viewer[v] \in Viewer /\ viewer[v].last \in Nat
        /\ n \in Nat /\ Published[e] = n /\ session[e].terminal \in BOOLEAN
    BY <1>1, FollowsOne, ViewerTypes, PublishedIs DEF StreamInv, StreamTypes, Session
  <1>3. registered' \subseteq Sessions
    BY <1>1 DEF StreamInv, StreamTypes
  <1>4. CASE viewer' = [viewer EXCEPT ![v] = NewViewer] /\ session' = session
    BY <1>3, <1>4, UnchangedCalm, StartsOverStep DEF StreamInv
  <1>5. CASE /\ viewer' = [viewer EXCEPT ![v] = w]
             /\ \E stopped \in BOOLEAN : session' = [session EXCEPT ![e].timer = @ /\ ~ stopped]
    <2>1. AllCalm
      <3>1. PICK stopped \in BOOLEAN : session' = [session EXCEPT ![e].timer = @ /\ ~ stopped]
        BY <1>5
      <3> DEFINE b == session[e].timer /\ ~ stopped
      <3>2. b \in BOOLEAN /\ session' = [session EXCEPT ![e].timer = b]
        BY <3>1
      <3> HIDE DEF b
      <3> QED BY <1>2, <3>2, TimerCalm DEF StreamInv
    <2>2. viewer[v].last <= n
      <3>1. Ahead(viewer[v]) <= n /\ viewer[v].replay = <<>>
        BY <1>1, <1>2 DEF StreamInv, ViewersInv, InOrder
      <3> QED BY <1>2, <3>1 DEF Ahead
    <2>3. n - viewer[v].last \in Nat
      BY <1>2, <2>2
    <2>4. /\ replay \in Seq(Nat) /\ Len(replay) = n - viewer[v].last
          /\ \A i \in 1..Len(replay) : replay[i] = viewer[v].last + i
      <3>1. \A i \in 1..(n - viewer[v].last) : viewer[v].last + i \in Nat
        BY <1>2, <2>3
      <3>2. replay \in [1..(n - viewer[v].last) -> Nat]
        BY <3>1
      <3> QED BY <2>3, <3>2
    <2>5. queue \in Seq(Entry)
      BY Unnumbered
    <2>6. w = [viewer[v] EXCEPT !.pc = "stream", !.queue = queue, !.closed = session[e].terminal, !.replay = replay]
      BY DEF Attached
    <2>7. (session[e].terminal => Lines(queue, n, n, FALSE)) /\ (~ session[e].terminal => Lines(queue, n, n, TRUE))
      BY <1>2, Unnumbered, LinesTrivially
    <2> HIDE DEF e, n, replay, queue, w
    <2>8. w \in Viewer
      BY <1>2, <2>4, <2>5, <2>6 DEF Viewer
    <2>9. /\ w.pc = "stream" /\ w.session = viewer[v].session /\ w.last = viewer[v].last
          /\ w.replay = replay /\ w.queue = queue
      BY <1>2, <2>6 DEF Viewer
    <2>10. w.closed = session[e].terminal
      BY <1>2, <2>6, Zenon DEF Viewer
    <2>11. Ahead(w) = n
      BY <1>2, <2>4, <2>9 DEF Ahead
    <2>12. Lines(w.queue, Ahead(w), n, w.pc = "stream" /\ ~ w.closed)
      <3>1. CASE session[e].terminal
        BY <2>7, <2>9, <2>10, <2>11, <3>1
      <3>2. CASE ~ session[e].terminal
        BY <2>7, <2>9, <2>10, <2>11, <3>2
      <3> QED BY <3>1, <3>2
    <2>13. InOrder(w, Published[w.session])
      <3>1. Published[w.session] = n
        BY <1>2, <2>9 DEF e
      <3>2. \A i \in 1..Len(w.replay) : w.replay[i] = w.last + i
        BY <2>4, <2>9
      <3> QED BY <1>2, <2>9, <2>11, <2>12, <3>1, <3>2 DEF InOrder
    <2>14. w.session # None /\ w.pc # "attach"
      BY <1>2, <2>9 DEF e
    <2> QED BY <1>3, <1>5, <2>1, <2>8, <2>9, <2>13, <2>14, MovesWithin
  <1> QED BY <1>4, <1>5 DEF AttachResumed

\* The next event is written to the connection: it is the one after the last.
LEMMA SendIs ==
    ASSUME StreamInv, NEW v \in Viewers, Send(v)
    PROVE  \E w \in Viewer :
              /\ viewer' = [viewer EXCEPT ![v] = w] /\ w.session = viewer[v].session /\ w.pc = "stream"
              /\ w.last = viewer[v].last \/ (w.last = viewer[v].last + 1 /\ w.last <= Published[w.session])
              /\ InOrder(w, Published[w.session])
  <1> DEFINE u == viewer[v]
             b == Published[u.session]
             rest == [u EXCEPT !.last = Head(u.replay), !.replay = Tail(u.replay)]
             x == Head(u.queue)
             next == [u EXCEPT !.queue = Tail(u.queue), !.last = IF x.id = 0 THEN u.last ELSE x.id]
  <1>1. /\ u \in Viewer /\ u.session \in Sessions \cup {None} /\ u.last \in Nat /\ u.replay \in Seq(Nat)
        /\ u.queue \in Seq(Entry) /\ u.closed \in BOOLEAN /\ Len(u.replay) \in Nat /\ Ahead(u) \in Nat
    BY ViewerTypes DEF StreamInv
  <1>2. b \in Nat /\ InOrder(u, b) /\ u.pc = "stream"
    BY <1>1, PublishedIs DEF StreamInv, ViewersInv, Send
  <1>3. CASE u.replay # <<>> /\ viewer' = [viewer EXCEPT ![v] = rest]
    <2>1. /\ Head(u.replay) = u.replay[1] /\ Len(Tail(u.replay)) = Len(u.replay) - 1 /\ Len(u.replay) > 0
          /\ Tail(u.replay) \in Seq(Nat) /\ \A i \in 1..Len(Tail(u.replay)) : Tail(u.replay)[i] = u.replay[i + 1]
      BY <1>1, <1>3, HeadTailProperties, EmptySeq
    <2>2. Head(u.replay) = u.last + 1
      BY <1>1, <1>2, <2>1 DEF InOrder
    <2>3. Head(u.replay) \in Nat
      BY <1>1, <2>2
    <2>4. rest \in Viewer
      BY <1>1, <2>1, <2>3, Zenon DEF Viewer
    <2>5. /\ rest.last = u.last + 1 /\ rest.replay = Tail(u.replay) /\ rest.pc = u.pc /\ rest.session = u.session
          /\ rest.queue = u.queue
      BY <1>1, <2>2 DEF Viewer
    <2>6. rest.closed = u.closed
      BY <1>1, Zenon DEF Viewer
    <2> HIDE DEF rest
    <2>7. Ahead(rest) = Ahead(u)
      BY <1>1, <2>1, <2>5, SMTT(30) DEF Ahead
    <2>8. \A i \in 1..Len(rest.replay) : rest.replay[i] = rest.last + i
      <3> SUFFICES ASSUME NEW i \in 1..Len(Tail(u.replay)) PROVE Tail(u.replay)[i] = (u.last + 1) + i
        BY <2>5
      <3>1. i + 1 \in 1..Len(u.replay) /\ Tail(u.replay)[i] = u.replay[i + 1]
        BY <1>1, <2>1
      <3>2. u.replay[i + 1] = u.last + (i + 1)
        BY <1>2, <3>1 DEF InOrder
      <3> QED BY <1>1, <3>1, <3>2
    <2>9. InOrder(rest, b)
      BY <1>2, <2>5, <2>6, <2>7, <2>8 DEF InOrder
    <2>10. u.last + 1 <= b
      <3>1. Ahead(u) <= b
        BY <1>2 DEF InOrder
      <3> QED BY <1>1, <1>2, <2>1, <3>1 DEF Ahead
    <2> QED BY <1>2, <1>3, <2>4, <2>5, <2>9, <2>10
  <1>4. CASE u.replay = <<>> /\ u.queue # <<>> /\ viewer' = [viewer EXCEPT ![v] = next]
    <2>1. x \in Entry /\ Tail(u.queue) \in Seq(Entry)
      BY <1>1, <1>4, HeadTailProperties
    <2>2. \A y \in Entry : y.id \in Nat
      BY DEF Entry
    <2>3. x \in Entry /\ x.id \in Nat /\ Tail(u.queue) \in Seq(Entry)
      BY <2>1, <2>2
    <2>4. Ahead(u) = u.last
      BY <1>1, <1>4 DEF Ahead
    <2> DEFINE o == u.pc = "stream" /\ ~ u.closed
    <2>5. Lines(u.queue, u.last, b, o) /\ u.last <= b /\ o \in BOOLEAN
      BY <1>2, <2>4 DEF InOrder
    <2>6. o = (u.pc = "stream" /\ ~ u.closed)
      OBVIOUS
    <2> HIDE DEF o
    <2>7. /\ x.id = 0 => Lines(Tail(u.queue), u.last, b, o)
          /\ x.id # 0 => /\ x.id = u.last + 1 /\ u.last + 1 <= b
                         /\ Lines(Tail(u.queue), u.last + 1, b, o)
      BY <1>1, <1>2, <1>4, <2>5, LinesTaken
    <2> DEFINE l == IF x.id = 0 THEN u.last ELSE x.id
    <2>8. /\ l \in Nat /\ l <= b /\ (l = u.last \/ l = u.last + 1)
          /\ Lines(Tail(u.queue), l, b, o)
      BY <1>1, <2>3, <2>5, <2>7
    <2>9. next = [u EXCEPT !.queue = Tail(u.queue), !.last = l]
      OBVIOUS
    <2> HIDE DEF next, l, x
    <2>10. next \in Viewer
      BY <1>1, <2>3, <2>8, <2>9 DEF Viewer
    <2>11. /\ next.last = l /\ next.replay = u.replay /\ next.pc = u.pc /\ next.session = u.session
          /\ next.queue = Tail(u.queue)
      BY <1>1, <2>9 DEF Viewer
    <2>12. next.closed = u.closed
      BY <1>1, <2>9, Zenon DEF Viewer
    <2>13. Ahead(next) = l
      BY <1>4, <2>8, <2>11 DEF Ahead
    <2>14. InOrder(next, b)
      <3>1. \A i \in 1..Len(next.replay) : next.replay[i] = next.last + i
        BY <1>4, <2>11
      <3>2. Lines(next.queue, Ahead(next), b, next.pc = "stream" /\ ~ next.closed)
        BY <2>8, <2>11, <2>12, <2>13, <2>6
      <3> QED BY <1>2, <2>8, <2>11, <2>13, <3>1, <3>2 DEF InOrder
    <2> QED BY <1>2, <1>4, <2>8, <2>10, <2>11, <2>14
  <1>5. \/ u.replay # <<>> /\ viewer' = [viewer EXCEPT ![v] = rest]
        \/ u.replay = <<>> /\ u.queue # <<>> /\ viewer' = [viewer EXCEPT ![v] = next]
    BY ViewerTypes DEF Send, StreamInv, StreamTypes, Viewer
  <1> QED BY <1>3, <1>4, <1>5

LEMMA SendStep == ASSUME StreamInv, NEW v \in Viewers, Send(v) PROVE StreamInv'
  <1>1. session' = session /\ registered' = registered /\ viewer[v].pc = "stream"
    BY DEF Send
  <1>2. PICK w \in Viewer : /\ viewer' = [viewer EXCEPT ![v] = w] /\ w.session = viewer[v].session /\ w.pc = "stream"
                            /\ InOrder(w, Published[w.session])
    BY SendIs
  <1>3. viewer[v].session # None
    BY <1>1, FollowsOne
  <1>4. AllCalm /\ registered' \subseteq Sessions
    BY <1>1, UnchangedCalm DEF StreamInv, StreamTypes
  <1> QED BY <1>2, <1>3, <1>4, MovesWithin

LEMMA SendTerminalStep == ASSUME StreamInv, NEW v \in Viewers, SendTerminal(v) PROVE StreamInv' /\ AllCalm
  <1>1. /\ viewer[v].pc = "stream" /\ viewer' = [viewer EXCEPT ![v] = NewViewer] /\ registered' = registered
        /\ session' = Detached(viewer[v].session, viewer')
    BY DEF SendTerminal
  <1>2. viewer[v].session \in Sessions
    BY <1>1, FollowsOne
  <1>3. AllCalm /\ registered' \subseteq Sessions
    BY <1>1, <1>2, DetachedCalm DEF StreamInv, StreamTypes
  <1> QED BY <1>1, <1>3, StartsOverStep

LEMMA DisconnectStep ==
    ASSUME StreamInv, NEW v \in Viewers, Disconnect(v)
    PROVE  /\ StreamInv' /\ AllCalm
           /\ \/ viewer' = [viewer EXCEPT ![v] = NewViewer]
              \/ \E w \in Viewer : /\ viewer' = [viewer EXCEPT ![v] = w]
                                   /\ w.session = viewer[v].session /\ w.last = viewer[v].last
  <1> DEFINE u == viewer[v]
             w == [NewViewer EXCEPT !.session = u.session, !.last = u.last]
  <1>1. /\ u.pc = "stream" /\ registered' = registered /\ session' = Detached(u.session, viewer')
        /\ viewer' = [viewer EXCEPT ![v] = NewViewer] \/ (u.last # 0 /\ viewer' = [viewer EXCEPT ![v] = w])
    BY DEF Disconnect
  <1>2. u.session \in Sessions /\ u.session # None
    BY <1>1, FollowsOne
  <1>3. AllCalm /\ registered' \subseteq Sessions
    BY <1>1, <1>2, DetachedCalm DEF StreamInv, StreamTypes
  <1>4. CASE viewer' = [viewer EXCEPT ![v] = NewViewer]
    BY <1>3, <1>4, StartsOverStep
  <1>5. CASE u.last # 0 /\ viewer' = [viewer EXCEPT ![v] = w]
    <2>1. /\ u.last \in Nat /\ Len(u.replay) \in Nat /\ Published[u.session] \in Nat
          /\ Ahead(u) <= Published[u.session]
      BY <1>2, ViewerTypes, PublishedIs DEF StreamInv, ViewersInv, InOrder
    <2>2. u.last <= Published[u.session]
      BY <2>1 DEF Ahead
    <2> HIDE DEF u
    <2>3. w \in Viewer
      BY <1>2, <2>1, NewViewerIs DEF Viewer
    <2>4. w.pc = "idle" /\ w.session = u.session /\ w.last = u.last /\ w.replay = <<>> /\ w.queue = <<>>
      BY NewViewerIs DEF NewViewer
    <2> HIDE DEF w
    <2>5. Ahead(w) = u.last
      BY <2>1, <2>4 DEF Ahead
    <2>6. Lines(<<>>, u.last, Published[u.session], FALSE)
      BY <2>1, LinesTrivially
    <2>7. InOrder(w, Published[w.session])
      <3>1. w.pc # "stream" /\ Len(w.replay) = 0
        BY <2>4
      <3>2. Lines(w.queue, Ahead(w), Published[w.session], w.pc = "stream" /\ ~ w.closed)
        BY <2>4, <2>5, <2>6, <3>1
      <3> QED BY <2>2, <2>4, <2>5, <3>1, <3>2 DEF InOrder
    <2>8. w.session # None /\ w.pc # "attach"
      BY <1>2, <2>4
    <2>9. StreamInv'
      BY <1>3, <1>5, <2>3, <2>4, <2>7, <2>8, MovesWithin DEF u
    <2> QED BY <1>3, <1>5, <2>3, <2>4, <2>9 DEF u
  <1> QED BY <1>1, <1>4, <1>5

-----------------------------------------------------------------------------
(* The steps of sessions *)

LEMMA QuietSessions ==
    ASSUME StreamInv, SessionsKept, SameLogs, AllPlaced, registered' \subseteq Sessions
    PROVE  StreamInv'
  <1>1. ViewersInv'
    BY PlacedKeeps DEF SameLogs
  <1> QED BY <1>1 DEF StreamInv, StreamTypes, SessionsInv, SessionsKept, AllPlaced

LEMMA QuietKept == ASSUME SessionsKept, SameLogs PROVE Quiet /\ session' \in [Sessions -> Session]
  BY DEF SessionsKept, SameLogs, Quiet

\* Steps that publish nothing and leave every viewer in its place.
QuietStep == SessionsKept /\ SameLogs /\ AllPlaced

LEMMA TakeProgressQuiet ==
    ASSUME StreamInv, NEW e \in Sessions, NEW s \in Sources, TakeProgress(e, s)
    PROVE  QuietStep /\ registered' = registered
  <1>1. session' = session /\ registered' = registered /\ viewer' = ToClients(e, Progress)
    BY DEF TakeProgress
  <1>2. SessionsKept /\ SameLogs /\ Quiet /\ session' \in [Sessions -> Session]
    BY <1>1, UnchangedCalm, CalmKept DEF StreamInv
  <1>3. AllPlaced
    BY <1>1, <1>2, ToldAll
  <1> QED BY <1>1, <1>2, <1>3 DEF QuietStep

LEMMA TerminateQuiet ==
    ASSUME StreamInv, NEW e \in Sessions, Terminate(e)
    PROVE  QuietStep
  <1>1. SessionsKept /\ SameLogs /\ Quiet /\ session' \in [Sessions -> Session]
    BY TerminateCalm, CalmKept DEF StreamInv
  <1>2. AllPlaced
    BY <1>1, TerminatePlaced
  <1> QED BY <1>1, <1>2 DEF QuietStep

LEMMA TakeSnapshotQuiet ==
    ASSUME StreamInv, NEW e \in Sessions, NEW s \in Sources, TakeSnapshot(e, s)
    PROVE  QuietStep /\ registered' = registered
  <1>0. registered' = registered
    BY DEF TakeSnapshot
  <1>1. CASE s \in Taken(e, s).final
    <2>1. Terminate(e)
      BY <1>1 DEF TakeSnapshot
    <2> QED BY <1>0, <2>1, TerminateQuiet
  <1>2. CASE ~ (s \in Taken(e, s).final)
    <2>1. viewer' = ToClients(e, Progress)
      BY <1>2 DEF TakeSnapshot
    <2>2. SessionsKept /\ SameLogs
      BY <1>2, TakeSnapshotKeeps DEF StreamInv
    <2>3. AllPlaced
      BY <2>1, <2>2, QuietKept, ToldAll
    <2> QED BY <1>0, <2>2, <2>3 DEF QuietStep
  <1> QED BY <1>1, <1>2

LEMMA TakeChangeQuiet ==
    ASSUME StreamInv, NEW e \in Sessions, NEW s \in Sources, TakeChange(e, s)
    PROVE  QuietStep /\ registered' = registered
  <1>1. registered' = registered /\ (viewer' = viewer \/ Terminate(e))
    BY DEF TakeChange
  <1>2. SessionsKept /\ SameLogs
    BY TakeChangeKeeps DEF StreamInv
  <1>3. CASE Terminate(e)
    BY <1>1, <1>3, TerminateQuiet
  <1>4. CASE viewer' = viewer
    BY <1>1, <1>2, <1>4, QuietKept, UnchangedPlaced DEF QuietStep
  <1> QED BY <1>1, <1>3, <1>4

LEMMA ExpireQuiet ==
    ASSUME StreamInv, NEW e \in Sessions, Expire(e)
    PROVE  QuietStep /\ registered' \subseteq Sessions
  <1>1. SessionsKept /\ SameLogs /\ Quiet /\ session' \in [Sessions -> Session]
    BY ExpireCalm, CalmKept DEF StreamInv
  <1>2. viewer' = viewer /\ registered' \subseteq Sessions
    BY DEF Expire, StreamInv, StreamTypes
  <1> QED BY <1>1, <1>2, UnchangedPlaced DEF QuietStep

LEMMA PublishStep == ASSUME StreamInv, NEW e \in Sessions, PublishNext(e) PROVE StreamInv'
  <1>1. /\ SessionsKept /\ session'[e].started = session[e].started /\ session'[e].made = session[e].made
        /\ \A x \in Sessions \ {e} : session'[x] = session[x]
    BY PublishKeeps DEF StreamInv
  <1>2. AllPlaced /\ registered' = registered
    BY PublishPlaced DEF PublishNext
  <1>3. \A x \in Sessions : session'[x].started = session[x].started /\ session'[x].made = session[x].made
    BY <1>1, Zenon
  <1>4. ViewersInv'
    BY <1>1, <1>2, <1>3, PlacedKeeps
  <1> QED BY <1>1, <1>2, <1>4 DEF StreamInv, StreamTypes, SessionsInv, SessionsKept, AllPlaced

-----------------------------------------------------------------------------
(* The theorems *)

LEMMA StreamsBegin == ASSUME Init PROVE StreamInv
  <1>1. <<>> \in Seq(Item) /\ Len(<<>>) = 0
    OBVIOUS
  <1>2. [s \in Sources |-> 0] \in [Sources -> Nat] /\ {} \in SUBSET Sources
    OBVIOUS
  <1>3. NewSession \in Session
    BY <1>1, <1>2 DEF NewSession, Session
  <1>4. /\ NewSession.made = 0 /\ NewSession.log = <<>> /\ NewSession.out = <<>> /\ NewSession.buffered = <<>>
        /\ NewSession.taken = [s \in Sources |-> 0] /\ NewSession.final = {}
        /\ ~ NewSession.started /\ ~ NewSession.complete
    BY DEF NewSession
  <1>5. \A s \in Sources : Tells(<<>>, s, 2, 0)
    BY DEF Tells
  <1>6. Assembles(NewSession)
    BY <1>4, <1>5 DEF Assembles
  <1>7. StreamTypes /\ SessionsInv
    BY <1>3, <1>6, NewViewerIs DEF Init, StreamTypes, SessionsInv
  <1>8. ViewersInv
    <2>1. \A v \in Viewers : viewer[v] = NewViewer
      BY DEF Init
    <2>2. Published[None] = 0
      BY <1>7, PublishedIs
    <2> QED BY <2>1, <2>2, NewViewerIs DEF ViewersInv, Fresh
  <1> QED BY <1>7, <1>8 DEF StreamInv

LEMMA StreamsStep == ASSUME StreamInv, [Next]_vars PROVE StreamInv'
  <1>0. registered \subseteq Sessions
    BY DEF StreamInv, StreamTypes
  <1>1. ASSUME NEW e \in Sessions, PublishNext(e) PROVE StreamInv'
    BY <1>1, PublishStep
  <1>2. ASSUME NEW e \in Sessions, SessionFails(e) PROVE StreamInv'
    <2>1. Terminate(e) /\ registered' = registered
      BY <1>2 DEF SessionFails
    <2> QED BY <1>0, <2>1, TerminateQuiet, QuietSessions DEF QuietStep
  <1>3. ASSUME NEW e \in Sessions, Expire(e) PROVE StreamInv'
    BY <1>3, ExpireQuiet, QuietSessions DEF QuietStep
  <1>4. ASSUME NEW e \in Sessions, NEW s \in Sources, TakeProgress(e, s) \/ TakeSnapshot(e, s) \/ TakeChange(e, s)
        PROVE  StreamInv'
    <2>1. QuietStep /\ registered' = registered
      BY <1>4, TakeProgressQuiet, TakeSnapshotQuiet, TakeChangeQuiet
    <2> QED BY <1>0, <2>1, QuietSessions DEF QuietStep
  <1>5. ASSUME NEW v \in Viewers,
               \/ AttachNew(v) \/ Resume(v) \/ AttachResumed(v) \/ Send(v) \/ SendTerminal(v) \/ Disconnect(v)
               \/ \E e \in Sessions : Open(v, e)
        PROVE  StreamInv'
    BY <1>5, AttachNewStep, ResumeStep, AttachResumedStep, SendStep, SendTerminalStep, DisconnectStep, OpenStep
  <1>6. ASSUME UNCHANGED vars PROVE StreamInv'
    <2>1. AllCalm
      BY <1>6, UnchangedCalm DEF vars, StreamInv
    <2>2. SessionsKept /\ SameLogs /\ Quiet /\ session' \in [Sessions -> Session]
      BY <2>1, CalmKept
    <2>3. AllPlaced /\ registered' \subseteq Sessions
      BY <1>0, <1>6, <2>2, UnchangedPlaced DEF vars
    <2> QED BY <2>2, <2>3, QuietSessions
  <1> QED BY <1>1, <1>2, <1>3, <1>4, <1>5, <1>6 DEF Next

\* The inductive invariant holds: what a viewer received, will be sent again and
\* has queued are the events of its session so far, without a gap, and a session
\* has told or keeps back what it took from its sources (run, publish, attach,
\* push and detach of resources_stream_session.go).
THEOREM StreamsHold == Spec => []StreamInv
  BY StreamsBegin, StreamsStep, PTL DEF Spec

\* For any topic, any sizes of ring, queue and buffer and any number of viewers:
\* nothing is published before every source's snapshot is in, and the log then
\* tells each source's events once, in order, up to the last one taken
\* (resourceTopicSnapshot.buffer, run, publish).
THEOREM StreamsAssembled == Spec => []Assembled
  <1>1. ASSUME StreamInv PROVE Assembled
    <2>1. ASSUME NEW e \in Sessions
          PROVE  /\ ~ session[e].complete => session[e].log \o session[e].out = <<>>
                 /\ session[e].complete /\ ~ session[e].terminal =>
                        \A s \in Sources : Tells(session[e].log \o session[e].out, s, 1, session[e].taken[s])
      <3>1. Assembles(session[e])
        BY <1>1 DEF StreamInv, SessionsInv
      <3>2. <<>> \o <<>> = <<>>
        OBVIOUS
      <3> QED BY <3>1, <3>2 DEF Assembles
    <2> QED BY <2>1 DEF Assembled
  <1> QED BY <1>1, StreamsHold, PTL

-----------------------------------------------------------------------------
(* The refinement of Feed *)

Received == [v \in Viewers |-> viewer[v].last]

LEMMA FeedStays ==
    ASSUME StreamInv, session' \in [Sessions -> Session], Quiet,
           \A v \in Viewers : viewer'[v].session = viewer[v].session /\ viewer'[v].last = viewer[v].last
    PROVE  UNCHANGED TheFeed!feedVars
  <1>1. Published' = Published
    BY PublishedSame DEF StreamInv
  <1>2. Followed' = Followed
    BY DEF Followed
  <1>3. Received' = Received
    BY DEF Received
  <1> QED BY <1>1, <1>2, <1>3 DEF TheFeed!feedVars, Received

\* One viewer moves.
LEMMA FeedMoves ==
    ASSUME StreamInv, session' \in [Sessions -> Session], Quiet, NEW v \in Viewers, NEW w \in Viewer,
           viewer' = [viewer EXCEPT ![v] = w]
    PROVE  /\ w.session = viewer[v].session /\ w.last = viewer[v].last => UNCHANGED TheFeed!feedVars
           /\ w.session = viewer[v].session /\ w.last = viewer[v].last + 1 /\ w.last <= Published[w.session]
                => TheFeed!Receive(v)
           /\ w.last = 0 => TheFeed!StartOver(v, w.session)
  <1>1. Published' = Published
    BY PublishedSame DEF StreamInv
  <1>2. viewer'[v] = w /\ \A u \in Viewers \ {v} : viewer'[u] = viewer[u]
    BY DEF StreamInv, StreamTypes
  <1>3. Followed' = [Followed EXCEPT ![v] = w.session]
    <2>1. Followed' = [u \in Viewers |-> viewer'[u].session]
      BY DEF Followed
    <2>2. [Followed EXCEPT ![v] = w.session] = [u \in Viewers |-> IF u = v THEN w.session ELSE viewer[u].session]
      BY DEF Followed
    <2>3. \A u \in Viewers : viewer'[u].session = IF u = v THEN w.session ELSE viewer[u].session
      BY <1>2
    <2> QED BY <2>1, <2>2, <2>3
  <1>4. Received' = [Received EXCEPT ![v] = w.last]
    <2>1. Received' = [u \in Viewers |-> viewer'[u].last]
      BY DEF Received
    <2>2. [Received EXCEPT ![v] = w.last] = [u \in Viewers |-> IF u = v THEN w.last ELSE viewer[u].last]
      BY DEF Received
    <2>3. \A u \in Viewers : viewer'[u].last = IF u = v THEN w.last ELSE viewer[u].last
      BY <1>2
    <2> QED BY <2>1, <2>2, <2>3
  <1>5. Followed[v] = viewer[v].session /\ Received[v] = viewer[v].last /\ viewer[v].last \in Nat
    BY ViewerTypes DEF Followed, Received, StreamInv
  <1>6. ASSUME w.session = viewer[v].session, w.last = viewer[v].last PROVE UNCHANGED TheFeed!feedVars
    BY <1>2, <1>6, FeedStays
  <1>7. ASSUME w.session = viewer[v].session, w.last = viewer[v].last + 1, w.last <= Published[w.session]
        PROVE  TheFeed!Receive(v)
    <2>1. Published[w.session] \in Nat
      BY <1>7, ViewerTypes, PublishedIs DEF StreamInv
    <2>2. Received[v] < Published[Followed[v]]
      BY <1>5, <1>7, <2>1
    <2>3. Received' = [Received EXCEPT ![v] = Received[v] + 1]
      BY <1>4, <1>5, <1>7
    <2>4. Followed' = Followed
      BY <1>2, <1>7 DEF Followed
    <2> QED BY <1>1, <2>2, <2>3, <2>4 DEF TheFeed!Receive, Received
  <1>8. ASSUME w.last = 0 PROVE TheFeed!StartOver(v, w.session)
    BY <1>1, <1>3, <1>4, <1>8 DEF TheFeed!StartOver, Received
  <1> QED BY <1>6, <1>7, <1>8

LEMMA FeedQuiet == ASSUME StreamInv, QuietStep PROVE UNCHANGED TheFeed!feedVars
  <1>1. Quiet /\ session' \in [Sessions -> Session]
    BY QuietKept DEF QuietStep
  <1>2. \A v \in Viewers : viewer'[v].session = viewer[v].session /\ viewer'[v].last = viewer[v].last
    BY DEF QuietStep, AllPlaced, Placed
  <1> QED BY <1>1, <1>2, FeedStays

LEMMA FeedPublish == ASSUME StreamInv, NEW e \in Sessions, PublishNext(e) PROVE TheFeed!Publish(e)
  <1>1. /\ session' \in [Sessions -> Session] /\ Len(session'[e].log) = Len(session[e].log) + 1
        /\ \A x \in Sessions \ {e} : session'[x] = session[x]
    BY PublishKeeps DEF StreamInv, SessionsKept
  <1>2. \A v \in Viewers : viewer'[v].session = viewer[v].session /\ viewer'[v].last = viewer[v].last
    BY PublishPlaced DEF AllPlaced, Placed
  <1>3. Followed' = Followed
    BY <1>2 DEF Followed
  <1>4. Received' = Received
    BY <1>2 DEF Received
  <1>5. Published' = [Published EXCEPT ![e] = @ + 1]
    <2>1. Published' = [x \in Sessions \cup {None} |-> IF x = None THEN 0 ELSE Len(session'[x].log)]
      BY <1>1, PublishedNext
    <2>2. [Published EXCEPT ![e] = @ + 1] =
             [x \in Sessions \cup {None} |-> IF x = None THEN 0 ELSE IF x = e THEN Len(session[e].log) + 1 ELSE Len(session[x].log)]
      BY DEF Published
    <2>3. \A x \in Sessions : Len(session'[x].log) = IF x = e THEN Len(session[e].log) + 1 ELSE Len(session[x].log)
      BY <1>1
    <2> QED BY <2>1, <2>2, <2>3
  <1> QED BY <1>3, <1>4, <1>5 DEF TheFeed!Publish, Received

\* A viewer starts over in no session or in a new one.
LEMMA FeedStartsOver ==
    ASSUME StreamInv, session' \in [Sessions -> Session], Quiet, NEW v \in Viewers,
           viewer' = [viewer EXCEPT ![v] = NewViewer]
    PROVE  TheFeed!FeedNext
  <1>1. TheFeed!StartOver(v, None)
    BY NewViewerIs, FeedMoves
  <1> QED BY <1>1 DEF TheFeed!FeedNext

LEMMA FeedViewers ==
    ASSUME StreamInv, NEW v \in Viewers,
           \/ AttachNew(v) \/ Resume(v) \/ AttachResumed(v) \/ Send(v) \/ SendTerminal(v) \/ Disconnect(v)
           \/ \E e \in Sessions : Open(v, e)
    PROVE  [TheFeed!FeedNext]_(TheFeed!feedVars)
  <1>0. StreamTypes /\ SessionsInv /\ viewer[v] \in Viewer
    BY ViewerTypes DEF StreamInv
  <1>00. ASSUME session' = session PROVE Quiet /\ session' \in [Sessions -> Session]
    BY <1>00, <1>0 DEF Quiet, StreamTypes
  <1>1. CASE AttachNew(v)
    <2>1. CASE viewer' = [viewer EXCEPT ![v] = NewViewer] /\ session' = session
      BY <1>00, <2>1, FeedStartsOver
    <2>2. CASE /\ viewer' = [viewer EXCEPT ![v].pc = "stream"]
               /\ session' = [session EXCEPT ![viewer[v].session].started = TRUE]
      <3>1. viewer[v].session \in Sessions /\ session[viewer[v].session].made # 0
        BY <1>1, FollowsOne DEF AttachNew
      <3>2. Quiet /\ session' \in [Sessions -> Session]
        BY <1>0, <2>2, <3>1, StartKeeps DEF Quiet, SessionsKept
      <3> DEFINE w == [viewer[v] EXCEPT !.pc = "stream"]
      <3>3. w \in Viewer /\ w.session = viewer[v].session /\ w.last = viewer[v].last /\ viewer' = [viewer EXCEPT ![v] = w]
        BY <1>0, <2>2 DEF Viewer
      <3> HIDE DEF w
      <3> QED BY <3>2, <3>3, FeedMoves
    <2> QED BY <1>1, <2>1, <2>2 DEF AttachNew
  <1>2. CASE Resume(v)
    <2>1. session' = session
      BY <1>2 DEF Resume
    <2>2. \A u \in Viewers : viewer'[u].session = viewer[u].session /\ viewer'[u].last = viewer[u].last
      BY <1>0, <1>2 DEF Resume, StreamTypes, Viewer
    <2> QED BY <1>00, <2>1, <2>2, FeedStays
  <1>3. CASE AttachResumed(v)
    <2>1. CASE viewer' = [viewer EXCEPT ![v] = NewViewer] /\ session' = session
      BY <1>00, <2>1, FeedStartsOver
    <2>2. CASE /\ viewer' = [viewer EXCEPT ![v] = Attached(v, viewer[v].session)]
               /\ \E stopped \in BOOLEAN : session' = [session EXCEPT ![viewer[v].session].timer = @ /\ ~ stopped]
      <3>1. Quiet /\ session' \in [Sessions -> Session]
        <4>1. PICK stopped \in BOOLEAN : session' = [session EXCEPT ![viewer[v].session].timer = @ /\ ~ stopped]
          BY <2>2
        <4>2. viewer[v].session \in Sessions
          BY <1>3, FollowsOne DEF AttachResumed
        <4> DEFINE b == session[viewer[v].session].timer /\ ~ stopped
        <4>3. b \in BOOLEAN /\ session' = [session EXCEPT ![viewer[v].session].timer = b]
          BY <4>1
        <4> HIDE DEF b
        <4> QED BY <1>0, <4>2, <4>3, TimerCalm, CalmKept
      <3>2. \A u \in Viewers : viewer'[u].session = viewer[u].session /\ viewer'[u].last = viewer[u].last
        BY <1>0, <2>2 DEF Attached, StreamTypes, Viewer
      <3> QED BY <3>1, <3>2, FeedStays
    <2> QED BY <1>3, <2>1, <2>2 DEF AttachResumed
  <1>4. CASE Send(v)
    <2>1. session' = session
      BY <1>4 DEF Send
    <2>2. PICK w \in Viewer :
              /\ viewer' = [viewer EXCEPT ![v] = w] /\ w.session = viewer[v].session
              /\ w.last = viewer[v].last \/ (w.last = viewer[v].last + 1 /\ w.last <= Published[w.session])
      BY <1>4, SendIs
    <2>3. UNCHANGED TheFeed!feedVars \/ TheFeed!Receive(v)
      BY <1>00, <2>1, <2>2, FeedMoves
    <2> QED BY <2>3 DEF TheFeed!FeedNext
  <1>5. CASE SendTerminal(v)
    <2>1. Quiet /\ session' \in [Sessions -> Session]
      BY <1>5, SendTerminalStep, CalmKept
    <2> QED BY <1>5, <2>1, FeedStartsOver DEF SendTerminal
  <1>6. CASE Disconnect(v)
    <2>1. Quiet /\ session' \in [Sessions -> Session]
      BY <1>6, DisconnectStep, CalmKept
    <2>2. CASE viewer' = [viewer EXCEPT ![v] = NewViewer]
      BY <2>1, <2>2, FeedStartsOver
    <2>3. CASE \E w \in Viewer : /\ viewer' = [viewer EXCEPT ![v] = w]
                                 /\ w.session = viewer[v].session /\ w.last = viewer[v].last
      BY <2>1, <2>3, FeedMoves
    <2> QED BY <1>6, <2>2, <2>3, DisconnectStep
  <1>7. ASSUME NEW e \in Sessions, Open(v, e) PROVE TheFeed!FeedNext
    <2> DEFINE w == [NewViewer EXCEPT !.pc = "attach", !.session = e, !.slot = TRUE]
    <2>0. SessionsKept /\ \A x \in Sessions : session'[x].log = session[x].log
      BY <1>0, <1>7, OpenKeeps
    <2>1. Quiet /\ session' \in [Sessions -> Session]
      BY <2>0, SMTT(30) DEF Quiet, SessionsKept
    <2>2. viewer' = [viewer EXCEPT ![v] = w]
      BY <1>7 DEF Open
    <2>3. w \in Viewer
      BY NewViewerIs DEF Viewer
    <2>4. w.session = e /\ w.last = 0
      BY NewViewerIs DEF NewViewer
    <2> HIDE DEF w
    <2>5. TheFeed!StartOver(v, e)
      BY <2>1, <2>2, <2>3, <2>4, FeedMoves
    <2> QED BY <2>5 DEF TheFeed!FeedNext
  <1> QED BY <1>1, <1>2, <1>3, <1>4, <1>5, <1>6, <1>7

\* Every stream is a feed: whatever overflows, breaks, is resumed, evicted or
\* expires, a viewer receives the published sequence of its session, each event
\* once and in order, or starts over (push, attach, ReplayEntries, publish).
THEOREM StreamsImplementFeed == Spec => ImplementsFeed
  <1>1. ASSUME StreamInv, [Next]_vars PROVE [TheFeed!FeedNext]_(TheFeed!feedVars)
    <2>1. ASSUME NEW e \in Sessions, PublishNext(e) PROVE TheFeed!FeedNext
      BY <1>1, <2>1, FeedPublish DEF TheFeed!FeedNext
    <2>2. ASSUME NEW e \in Sessions, SessionFails(e) \/ Expire(e) PROVE UNCHANGED TheFeed!feedVars
      <3>1. QuietStep
        BY <1>1, <2>2, TerminateQuiet, ExpireQuiet DEF SessionFails
      <3> QED BY <1>1, <3>1, FeedQuiet
    <2>3. ASSUME NEW e \in Sessions, NEW s \in Sources, TakeProgress(e, s) \/ TakeSnapshot(e, s) \/ TakeChange(e, s)
          PROVE  UNCHANGED TheFeed!feedVars
      <3>1. QuietStep
        BY <1>1, <2>3, TakeProgressQuiet, TakeSnapshotQuiet, TakeChangeQuiet
      <3> QED BY <1>1, <3>1, FeedQuiet
    <2>4. ASSUME UNCHANGED vars PROVE UNCHANGED TheFeed!feedVars
      <3>1. Quiet /\ session' \in [Sessions -> Session]
        BY <1>1, <2>4 DEF vars, StreamInv, StreamTypes, Quiet
      <3> QED BY <1>1, <2>4, <3>1, FeedStays DEF vars
    <2> QED BY <1>1, <2>1, <2>2, <2>3, <2>4, FeedViewers DEF Next
  <1>2. ASSUME Init PROVE TheFeed!FeedInit
    <2>1. Published = [e \in Sessions \cup {None} |-> 0]
      BY <1>2 DEF Init, Published, NewSession
    <2>2. Followed \in [Viewers -> Sessions \cup {None}]
      BY <1>2, NewViewerIs DEF Init, Followed
    <2>3. Received = [v \in Viewers |-> 0]
      BY <1>2, NewViewerIs DEF Init, Received
    <2> QED BY <2>1, <2>2, <2>3 DEF TheFeed!FeedInit, Received
  <1> QED BY <1>1, <1>2, StreamsHold, PTL DEF Spec, ImplementsFeed, TheFeed!FeedSpec
=============================================================================
