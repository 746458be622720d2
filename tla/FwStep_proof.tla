----------------------------- MODULE FwStep_proof ----------------------------
(***************************************************************************)
(* What FwStep's runs check, for every set of networks that fits           *)
(* StepAssumption: any number of steps and channels, joined in any way, of *)
(* any depths, whatever the bodies call and however the steps of an edge   *)
(* are ordered.                                                            *)
(***************************************************************************)
EXTENDS FwStep, SequenceTheorems, TLAPS

------------------------------------------------------------------------------
(* One queue against the values it held when the edge began.  x is the     *)
(* queue, a those values, t how many of them steps have taken.             *)

\* What is left of a comes first, then what was put at this edge.
Shape(a, x, t) ==
  /\ t <= Len(a) /\ Len(a) - t <= Len(x)
  /\ \A i \in 1 .. Len(x) :
       IF i <= Len(a) - t THEN x[i] = [v |-> a[i + t], now |-> FALSE] ELSE x[i].now

LEMMA HeadAndTail ==
  ASSUME NEW x \in Seq(Entry), x # <<>>
  PROVE  /\ <<Head(x)>> \o Tail(x) = x /\ Head(x) \in Entry /\ Head(x) = x[1]
         /\ Tail(x) \in Seq(Entry) /\ Len(Tail(x)) = Len(x) - 1
         /\ \A i \in 1 .. Len(x) - 1 : Tail(x)[i] = x[i + 1]
  OBVIOUS

\* Where the first value is not of this edge and the last one is, the take of the
\* first leaves the last.
LEMMA LastLeft ==
  ASSUME NEW x \in Seq(Entry), x # <<>>, ~Head(x).now, x[Len(x)].now
  PROVE  Tail(x)[Len(Tail(x))] = x[Len(x)]
<1>1. Len(x) \in Nat /\ Len(x) >= 1 /\ Len(x) # 1
  BY HeadAndTail
<1>2. PICK k : k = Len(x) - 1 /\ k \in 1 .. Len(x) - 1 /\ k + 1 = Len(x)
  BY <1>1
<1>3. QED
  BY <1>2, HeadAndTail

LEMMA LastDropped ==
  ASSUME NEW x \in Seq(Entry), NEW e \in Entry
  PROVE  SubSeq(Append(x, e), 1, Len(Append(x, e)) - 1) = x
  OBVIOUS

LEMMA Front ==
  ASSUME NEW S, NEW x \in Seq(S), x # <<>>
  PROVE  /\ Len(x) \in Nat /\ Len(x) >= 1
         /\ SubSeq(x, 1, Len(x) - 1) \in Seq(S)
         /\ Len(SubSeq(x, 1, Len(x) - 1)) = Len(x) - 1
         /\ \A n \in 1 .. Len(x) - 1 : SubSeq(x, 1, Len(x) - 1)[n] = x[n]
<1>1. Len(x) \in Nat /\ Len(x) >= 1
  OBVIOUS
<1>2. PICK k \in Nat : k = Len(x) - 1
  BY <1>1
<1>3. \A n \in 1 .. k : x[n] \in S
  BY <1>1, <1>2
<1>4. k \in Int /\ 1 \in Int
  BY <1>2
<1>5. /\ SubSeq(x, 1, k) \in Seq(S)
      /\ Len(SubSeq(x, 1, k)) = IF 1 <= k THEN k - 1 + 1 ELSE 0
      /\ \A n \in 1 .. k - 1 + 1 : SubSeq(x, 1, k)[n] = x[1 + n - 1]
  BY <1>3, <1>4, SubSeqProperties
<1>6. k - 1 + 1 = k /\ (IF 1 <= k THEN k - 1 + 1 ELSE 0) = k
  BY <1>2
<1>7. \A n \in 1 .. k : SubSeq(x, 1, k)[n] = x[n]
  <2>1. ASSUME NEW n \in 1 .. k PROVE SubSeq(x, 1, k)[n] = x[n]
    <3>1. 1 + n - 1 = n /\ n \in 1 .. k - 1 + 1
      BY <1>2
    <3>2. QED
      BY <3>1, <1>5
  <2>2. QED
    BY <2>1
<1>8. QED
  BY <1>1, <1>2, <1>5, <1>6, <1>7

LEMMA BothEnds ==
  ASSUME NEW x \in Seq(Entry), NEW e \in Entry, NEW f \in Entry
  PROVE  <<e>> \o Append(x, f) = Append(<<e>> \o x, f)
<1>1. /\ <<e>> \in Seq(Entry) /\ <<f>> \in Seq(Entry) /\ <<e>> \o x \in Seq(Entry)
      /\ Append(x, f) = x \o <<f>> /\ Append(<<e>> \o x, f) = (<<e>> \o x) \o <<f>>
  OBVIOUS
<1>2. QED
  BY <1>1, ConcatAssociative

LEMMA StampedEntry ==
  ASSUME NEW v \in Val PROVE stamped(v) \in Entry /\ stamped(v).now
  BY DEF stamped, Entry

\* A take of a value that is not of this edge takes the oldest of a that is left.
LEMMA ShapeTaken ==
  ASSUME NEW a \in Seq(Val), NEW x \in Seq(Entry), NEW t \in Nat,
         Shape(a, x, t), x # <<>>, ~Head(x).now
  PROVE  /\ t + 1 <= Len(a) /\ Head(x).v = a[t + 1]
         /\ Shape(a, Tail(x), t + 1)
<1>1. Head(x) = x[1] /\ Len(x) >= 1 /\ 1 \in 1 .. Len(x)
  BY HeadAndTail
<1>2. 1 <= Len(a) - t /\ t + 1 <= Len(a)
  <2>1. CASE 1 <= Len(a) - t
    BY <2>1
  <2>2. CASE ~(1 <= Len(a) - t)
    BY <1>1, <2>2 DEF Shape
  <2>3. QED
    BY <2>1, <2>2
<1>3. Head(x).v = a[t + 1]
  <2>1. x[1] = [v |-> a[1 + t], now |-> FALSE]
    BY <1>1, <1>2 DEF Shape
  <2>2. 1 + t = t + 1
    OBVIOUS
  <2>3. QED
    BY <1>1, <2>1, <2>2
<1>4. ASSUME NEW i \in 1 .. Len(x) - 1
      PROVE  IF i <= Len(a) - (t + 1) THEN Tail(x)[i] = [v |-> a[i + (t + 1)], now |-> FALSE]
             ELSE Tail(x)[i].now
  <2>1. Tail(x)[i] = x[i + 1] /\ i + 1 \in 1 .. Len(x)
    BY HeadAndTail
  <2>2. (i + 1) + t = i + (t + 1) /\ (i <= Len(a) - (t + 1) <=> i + 1 <= Len(a) - t)
    OBVIOUS
  <2>3. QED
    BY <2>1, <2>2 DEF Shape
<1>5. QED
  BY <1>2, <1>3, <1>4, HeadAndTail DEF Shape

\* A put adds a value of this edge.
LEMMA ShapePut ==
  ASSUME NEW a \in Seq(Val), NEW x \in Seq(Entry), NEW t \in Nat,
         NEW e \in Entry, e.now, Shape(a, x, t)
  PROVE  Shape(a, Append(x, e), t)
<1>1. /\ Len(Append(x, e)) = Len(x) + 1
      /\ \A i \in 1 .. Len(x) : Append(x, e)[i] = x[i]
      /\ Append(x, e)[Len(x) + 1] = e
  BY AppendProperties
<1>2. ASSUME NEW i \in 1 .. Len(x) + 1
      PROVE  IF i <= Len(a) - t THEN Append(x, e)[i] = [v |-> a[i + t], now |-> FALSE]
             ELSE Append(x, e)[i].now
  <2>1. CASE i \in 1 .. Len(x)
    BY <1>1, <2>1 DEF Shape
  <2>2. CASE i = Len(x) + 1
    BY <1>1, <2>2 DEF Shape
  <2>3. QED
    BY <2>1, <2>2
<1>3. QED
  BY <1>1, <1>2 DEF Shape

\* Where a poll finds nothing to take, all of a is taken.
LEMMA ShapeEmpty ==
  ASSUME NEW a \in Seq(Val), NEW x \in Seq(Entry), NEW t \in Nat,
         Shape(a, x, t), x = <<>> \/ Head(x).now
  PROVE  Len(a) = t
<1>0. Len(a) \in Nat /\ Len(x) \in Nat /\ Len(a) >= t
  BY DEF Shape
<1>1. CASE x = <<>>
  BY <1>0, <1>1 DEF Shape
<1>2. CASE x # <<>>
  <2>1. Head(x) = x[1] /\ 1 \in 1 .. Len(x) /\ x[1].now
    BY <1>2
  <2>2. SUFFICES ASSUME 1 <= Len(a) - t PROVE FALSE
    BY <1>0
  <2>3. x[1] = [v |-> a[1 + t], now |-> FALSE]
    BY <2>1, <2>2 DEF Shape
  <2>4. QED
    BY <2>1, <2>3
<1>3. QED
  BY <1>1, <1>2

\* When a new edge begins nothing of it has been put or taken.
LEMMA ShapeAged ==
  ASSUME NEW x \in Seq(Entry)
  PROVE  /\ values(x) \in Seq(Val) /\ Len(values(x)) = Len(x)
         /\ aged(x) \in Seq(Entry) /\ Len(aged(x)) = Len(x)
         /\ Shape(values(x), aged(x), 0)
<1>1. \A i \in 1 .. Len(x) : x[i] \in Entry /\ x[i].v \in Val
  <2>1. ASSUME NEW e \in Entry PROVE e.v \in Val
    BY DEF Entry
  <2>2. QED
    BY ElementOfSeq, <2>1
<1>2. values(x) \in Seq(Val) /\ Len(values(x)) = Len(x)
      /\ \A i \in 1 .. Len(x) : values(x)[i] = x[i].v
  BY <1>1 DEF values
<1>3. aged(x) \in Seq(Entry) /\ Len(aged(x)) = Len(x)
      /\ \A i \in 1 .. Len(x) : aged(x)[i] = [v |-> x[i].v, now |-> FALSE]
  BY <1>1 DEF aged, Entry
<1>4. QED
  BY <1>2, <1>3 DEF Shape

------------------------------------------------------------------------------
(* The inductive invariant.                                                *)

\* The types of the observations.
SeenTypes ==
  /\ q0 \in [Queues -> Seq(Val)] /\ lv0 \in [Levels -> Val]
  /\ wr \in [Queues -> Val \cup {"idle", "refused"}]
  /\ rd \in [Queues -> Val \cup {"idle", "empty"}]
  /\ since \in [Streams -> Nat] /\ broken \in [Valids -> BOOLEAN]

\* One step at a time, which runs once an edge; only an atomic one stalls or
\* has a log, and the takes in it are its own.
Control ==
  /\ (phase = "idle") <=> (running = Proc)
  /\ running \notin due
  /\ phase = "idle" => log = <<>> /\ ~stalled
  /\ stalled => running \in Atomic
  /\ phase = "undo" => stalled
  /\ running \notin Atomic => log = <<>>
  /\ \A i \in 1 .. Len(log) : log[i].op = "take" => Cons[log[i].c] = running

\* A stalling output sends at most once an edge, and only while its producer
\* has not committed since.
PutsOf(d) ==
  Prod[d] # Proc =>
    /\ m_edge_put[d] \in {0, 1} /\ (Prod[d] \in due => m_edge_put[d] = 0)
    /\ running = Prod[d] /\ m_edge_put[d] = 1 => m_sent[d] = Prod[d]
    /\ m_sent[d] \in {Proc, Prod[d]}
    /\ since[d] = IF m_sent[d] = Proc THEN 0 ELSE 1

\* A stream's values fit, and between steps a put went through at this edge iff
\* there was space when the edge began.
RoomOf(d) ==
  /\ Cons[d] = Proc => Len(m_q[d]) <= DEPTH[d]
  /\ Between(d) =>
       /\ Len(q0[d]) <= DEPTH[d]
       /\ wr[d] = "idle" => m_edge_put[d] = 0
       /\ wr[d] = "refused" => m_edge_put[d] = 0 /\ Len(q0[d]) >= DEPTH[d]
       /\ wr[d] \in Val => m_edge_put[d] = 1 /\ Len(q0[d]) < DEPTH[d]

\* What the first poll of the edge saw, against the takes counted.
ReadsOf(d) ==
  Cons[d] # Proc =>
    /\ Cons[d] \in due => rd[d] = "idle"
    /\ rd[d] = "idle" => m_edge_take[d] = 0
    /\ rd[d] = "empty" => q0[d] = <<>>
    /\ rd[d] \in Val => q0[d] # <<>> /\ rd[d] = Head(q0[d])
    /\ rd[d] \in Val /\ (phase # "undo" \/ running # Cons[d]) => m_edge_take[d] >= 1
    /\ m_edge_take[d] <= MaxTake

\* A put into a valid channel that was full is reported when it is made.
ReportsOf(d) ==
  Between(d) =>
    /\ wr[d] # "idle" /\ Len(q0[d]) >= DEPTH[d] => reported[d]
    /\ broken[d] => reported[d]

\* What a step finds when it begins: it has taken nothing at this edge.
Began ==
  phase # "idle" =>
    /\ \A d \in Queues : Cons[d] = running => pre.take[d] = 0
    /\ running \in Atomic => m_saved[running] = pre.s[running]

\* A queue with values x, t of them taken by steps, against the edge's beginning.
SeenQueue(d, x, t) ==
  /\ Cons[d] = Proc => t = 0
  /\ Cons[d] # Proc => Shape(q0[d], x, t)
  /\ d \in Streams /\ Cons[d] # Proc /\ Prod[d] = Proc => Len(x) <= DEPTH[d]
  /\ d \in Streams /\ Between(d) =>
       /\ Len(x) + t = Len(q0[d]) + m_edge_put[d]
       /\ m_edge_put[d] = 1 => x[Len(x)] = stamped(wr[d])

\* A level l against the edge's beginning.
SeenLevel(d, l) == IF l.now THEN l.prev = lv0[d] ELSE l.value = lv0[d]

\* The same of all queues and levels.
Seen(q, lv, take) ==
  /\ \A d \in Queues : SeenQueue(d, q[d], take[d])
  /\ \A d \in Levels : SeenLevel(d, lv[d])

\* What undoing u makes of the queues, the levels and the counts of takes.
BackQ(u, q) ==
  IF u.op = "take" THEN [q EXCEPT ![u.c] = <<u.e>> \o @]
  ELSE IF u.op = "put" THEN [q EXCEPT ![u.c] = SubSeq(@, 1, Len(@) - 1)] ELSE q
BackLv(u, lv) == IF u.op = "set" THEN [lv EXCEPT ![u.c] = u.e] ELSE lv
BackTake(u, take) == IF u.op = "take" THEN [take EXCEPT ![u.c] = @ - 1] ELSE take

\* The running step has sent a value on c at this edge; a stall does not undo it.
sent(c) == c \in Streams /\ Prod[c] = running /\ m_edge_put[c] = 1

\* The queues as when the step began, but for the values it has sent.
start_q == [c \in Queues |-> IF sent(c) THEN Append(pre.q[c], stamped(wr[c])) ELSE pre.q[c]]

\* The states an undo of the whole log would go through, by the number of
\* records left: from the present one back to the step's beginning, each of them
\* fit for a step to see.
Unwinds(q, lv, take) ==
  /\ q \in [0 .. Len(log) -> [Queues -> Seq(Entry)]]
  /\ lv \in [0 .. Len(log) -> [Levels -> LevelType]]
  /\ take \in [0 .. Len(log) -> [Queues -> Nat]]
  /\ q[Len(log)] = m_q /\ lv[Len(log)] = level /\ take[Len(log)] = m_edge_take
  /\ q[0] = start_q /\ lv[0] = pre.lv /\ take[0] = pre.take
  /\ \A n \in 1 .. Len(log) :
       /\ q[n - 1] = BackQ(log[n], q[n])
       /\ lv[n - 1] = BackLv(log[n], lv[n])
       /\ take[n - 1] = BackTake(log[n], take[n])
  /\ \A n \in 0 .. Len(log) : Seen(q[n], lv[n], take[n])

\* The log of an all-or-nothing step leads back to where the step began.
History == running \in Atomic => \E q, lv, take : Unwinds(q, lv, take)

Puts    == \A d \in Streams : PutsOf(d)
Room    == \A d \in Streams : RoomOf(d)
Reads   == \A d \in Queues : ReadsOf(d)
Reports == \A d \in Valids : ReportsOf(d)
SeenNow == Seen(m_q, level, m_edge_take)

IInv ==
  /\ net \in Nets /\ TypeOK /\ SeenTypes /\ Control
  /\ Puts /\ Room /\ Reads /\ Reports /\ Began /\ SeenNow /\ History

------------------------------------------------------------------------------
(* The network.                                                            *)

\* What StepAssumption says of the network the system runs on.
LEMMA NetFacts ==
  ASSUME net \in Nets
  PROVE  /\ Atomic \subseteq Steps /\ Proc \notin Steps
         /\ Streams \cap Valids = {} /\ Queues \cap Levels = {}
         /\ Queues = Streams \cup Valids
         /\ \A c \in Queues : Prod[c] \in Steps \cup {Proc} /\ Cons[c] \in Steps \cup {Proc}
         /\ \A c \in Levels : Prod[c] \in Steps \cup {Proc} /\ Cons[c] \in Steps \cup {Proc}
         /\ \A c \in Streams : Prod[c] \in Atomic \cup {Proc}
         /\ \A c \in Queues : DEPTH[c] \in Nat \ {0}
         /\ MaxTake \in Nat \ {0}
  BY StepAssumption
     DEF Atomic, Steps, Streams, Valids, Levels, Queues, Prod, Cons, DEPTH, MaxTake

\* It does not change.
LEMMA SameNet ==
  ASSUME net' = net
  PROVE  /\ Steps' = Steps /\ Atomic' = Atomic /\ Streams' = Streams /\ Valids' = Valids
         /\ Levels' = Levels /\ Queues' = Queues /\ Prod' = Prod /\ Cons' = Cons
         /\ DEPTH' = DEPTH /\ MaxTake' = MaxTake /\ UndoType' = UndoType
         /\ \A d : Between(d)' = Between(d)
  BY DEF Steps, Atomic, Streams, Valids, Levels, Queues, Prod, Cons, DEPTH, MaxTake,
         UndoType, Between

------------------------------------------------------------------------------
(* What holds of a channel goes on to hold where a step leaves it alone.    *)

LEMMA SeenQueueKept ==
  ASSUME net' = net, q0' = q0, NEW d, NEW x, NEW t, SeenQueue(d, x, t),
         m_edge_put'[d] = m_edge_put[d],
         d \in Streams /\ m_edge_put[d] = 1 => wr'[d] = wr[d]
  PROVE  SeenQueue(d, x, t)'
  BY SameNet DEF SeenQueue, stamped

LEMMA SeenLevelKept ==
  ASSUME lv0' = lv0, NEW d, NEW l, SeenLevel(d, l)
  PROVE  SeenLevel(d, l)'
  BY DEF SeenLevel

\* The observations of the edge's beginning, and what was put since.
EdgeKept ==
  /\ net' = net /\ q0' = q0 /\ lv0' = lv0 /\ m_edge_put' = m_edge_put
  /\ \A d \in Streams : m_edge_put[d] = 1 => wr'[d] = wr[d]

LEMMA SeenKept ==
  ASSUME EdgeKept, NEW q, NEW lv, NEW take, Seen(q, lv, take)
  PROVE  Seen(q, lv, take)'
<1>1. ASSUME NEW d \in Queues PROVE SeenQueue(d, q[d], take[d])'
  BY SeenQueueKept DEF Seen, EdgeKept
<1>2. ASSUME NEW d \in Levels PROVE SeenLevel(d, lv[d])'
  BY SeenLevelKept DEF Seen, EdgeKept
<1>3. QED
  BY <1>1, <1>2, SameNet DEF Seen, EdgeKept

LEMMA StartKept ==
  ASSUME EdgeKept, running' = running, pre' = pre
  PROVE  start_q' = start_q
<1>1. Streams' = Streams /\ Queues' = Queues /\ Prod' = Prod
  BY SameNet DEF EdgeKept
<1>2. ASSUME NEW c PROVE sent(c)' = sent(c)
  BY <1>1 DEF sent, EdgeKept
<1>3. ASSUME NEW c \in Queues, sent(c) PROVE stamped(wr'[c]) = stamped(wr[c])
  BY <1>3 DEF sent, EdgeKept
<1>4. QED
  BY <1>1, <1>2, <1>3 DEF start_q, stamped

LEMMA HistoryKept ==
  ASSUME EdgeKept, History,
         UNCHANGED <<m_q, level, m_edge_take, log, running, pre>>
  PROVE  History'
<1>1. SUFFICES ASSUME running \in Atomic
               PROVE  \E q, lv, take : Unwinds(q, lv, take)'
  BY SameNet DEF History, EdgeKept
<1>2. PICK q, lv, take : Unwinds(q, lv, take)
  BY <1>1 DEF History
<1>3. \A n \in 0 .. Len(log) : Seen(q[n], lv[n], take[n])'
  BY <1>2, SeenKept DEF Unwinds
<1>4. start_q' = start_q
  BY StartKept
<1>5. Unwinds(q, lv, take)'
  BY <1>2, <1>3, <1>4, SameNet DEF Unwinds, EdgeKept
<1>6. QED
  BY <1>5

\* One more record, which leads back from the new state to the old one.
LEMMA HistoryExtended ==
  ASSUME EdgeKept, History, TypeOK, running' = running, pre' = pre,
         NEW u, log' = Append(log, u),
         BackQ(u, m_q') = m_q, BackLv(u, level') = level,
         BackTake(u, m_edge_take') = m_edge_take,
         m_q' \in [Queues -> Seq(Entry)], level' \in [Levels -> LevelType],
         m_edge_take' \in [Queues -> Nat], SeenNow'
  PROVE  History'
<1>1. SUFFICES ASSUME running \in Atomic
               PROVE  \E q, lv, take : Unwinds(q, lv, take)'
  BY SameNet DEF History, EdgeKept
<1>2. PICK q, lv, take : Unwinds(q, lv, take)
  BY <1>1 DEF History
<1> DEFINE N == Len(log)
<1>3. /\ N \in Nat /\ Len(log') = N + 1 /\ log'[N + 1] = u
      /\ \A n \in 1 .. N : log'[n] = log[n]
  BY DEF TypeOK
<1>4. PICK q2 : q2 = [n \in 0 .. N + 1 |-> IF n <= N THEN q[n] ELSE m_q']
  OBVIOUS
<1>5. PICK lv2 : lv2 = [n \in 0 .. N + 1 |-> IF n <= N THEN lv[n] ELSE level']
  OBVIOUS
<1>6. PICK take2 : take2 = [n \in 0 .. N + 1 |-> IF n <= N THEN take[n] ELSE m_edge_take']
  OBVIOUS
<1>7. /\ q2[N + 1] = m_q' /\ lv2[N + 1] = level' /\ take2[N + 1] = m_edge_take'
      /\ \A n \in 0 .. N : q2[n] = q[n] /\ lv2[n] = lv[n] /\ take2[n] = take[n]
  BY <1>3, <1>4, <1>5, <1>6
<1>8. /\ q[N] = m_q /\ lv[N] = level /\ take[N] = m_edge_take
      /\ q[0] = start_q /\ lv[0] = pre.lv /\ take[0] = pre.take
  BY <1>2 DEF Unwinds
<1>9. /\ q2 \in [0 .. N + 1 -> [Queues -> Seq(Entry)]]
      /\ lv2 \in [0 .. N + 1 -> [Levels -> LevelType]]
      /\ take2 \in [0 .. N + 1 -> [Queues -> Nat]]
  <2>1. /\ q \in [0 .. N -> [Queues -> Seq(Entry)]]
        /\ lv \in [0 .. N -> [Levels -> LevelType]]
        /\ take \in [0 .. N -> [Queues -> Nat]]
    BY <1>2 DEF Unwinds
  <2>2. QED
    BY <2>1, <1>3, <1>4, <1>5, <1>6
<1>10. ASSUME NEW n \in 1 .. N + 1
       PROVE  /\ q2[n - 1] = BackQ(log'[n], q2[n])
              /\ lv2[n - 1] = BackLv(log'[n], lv2[n])
              /\ take2[n - 1] = BackTake(log'[n], take2[n])
  <2>1. CASE n = N + 1
    <3>1. n - 1 = N /\ N \in 0 .. N /\ log'[n] = u
      BY <2>1, <1>3
    <3>2. QED
      BY <2>1, <3>1, <1>7, <1>8
  <2>2. CASE n \in 1 .. N
    <3>1. n \in 0 .. N /\ n - 1 \in 0 .. N /\ log'[n] = log[n]
      BY <2>2, <1>3
    <3>2. QED
      BY <2>2, <3>1, <1>2, <1>7 DEF Unwinds
  <2>3. QED
    BY <2>1, <2>2, <1>3
<1>11. ASSUME NEW n \in 0 .. N + 1 PROVE Seen(q2[n], lv2[n], take2[n])'
  <2>1. CASE n = N + 1
    BY <2>1, <1>7 DEF SeenNow
  <2>2. CASE n \in 0 .. N
    <3>1. Seen(q[n], lv[n], take[n])'
      BY <2>2, <1>2, SeenKept DEF Unwinds
    <3>2. QED
      BY <3>1, <2>2, <1>7
  <2>3. QED
    BY <2>1, <2>2, <1>3
<1>12. start_q' = start_q
  BY StartKept
<1>13. Unwinds(q2, lv2, take2)'
  BY <1>3, <1>7, <1>8, <1>9, <1>10, <1>11, <1>12, SameNet DEF Unwinds, EdgeKept
<1>14. QED
  BY <1>13

\* A value sent on c joins every state back to the step's beginning.
SentTo(c, v) ==
  /\ net' = net /\ q0' = q0 /\ lv0' = lv0
  /\ running = Prod[c] /\ m_edge_put[c] = 0
  /\ m_q' = [m_q EXCEPT ![c] = Append(@, stamped(v))]
  /\ m_edge_put' = [m_edge_put EXCEPT ![c] = @ + 1]
  /\ wr' = [wr EXCEPT ![c] = v]

LEMMA SeenQueueSent ==
  ASSUME TypeOK, SeenTypes, NEW c \in Streams, NEW v \in Val, SentTo(c, v), Prod[c] # Proc,
         NEW x \in Seq(Entry), NEW t \in Nat, SeenQueue(c, x, t)
  PROVE  SeenQueue(c, Append(x, stamped(v)), t)'
<1> DEFINE y == Append(x, stamped(v))
<1>1. /\ y \in Seq(Entry) /\ Len(y) = Len(x) + 1 /\ y[Len(y)] = stamped(v)
      /\ Len(x) \in Nat
  BY StampedEntry, AppendProperties
<1>2. c \in Queues /\ q0[c] \in Seq(Val) /\ m_edge_put'[c] = 1 /\ wr'[c] = v
  BY DEF SentTo, TypeOK, SeenTypes, Queues
<1>3. Cons[c] = Proc => t = 0
  BY DEF SeenQueue
<1>4. Cons[c] # Proc => Shape(q0[c], y, t)
  BY <1>2, StampedEntry, ShapePut DEF SeenQueue
<1>5. Between(c) => Len(x) + t = Len(q0[c])
  BY <1>2 DEF SeenQueue, SentTo
<1>6. Between(c) => Len(y) + t = Len(q0[c]) + m_edge_put'[c]
  BY <1>1, <1>2, <1>5
<1>7. QED
  BY <1>1, <1>2, <1>3, <1>4, <1>6, SameNet DEF SeenQueue, SentTo, stamped

LEMMA SeenSent ==
  ASSUME TypeOK, SeenTypes, NEW c \in Streams, NEW v \in Val, SentTo(c, v), Prod[c] # Proc,
         NEW q \in [Queues -> Seq(Entry)], NEW lv, NEW take \in [Queues -> Nat],
         Seen(q, lv, take)
  PROVE  Seen([q EXCEPT ![c] = Append(@, stamped(v))], lv, take)'
<1> DEFINE q2 == [q EXCEPT ![c] = Append(@, stamped(v))]
<1>1. c \in Queues
  BY DEF Queues
<1>2. ASSUME NEW d \in Queues PROVE SeenQueue(d, q2[d], take[d])'
  <2>1. CASE d = c
    <3>1. q2[d] = Append(q[c], stamped(v)) /\ q[c] \in Seq(Entry) /\ take[c] \in Nat
      BY <2>1, <1>1
    <3>2. SeenQueue(c, q[c], take[c])
      BY <1>1 DEF Seen
    <3>3. QED
      BY <2>1, <3>1, <3>2, SeenQueueSent
  <2>2. CASE d # c
    <3>1. q2[d] = q[d]
      BY <2>2
    <3>2. SeenQueue(d, q[d], take[d])
      BY DEF Seen
    <3>3. m_edge_put'[d] = m_edge_put[d] /\ (d \in Streams => wr'[d] = wr[d])
      BY <2>2, <1>1 DEF SentTo, TypeOK, SeenTypes, Queues
    <3>4. QED
      BY <3>1, <3>2, <3>3, SeenQueueKept DEF SentTo
  <2>3. QED
    BY <2>1, <2>2
<1>3. ASSUME NEW d \in Levels PROVE SeenLevel(d, lv[d])'
  BY SeenLevelKept DEF Seen, SentTo
<1>4. QED
  BY <1>2, <1>3, SameNet DEF Seen, SentTo

\* Undoing a record and sending on a stream do not disturb one another.
LEMMA BackThenSent ==
  ASSUME net \in Nets, NEW c \in Streams, NEW e \in Entry, NEW u \in UndoType,
         NEW q \in [Queues -> Seq(Entry)]
  PROVE  BackQ(u, [q EXCEPT ![c] = Append(@, e)])
         = [BackQ(u, q) EXCEPT ![c] = Append(@, e)]
<1>1. c \in Queues /\ c \notin Valids
  BY NetFacts DEF Queues
<1>2. CASE u.op = "take"
  <2>1. u.c \in Queues /\ u.e \in Entry
    BY <1>2 DEF UndoType
  <2>2. CASE u.c = c
    <3>1. <<u.e>> \o Append(q[c], e) = Append(<<u.e>> \o q[c], e)
      BY <2>1, <1>1, BothEnds
    <3>2. QED
      BY <1>1, <1>2, <2>1, <2>2, <3>1 DEF BackQ
  <2>3. CASE u.c # c
    BY <1>1, <1>2, <2>1, <2>3 DEF BackQ
  <2>4. QED
    BY <2>2, <2>3
<1>3. CASE u.op = "put"
  <2>1. u.c \in Valids /\ u.c \in Queues /\ u.c # c
    BY <1>3, <1>1 DEF UndoType, Queues
  <2>2. QED
    BY <1>1, <1>3, <2>1 DEF BackQ
<1>4. CASE u.op = "set"
  BY <1>4 DEF BackQ
<1>5. QED
  BY <1>2, <1>3, <1>4 DEF UndoType

LEMMA StartSent ==
  ASSUME TypeOK, SeenTypes, NEW c \in Streams, NEW v \in Val, SentTo(c, v),
         running' = running, pre' = pre
  PROVE  start_q' = [start_q EXCEPT ![c] = Append(@, stamped(v))]
<1>1. c \in Queues /\ Queues' = Queues /\ Streams' = Streams /\ Prod' = Prod
  BY SameNet DEF SentTo, Queues
<1>2. m_edge_put'[c] = 1 /\ wr'[c] = v
  BY <1>1 DEF SentTo, TypeOK, SeenTypes
<1>3. ASSUME NEW d \in Queues, d # c
      PROVE  m_edge_put'[d] = m_edge_put[d] /\ wr'[d] = wr[d]
  BY <1>3 DEF SentTo, TypeOK, SeenTypes
<1>4. start_q[c] = pre.q[c] /\ start_q'[c] = Append(pre.q[c], stamped(v))
  <2>1. ~sent(c) /\ sent(c)'
    BY <1>1, <1>2 DEF sent, SentTo
  <2>2. QED
    BY <2>1, <1>1, <1>2 DEF start_q, stamped
<1>5. ASSUME NEW d \in Queues, d # c PROVE start_q'[d] = start_q[d]
  BY <1>1, <1>3, <1>5 DEF start_q, sent, stamped
<1>6. /\ start_q' = [d \in Queues |-> start_q'[d]]
      /\ start_q = [d \in Queues |-> start_q[d]]
  BY <1>1 DEF start_q
<1>7. QED
  BY <1>1, <1>4, <1>5, <1>6

LEMMA HistorySent ==
  ASSUME net \in Nets, TypeOK, SeenTypes, History, NEW c \in Streams, NEW v \in Val,
         SentTo(c, v), running \in Atomic,
         UNCHANGED <<level, m_edge_take, log, running, pre>>
  PROVE  History'
<1>1. SUFFICES \E q, lv, take : Unwinds(q, lv, take)'
  BY DEF History
<1>2. PICK q, lv, take : Unwinds(q, lv, take)
  BY DEF History
<1> DEFINE N == Len(log)
           Joined(x) == [x EXCEPT ![c] = Append(@, stamped(v))]
<1>3. c \in Queues /\ stamped(v) \in Entry /\ Prod[c] # Proc /\ N \in Nat
  BY NetFacts, StampedEntry DEF SentTo, Queues, TypeOK
<1>4. PICK q2 : q2 = [n \in 0 .. N |-> Joined(q[n])]
  OBVIOUS
<1>5. ASSUME NEW n \in 0 .. N
      PROVE  /\ q[n] \in [Queues -> Seq(Entry)] /\ lv[n] \in [Levels -> LevelType]
             /\ take[n] \in [Queues -> Nat] /\ Seen(q[n], lv[n], take[n])
  BY <1>2 DEF Unwinds
<1>6. ASSUME NEW n \in 0 .. N
      PROVE  /\ q2[n] = Joined(q[n]) /\ q2[n] \in [Queues -> Seq(Entry)]
             /\ Seen(q2[n], lv[n], take[n])'
  <2>1. q2[n] = Joined(q[n])
    BY <1>4
  <2>2. Joined(q[n]) \in [Queues -> Seq(Entry)]
    BY <1>3, <1>5
  <2>3. Seen(Joined(q[n]), lv[n], take[n])'
    BY <1>3, <1>5, SeenSent
  <2>4. QED
    BY <2>1, <2>2, <2>3
<1>7. ASSUME NEW n \in 1 .. N PROVE q2[n - 1] = BackQ(log[n], q2[n])
  <2>1. n \in 0 .. N /\ n - 1 \in 0 .. N /\ log[n] \in UndoType
    BY <1>3 DEF TypeOK
  <2>2. q[n - 1] = BackQ(log[n], q[n])
    BY <1>2 DEF Unwinds
  <2>3. BackQ(log[n], Joined(q[n])) = Joined(BackQ(log[n], q[n]))
    BY <2>1, <1>3, <1>5, BackThenSent
  <2>4. QED
    BY <2>1, <2>2, <2>3, <1>6
<1>8. q2[N] = m_q' /\ q2[0] = start_q'
  <2>1. q[N] = m_q /\ q[0] = start_q
    BY <1>2 DEF Unwinds
  <2>2. N \in 0 .. N /\ 0 \in 0 .. N
    BY <1>3
  <2>3. q2[N] = Joined(m_q) /\ q2[0] = Joined(start_q)
    BY <2>1, <2>2, <1>6
  <2>4. start_q' = Joined(start_q)
    BY StartSent
  <2>5. QED
    BY <2>3, <2>4 DEF SentTo
<1>9. Unwinds(q2, lv, take)'
  <2>1. q2 \in [0 .. N -> [Queues -> Seq(Entry)]]
    BY <1>4, <1>6
  <2>2. QED
    BY <2>1, <1>2, <1>6, <1>7, <1>8, SameNet DEF Unwinds, SentTo
<1>10. QED
  BY <1>9

\* Undoing the newest record goes one state back.
LEMMA HistoryUndone ==
  ASSUME EdgeKept, History, TypeOK, running \in Atomic, running' = running, pre' = pre,
         log # <<>>, log' = SubSeq(log, 1, Len(log) - 1),
         m_q' = BackQ(log[Len(log)], m_q), level' = BackLv(log[Len(log)], level),
         m_edge_take' = BackTake(log[Len(log)], m_edge_take)
  PROVE  /\ History' /\ SeenNow'
         /\ m_q' \in [Queues -> Seq(Entry)] /\ level' \in [Levels -> LevelType]
         /\ m_edge_take' \in [Queues -> Nat]
<1>1. PICK q, lv, take : Unwinds(q, lv, take)
  BY DEF History
<1> DEFINE N == Len(log)
<1>2. /\ N \in Nat /\ N >= 1 /\ Len(log') = N - 1
      /\ \A n \in 1 .. N - 1 : log'[n] = log[n]
  <2>1. log \in Seq(UndoType)
    BY DEF TypeOK
  <2>2. QED
    BY <2>1, Front
<1>3. PICK q2 : q2 = [n \in 0 .. N - 1 |-> q[n]]
  OBVIOUS
<1>4. PICK lv2 : lv2 = [n \in 0 .. N - 1 |-> lv[n]]
  OBVIOUS
<1>5. PICK take2 : take2 = [n \in 0 .. N - 1 |-> take[n]]
  OBVIOUS
<1>6. \A n \in 0 .. N - 1 : q2[n] = q[n] /\ lv2[n] = lv[n] /\ take2[n] = take[n]
  BY <1>3, <1>4, <1>5
<1>7. q2[N - 1] = m_q' /\ lv2[N - 1] = level' /\ take2[N - 1] = m_edge_take'
  <2>1. N \in 1 .. N /\ N - 1 \in 0 .. N - 1
    BY <1>2
  <2>2. QED
    BY <2>1, <1>1, <1>6 DEF Unwinds
<1>8. /\ q2 \in [0 .. N - 1 -> [Queues -> Seq(Entry)]]
      /\ lv2 \in [0 .. N - 1 -> [Levels -> LevelType]]
      /\ take2 \in [0 .. N - 1 -> [Queues -> Nat]]
  <2>1. /\ q \in [0 .. N -> [Queues -> Seq(Entry)]]
        /\ lv \in [0 .. N -> [Levels -> LevelType]]
        /\ take \in [0 .. N -> [Queues -> Nat]]
    BY <1>1 DEF Unwinds
  <2>2. \A n \in 0 .. N - 1 : n \in 0 .. N
    BY <1>2
  <2>3. QED
    BY <2>1, <2>2, <1>3, <1>4, <1>5
<1>9. ASSUME NEW n \in 0 .. N - 1 PROVE Seen(q2[n], lv2[n], take2[n])'
  <2>1. n \in 0 .. N
    BY <1>2
  <2>2. Seen(q[n], lv[n], take[n])'
    BY <2>1, <1>1, SeenKept DEF Unwinds
  <2>3. QED
    BY <2>2, <1>6
<1>10. ASSUME NEW n \in 1 .. N - 1
       PROVE  /\ q2[n - 1] = BackQ(log'[n], q2[n])
              /\ lv2[n - 1] = BackLv(log'[n], lv2[n])
              /\ take2[n - 1] = BackTake(log'[n], take2[n])
  <2>1. n \in 1 .. N /\ n \in 0 .. N - 1 /\ n - 1 \in 0 .. N - 1 /\ log'[n] = log[n]
    BY <1>2
  <2>2. QED
    BY <2>1, <1>1, <1>6 DEF Unwinds
<1>11. q2[0] = start_q' /\ lv2[0] = pre.lv /\ take2[0] = pre.take
  <2>1. 0 \in 0 .. N - 1
    BY <1>2
  <2>2. QED
    BY <2>1, <1>1, <1>6, StartKept DEF Unwinds
<1>12. Unwinds(q2, lv2, take2)'
  BY <1>2, <1>7, <1>8, <1>9, <1>10, <1>11, SameNet DEF Unwinds, EdgeKept
<1>13. History'
  BY <1>12 DEF History
<1>14. SeenNow'
  <2>1. PICK k : k = N - 1 /\ k \in 0 .. N - 1
    BY <1>2
  <2>2. Seen(q2[k], lv2[k], take2[k])'
    BY <2>1, <1>9
  <2>3. q2[k] = m_q' /\ lv2[k] = level' /\ take2[k] = m_edge_take'
    BY <2>1, <1>7
  <2>4. QED
    BY <2>2, <2>3 DEF SeenNow
<1>15. QED
  <2>1. N - 1 \in 0 .. N - 1
    BY <1>2
  <2>2. QED
    BY <2>1, <1>7, <1>8, <1>13, <1>14

LEMMA ControlKept ==
  ASSUME net' = net, Control, UNCHANGED <<phase, running, due, log, stalled>>
  PROVE  Control'
  BY SameNet DEF Control

LEMMA PutsKept ==
  ASSUME net' = net, Puts, UNCHANGED <<m_edge_put, m_sent, since, running, due>>
  PROVE  Puts'
  BY SameNet DEF Puts, PutsOf

LEMMA RoomKept ==
  ASSUME net' = net, NEW d, RoomOf(d), q0' = q0, m_edge_put'[d] = m_edge_put[d],
         wr'[d] = wr[d], Cons[d] # Proc \/ m_q'[d] = m_q[d]
  PROVE  RoomOf(d)'
  BY SameNet DEF RoomOf

LEMMA ReadsKept ==
  ASSUME net' = net, NEW d, ReadsOf(d), UNCHANGED <<phase, running, due, q0>>,
         rd'[d] = rd[d], m_edge_take'[d] = m_edge_take[d]
  PROVE  ReadsOf(d)'
  BY SameNet DEF ReadsOf

LEMMA ReportsKept ==
  ASSUME net' = net, NEW d, ReportsOf(d), q0' = q0, wr'[d] = wr[d] \/ wr'[d] = "idle",
         reported'[d] = reported[d], broken'[d] = broken[d]
  PROVE  ReportsOf(d)'
  BY SameNet DEF ReportsOf

LEMMA BeganKept ==
  ASSUME net' = net, Began, UNCHANGED <<phase, running, pre, m_saved>>
  PROVE  Began'
  BY SameNet DEF Began

LEMMA SeenNowKept ==
  ASSUME EdgeKept, SeenNow, UNCHANGED <<m_q, level, m_edge_take>>
  PROVE  SeenNow'
<1>1. PICK q, lv, take : q = m_q /\ lv = level /\ take = m_edge_take
  OBVIOUS
<1>2. Seen(q, lv, take)'
  BY <1>1, SeenKept DEF SeenNow
<1>3. QED
  BY <1>1, <1>2 DEF SeenNow

\* A change of queue c alone.
LEMMA SeenNowOfQueue ==
  ASSUME EdgeKept, TypeOK, SeenNow, level' = level, NEW c \in Queues,
         \A d \in Queues : d # c => m_q'[d] = m_q[d] /\ m_edge_take'[d] = m_edge_take[d],
         SeenQueue(c, m_q'[c], m_edge_take'[c])
  PROVE  SeenNow'
<1>1. ASSUME NEW d \in Queues PROVE SeenQueue(d, m_q'[d], m_edge_take'[d])
  BY DEF SeenNow, Seen
<1>2. PICK q, lv, take : q = m_q' /\ lv = level /\ take = m_edge_take'
  OBVIOUS
<1>3. Seen(q, lv, take)
  BY <1>1, <1>2 DEF SeenNow, Seen
<1>4. Seen(q, lv, take)'
  BY <1>3, SeenKept
<1>5. QED
  BY <1>2, <1>4 DEF SeenNow

------------------------------------------------------------------------------
(* The calls of processes: they touch one queue, between two steps.        *)

LEMMA ProcCallKeeps ==
  ASSUME IInv, NEW c \in Queues, phase = "idle", net' = net,
         m_q' \in [Queues -> Seq(Entry)],
         \A d \in Queues : d # c => m_q'[d] = m_q[d],
         UNCHANGED <<m_edge_put, m_edge_take, m_sent, level, reported, s, m_saved, running,
                     stalled, log, phase, due, seen>>,
         SeenQueue(c, m_q'[c], m_edge_take[c]),
         c \in Streams /\ Cons[c] = Proc => Len(m_q'[c]) <= DEPTH[c]
  PROVE  IInv'
<1>1. /\ EdgeKept
      /\ UNCHANGED <<q0, lv0, wr, rd, wr0, rd0, pre, since, broken>>
  BY DEF EdgeKept, seen
<1>2. net' \in Nets
  BY DEF IInv
<1>3. TypeOK'
  BY SameNet DEF IInv, TypeOK
<1>4. SeenTypes'
  BY <1>1, SameNet DEF IInv, SeenTypes
<1>5. Control' /\ Puts' /\ Began'
  BY <1>1, ControlKept, PutsKept, BeganKept DEF IInv
<1>6. ASSUME NEW d \in Streams PROVE RoomOf(d)'
  <2>1. RoomOf(d) /\ d \in Queues
    BY DEF IInv, Room, Queues
  <2>2. CASE d = c
    BY <2>1, <2>2, <1>1, SameNet DEF RoomOf
  <2>3. CASE d # c
    BY <2>1, <2>3, <1>1, RoomKept
  <2>4. QED
    BY <2>2, <2>3
<1>7. Reads'
  BY <1>1, ReadsKept, SameNet DEF IInv, Reads
<1>8. Reports'
  BY <1>1, ReportsKept, SameNet DEF IInv, Reports
<1>9. SeenNow'
  BY <1>1, SeenNowOfQueue DEF IInv
<1>10. History'
  <2>1. running = Proc /\ Proc \notin Atomic
    BY NetFacts DEF IInv, Control
  <2>2. QED
    BY <2>1, SameNet DEF History
<1>11. QED
  BY <1>2, <1>3, <1>4, <1>5, <1>6, <1>7, <1>8, <1>9, <1>10, SameNet DEF IInv, Room

LEMMA ProcPutKeeps ==
  ASSUME IInv, NEW c \in Streams, NEW v \in Val, ProcPut(c, v)
  PROVE  IInv'
<1>1. /\ c \in Queues /\ m_q \in [Queues -> Seq(Entry)] /\ Prod[c] = Proc
      /\ Len(m_q[c]) < DEPTH[c] /\ m_edge_take[c] \in Nat /\ DEPTH[c] \in Nat
  BY NetFacts DEF IInv, ProcPut, space, TypeOK, Queues
<1>2. /\ m_q'[c] = Append(m_q[c], stamped(v)) /\ m_q' \in [Queues -> Seq(Entry)]
      /\ Len(m_q'[c]) = Len(m_q[c]) + 1 /\ Len(m_q[c]) \in Nat
      /\ \A d \in Queues : d # c => m_q'[d] = m_q[d]
  BY <1>1, StampedEntry DEF ProcPut
<1>3. SeenQueue(c, m_q[c], m_edge_take[c])
  BY <1>1 DEF IInv, SeenNow, Seen
<1>4. Cons[c] # Proc => Shape(q0[c], m_q'[c], m_edge_take[c])
  BY <1>1, <1>2, <1>3, StampedEntry, ShapePut DEF SeenQueue, IInv, SeenTypes
<1>5. Len(m_q'[c]) <= DEPTH[c]
  BY <1>1, <1>2
<1>6. SeenQueue(c, m_q'[c], m_edge_take[c])
  BY <1>1, <1>3, <1>4, <1>5 DEF SeenQueue, Between
<1>7. QED
  BY <1>1, <1>2, <1>5, <1>6, ProcCallKeeps DEF ProcPut

LEMMA ProcGetKeeps ==
  ASSUME IInv, NEW c \in Queues, ProcGet(c)
  PROVE  IInv'
<1>1. m_q \in [Queues -> Seq(Entry)] /\ Cons[c] = Proc /\ m_q[c] # <<>>
  BY DEF IInv, ProcGet, TypeOK
<1>2. /\ m_q'[c] = Tail(m_q[c]) /\ m_q' \in [Queues -> Seq(Entry)]
      /\ Len(m_q'[c]) = Len(m_q[c]) - 1 /\ Len(m_q[c]) \in Nat
      /\ \A d \in Queues : d # c => m_q'[d] = m_q[d]
  BY <1>1, HeadAndTail DEF ProcGet
<1>3. SeenQueue(c, m_q'[c], m_edge_take[c])
  BY <1>1 DEF IInv, SeenNow, Seen, SeenQueue, Between
<1>4. c \in Streams => Len(m_q'[c]) <= DEPTH[c]
  <2>1. SUFFICES ASSUME c \in Streams PROVE Len(m_q'[c]) <= DEPTH[c]
    OBVIOUS
  <2>2. DEPTH[c] \in Nat /\ Len(m_q[c]) <= DEPTH[c]
    BY <1>1, <2>1, NetFacts DEF IInv, Room, RoomOf
  <2>3. QED
    BY <2>2, <1>2
<1>5. QED
  BY <1>2, <1>3, <1>4, ProcCallKeeps DEF ProcGet

------------------------------------------------------------------------------
(* What the invariant says of the present state.                           *)

LEMMA QueueTypes ==
  ASSUME IInv, NEW d \in Queues
  PROVE  /\ m_q[d] \in Seq(Entry) /\ Len(m_q[d]) \in Nat
         /\ q0[d] \in Seq(Val) /\ Len(q0[d]) \in Nat
         /\ m_edge_take[d] \in Nat /\ m_edge_put[d] \in Nat /\ DEPTH[d] \in Nat \ {0}
         /\ wr[d] \in Val \cup {"idle", "refused"} /\ rd[d] \in Val \cup {"idle", "empty"}
         /\ SeenQueue(d, m_q[d], m_edge_take[d]) /\ ReadsOf(d)
  BY NetFacts DEF IInv, TypeOK, SeenTypes, SeenNow, Seen, Reads

LEMMA StreamFits ==
  ASSUME IInv, NEW d \in Streams
  PROVE  Len(m_q[d]) <= DEPTH[d]
<1>1. d \in Queues
  BY DEF Queues
<1>2. RoomOf(d) /\ PutsOf(d)
  BY DEF IInv, Room, Puts
<1>3. CASE Cons[d] = Proc
  BY <1>2, <1>3 DEF RoomOf
<1>4. CASE Cons[d] # Proc /\ Prod[d] = Proc
  BY <1>1, <1>4, QueueTypes DEF SeenQueue
<1>5. CASE Between(d)
  <2>1. /\ Len(m_q[d]) + m_edge_take[d] = Len(q0[d]) + m_edge_put[d]
        /\ m_edge_put[d] \in {0, 1} /\ Len(q0[d]) <= DEPTH[d]
        /\ m_edge_put[d] = 1 => Len(q0[d]) < DEPTH[d]
    <3>1. Prod[d] # Proc /\ wr[d] \in Val \cup {"idle", "refused"}
      BY <1>1, <1>5, QueueTypes DEF Between
    <3>2. QED
      BY <1>1, <1>2, <1>5, <3>1, QueueTypes DEF SeenQueue, PutsOf, RoomOf
  <2>2. QED
    BY <1>1, <2>1, QueueTypes
<1>6. QED
  BY <1>3, <1>4, <1>5 DEF Between

------------------------------------------------------------------------------
(* Time.                                                                   *)

LEMMA TickKeeps ==
  ASSUME IInv, NEW E \in SUBSET Steps, Tick(E)
  PROVE  IInv'
<1>1. /\ net' = net /\ net \in Nets
      /\ phase = "idle" /\ running = Proc /\ log = <<>> /\ ~stalled
      /\ UNCHANGED <<m_sent, reported, s, m_saved, running, stalled, log, phase, pre, since,
                     broken>>
  BY DEF IInv, Control, Tick
<1>2. ASSUME NEW d \in Queues
      PROVE  /\ m_q'[d] = aged(m_q[d]) /\ q0'[d] = values(m_q[d])
             /\ m_q'[d] \in Seq(Entry) /\ q0'[d] \in Seq(Val)
             /\ Len(m_q'[d]) = Len(m_q[d]) /\ Len(q0'[d]) = Len(m_q[d])
             /\ Len(m_q[d]) \in Nat /\ Shape(q0'[d], m_q'[d], 0)
             /\ m_edge_put'[d] = 0 /\ m_edge_take'[d] = 0
             /\ wr'[d] = "idle" /\ rd'[d] = "idle"
  <2>1. m_q'[d] = aged(m_q[d]) /\ q0'[d] = values(m_q[d])
    BY DEF Tick
  <2>2. /\ m_edge_put'[d] = 0 /\ m_edge_take'[d] = 0
        /\ wr'[d] = "idle" /\ rd'[d] = "idle"
    BY DEF Tick
  <2>3. m_q[d] \in Seq(Entry) /\ Len(m_q[d]) \in Nat
    BY QueueTypes
  <2>4. QED
    BY <2>1, <2>2, <2>3, ShapeAged
<1>3. ASSUME NEW d \in Levels
      PROVE  /\ level'[d] \in LevelType /\ ~level'[d].now
             /\ level'[d].value = level[d].value /\ lv0'[d] = level[d].value
             /\ lv0'[d] \in Val
  <2>1. level[d] \in LevelType
    BY DEF IInv, TypeOK
  <2>2. level'[d] = [level[d] EXCEPT !.now = FALSE] /\ lv0'[d] = level[d].value
    BY DEF Tick
  <2>3. QED
    BY <2>1, <2>2 DEF LevelType
<1>4. TypeOK'
  <2>1. /\ m_q' \in [Queues -> Seq(Entry)]
        /\ m_edge_put' \in [Queues -> Nat] /\ m_edge_take' \in [Queues -> Nat]
    BY <1>2 DEF Tick
  <2>2. level' \in [Levels -> LevelType]
    BY <1>3 DEF Tick
  <2>3. due' \subseteq Steps
    BY DEF Tick
  <2>4. QED
    BY <1>1, <2>1, <2>2, <2>3, SameNet DEF IInv, TypeOK
<1>5. SeenTypes'
  <2>1. q0' \in [Queues -> Seq(Val)]
    BY <1>2 DEF Tick
  <2>2. lv0' \in [Levels -> Val]
    BY <1>3 DEF Tick
  <2>3. /\ wr' \in [Queues -> Val \cup {"idle", "refused"}]
        /\ rd' \in [Queues -> Val \cup {"idle", "empty"}]
    BY DEF Tick
  <2>4. QED
    BY <1>1, <2>1, <2>2, <2>3, SameNet DEF IInv, SeenTypes
<1>6. Control'
  <2>1. running \notin due'
    BY <1>1, NetFacts DEF Tick
  <2>2. QED
    BY <1>1, <2>1, SameNet DEF IInv, Control
<1>7. ASSUME NEW d \in Streams PROVE PutsOf(d)'
  <2>1. PutsOf(d) /\ d \in Queues
    BY DEF IInv, Puts, Queues
  <2>2. QED
    BY <1>1, <1>2, <2>1, SameNet DEF PutsOf
<1>8. ASSUME NEW d \in Streams PROVE RoomOf(d)'
  <2>1. d \in Queues /\ Len(m_q[d]) <= DEPTH[d]
    BY StreamFits DEF Queues
  <2>2. "idle" \notin Val
    BY StepAssumption
  <2>3. QED
    BY <1>1, <1>2, <2>1, <2>2, SameNet DEF RoomOf
<1>9. ASSUME NEW d \in Queues PROVE ReadsOf(d)'
  <2>1. "idle" \notin Val /\ MaxTake \in Nat
    BY <1>1, StepAssumption, NetFacts
  <2>2. QED
    BY <1>1, <1>2, <2>1, SameNet DEF ReadsOf
<1>10. ASSUME NEW d \in Valids PROVE ReportsOf(d)'
  <2>1. ReportsOf(d) /\ d \in Queues
    BY DEF IInv, Reports, Queues
  <2>2. QED
    BY <1>1, <1>2, <2>1, SameNet DEF ReportsOf
<1>11. Began' /\ History'
  BY <1>1, NetFacts, SameNet DEF Began, History
<1>12. SeenNow'
  <2>1. PICK q, lv, take : q = m_q' /\ lv = level' /\ take = m_edge_take'
    OBVIOUS
  <2>2. ASSUME NEW d \in Queues PROVE SeenQueue(d, q[d], take[d])'
    <3>1. d \in Streams => Len(q[d]) <= DEPTH[d]
      BY <2>1, <1>2, StreamFits
    <3>2. QED
      BY <1>1, <1>2, <2>1, <3>1, SameNet DEF SeenQueue
  <2>3. ASSUME NEW d \in Levels PROVE SeenLevel(d, lv[d])'
    BY <1>3, <2>1 DEF SeenLevel
  <2>4. QED
    BY <2>1, <2>2, <2>3, <1>1, SameNet DEF SeenNow, Seen
<1>13. QED
  BY <1>1, <1>4, <1>5, <1>6, <1>7, <1>8, <1>9, <1>10, <1>11, <1>12, SameNet
     DEF IInv, Puts, Room, Reads, Reports

------------------------------------------------------------------------------
(* A step begins, and ends.                                                *)

LEMMA BeginStepKeeps ==
  ASSUME IInv, NEW x \in Steps, BeginStep(x)
  PROVE  IInv'
<1>1. /\ net' = net /\ net \in Nets /\ x # Proc /\ x \in due
      /\ phase = "idle" /\ running = Proc
      /\ phase' = "body" /\ running' = x /\ log' = <<>> /\ due' = due \ {x}
      /\ UNCHANGED <<m_q, m_edge_put, m_edge_take, m_sent, level, reported, s,
                     q0, lv0, wr, rd, wr0, rd0, since, broken>>
  BY NetFacts DEF IInv, Control, BeginStep
<1>2. /\ pre'.q = m_q /\ pre'.lv = level /\ pre'.take = m_edge_take /\ pre'.s = s
      /\ stalled' \in BOOLEAN /\ ~stalled'
  BY DEF BeginStep, Snapshot
<1>3. m_saved \in [Steps -> Val] /\ s \in [Steps -> Val]
  BY DEF IInv, TypeOK
<1>4. m_saved' \in [Steps -> Val] /\ (x \in Atomic => m_saved'[x] = s[x])
  BY <1>3 DEF BeginStep
<1>5. EdgeKept
  BY <1>1 DEF EdgeKept
<1>6. TypeOK'
  <2>1. log' \in Seq(UndoType) /\ due' \subseteq Steps /\ running' \in Steps \cup {Proc}
    BY <1>1 DEF IInv, TypeOK
  <2>2. QED
    BY <1>1, <1>2, <1>4, <2>1, SameNet DEF IInv, TypeOK
<1>7. SeenTypes'
  BY <1>1, SameNet DEF IInv, SeenTypes
<1>8. Control'
  BY <1>1, <1>2, SameNet DEF IInv, Control
<1>9. ASSUME NEW d \in Streams PROVE PutsOf(d)'
  <2>1. PutsOf(d)
    BY DEF IInv, Puts
  <2>2. QED
    BY <1>1, <2>1, SameNet DEF PutsOf
<1>10. Room' /\ Reports'
  BY <1>1, RoomKept, ReportsKept, SameNet DEF IInv, Room, Reports
<1>11. ASSUME NEW d \in Queues PROVE ReadsOf(d)'
  <2>1. ReadsOf(d)
    BY QueueTypes
  <2>2. QED
    BY <1>1, <2>1, SameNet DEF ReadsOf
<1>12. Began'
  <2>1. ASSUME NEW d \in Queues, Cons[d] = x PROVE m_edge_take[d] = 0
    BY <1>1, <2>1, QueueTypes DEF ReadsOf
  <2>2. QED
    BY <1>1, <1>2, <1>4, <2>1, SameNet DEF Began
<1>13. SeenNow'
  BY <1>1, <1>5, SeenNowKept DEF IInv
<1>14. History'
  <2>1. SUFFICES ASSUME x \in Atomic PROVE \E q, lv, take : Unwinds(q, lv, take)'
    BY <1>1, SameNet DEF History
  <2>2. PICK q, lv, take : /\ q = [n \in 0 .. 0 |-> m_q']
                           /\ lv = [n \in 0 .. 0 |-> level']
                           /\ take = [n \in 0 .. 0 |-> m_edge_take']
    OBVIOUS
  <2>3. start_q' = m_q
    <3>1. ASSUME NEW d \in Queues PROVE ~sent(d)'
      <4>1. d \in Streams => PutsOf(d)
        BY DEF IInv, Puts
      <4>2. QED
        BY <1>1, <4>1, SameNet DEF sent, PutsOf
    <3>2. start_q' = [d \in Queues |-> m_q[d]]
      BY <1>1, <1>2, <3>1, SameNet DEF start_q
    <3>3. QED
      BY <3>2 DEF IInv, TypeOK
  <2>4. Len(log') = 0 /\ 0 .. 0 = {0} /\ 1 .. 0 = {}
    BY <1>1
  <2>5. q[0] = m_q' /\ lv[0] = level' /\ take[0] = m_edge_take'
    BY <2>2
  <2>6. Seen(q[0], lv[0], take[0])'
    BY <2>5, <1>13 DEF SeenNow
  <2>7. /\ q \in [{0} -> [Queues -> Seq(Entry)]]
        /\ lv \in [{0} -> [Levels -> LevelType]]
        /\ take \in [{0} -> [Queues -> Nat]]
    BY <1>1, <2>2, <2>4 DEF IInv, TypeOK
  <2>8. Unwinds(q, lv, take)'
    BY <1>1, <1>2, <2>3, <2>4, <2>5, <2>6, <2>7, SameNet DEF Unwinds
  <2>9. QED
    BY <2>8
<1>15. QED
  BY <1>1, <1>6, <1>7, <1>8, <1>9, <1>10, <1>11, <1>12, <1>13, <1>14, SameNet
     DEF IInv, Puts, Reads

LEMMA EndStepKeeps ==
  ASSUME IInv, EndStep
  PROVE  IInv'
<1>1. /\ net' = net /\ net \in Nets /\ phase = "body" /\ running # Proc
      /\ running \in Steps
      /\ UNCHANGED <<m_q, m_edge_put, m_edge_take, level, reported, s, m_saved, stalled,
                     due, q0, lv0, wr, rd, wr0, rd0>>
  BY DEF IInv, Control, TypeOK, EndStep
<1>2. EdgeKept
  BY <1>1 DEF EdgeKept
<1>3. SeenNow'
  BY <1>1, <1>2, SeenNowKept DEF IInv
<1>4. Room'
  BY <1>1, RoomKept, SameNet DEF IInv, Room
<1>5. CASE stalled
  <2>1. phase' = "undo" /\ UNCHANGED <<running, log, m_sent, pre, since, broken>>
    BY <1>5 DEF EndStep
  <2>2. TypeOK' /\ SeenTypes'
    BY <1>1, <2>1, SameNet DEF IInv, TypeOK, SeenTypes
  <2>3. Control'
    BY <1>1, <1>5, <2>1, SameNet DEF IInv, Control
  <2>4. Puts' /\ Reports'
    BY <1>1, <2>1, PutsKept, ReportsKept, SameNet DEF IInv, Reports
  <2>5. ASSUME NEW d \in Queues PROVE ReadsOf(d)'
    <3>1. ReadsOf(d)
      BY QueueTypes
    <3>2. QED
      BY <1>1, <2>1, <3>1, SameNet DEF ReadsOf
  <2>6. Began'
    BY <1>1, <2>1, SameNet DEF IInv, Began
  <2>7. History'
    BY <1>1, <1>2, <2>1, HistoryKept DEF IInv
  <2>8. QED
    BY <1>1, <1>3, <1>4, <2>2, <2>3, <2>4, <2>5, <2>6, <2>7, SameNet DEF IInv, Reads
<1>6. CASE ~stalled
  <2>1. /\ phase' = "idle" /\ running' = Proc /\ log' = <<>>
        /\ m_sent' = [c \in Streams |-> IF m_sent[c] = running THEN Proc ELSE m_sent[c]]
        /\ since' = [c \in Streams |-> IF Prod[c] = running THEN 0 ELSE since[c]]
        /\ broken' = [c \in Valids |->
             broken[c] \/ (/\ Prod[c] = running /\ wr[c] # "idle"
                           /\ Len(q0[c]) >= DEPTH[c])]
    BY <1>6 DEF EndStep
  <2>2. TypeOK'
    <3>1. m_sent' \in [Streams -> Steps \cup {Proc}] /\ log' \in Seq(UndoType)
      BY <2>1 DEF IInv, TypeOK
    <3>2. QED
      BY <1>1, <2>1, <3>1, SameNet DEF IInv, TypeOK
  <2>3. SeenTypes'
    <3>1. since' \in [Streams -> Nat]
      BY <2>1 DEF IInv, SeenTypes
    <3>2. broken' \in [Valids -> BOOLEAN]
      BY <2>1 DEF IInv, SeenTypes
    <3>3. QED
      BY <1>1, <3>1, <3>2, SameNet DEF IInv, SeenTypes
  <2>4. Control'
    <3>1. Proc \notin due
      BY <1>1, NetFacts DEF IInv, TypeOK
    <3>2. QED
      BY <1>1, <1>6, <2>1, <3>1, SameNet DEF IInv, Control
  <2>5. ASSUME NEW d \in Streams PROVE PutsOf(d)'
    <3>1. PutsOf(d)
      BY DEF IInv, Puts
    <3>2. /\ m_sent'[d] = IF m_sent[d] = running THEN Proc ELSE m_sent[d]
          /\ since'[d] = IF Prod[d] = running THEN 0 ELSE since[d]
      BY <2>1
    <3>3. QED
      BY <1>1, <2>1, <3>1, <3>2, SameNet DEF PutsOf
  <2>6. ASSUME NEW d \in Valids PROVE ReportsOf(d)'
    <3>1. ReportsOf(d)
      BY DEF IInv, Reports
    <3>2. broken'[d] => broken[d] \/ (wr[d] # "idle" /\ Len(q0[d]) >= DEPTH[d])
      BY <2>1
    <3>3. QED
      BY <1>1, <3>1, <3>2, SameNet DEF ReportsOf
  <2>7. ASSUME NEW d \in Queues PROVE ReadsOf(d)'
    <3>1. ReadsOf(d)
      BY QueueTypes
    <3>2. QED
      BY <1>1, <2>1, <3>1, SameNet DEF ReadsOf
  <2>8. Began' /\ History'
    BY <1>1, <2>1, NetFacts, SameNet DEF Began, History
  <2>9. QED
    BY <1>1, <1>3, <1>4, <2>2, <2>3, <2>4, <2>5, <2>6, <2>7, <2>8, SameNet
       DEF IInv, Puts, Reads, Reports
<1>7. QED
  BY <1>5, <1>6

\* Once the log is used up, everything is as when the step began.
LEMMA Unwound ==
  ASSUME History, running \in Atomic, log = <<>>
  PROVE  m_q = start_q /\ level = pre.lv /\ m_edge_take = pre.take
<1>1. PICK q, lv, take : Unwinds(q, lv, take)
  BY DEF History
<1>2. Len(log) = 0
  OBVIOUS
<1>3. QED
  BY <1>1, <1>2 DEF Unwinds

LEMMA RestoreKeeps ==
  ASSUME IInv, Restore
  PROVE  IInv'
<1>1. /\ net' = net /\ net \in Nets /\ running \in Atomic /\ running \in Steps
      /\ running # Proc /\ log = <<>> /\ phase = "undo"
      /\ phase' = "idle" /\ running' = Proc
      /\ UNCHANGED <<m_q, m_edge_put, m_edge_take, m_sent, level, reported, m_saved,
                     log, due, q0, lv0, wr, wr0, rd0, since, broken>>
  BY NetFacts DEF IInv, Control, Restore
<1>2. stalled' \in BOOLEAN /\ ~stalled'
  BY DEF Restore
<1>3. rd' = [d \in Queues |-> IF Cons[d] = running THEN "idle" ELSE rd[d]]
  BY DEF Restore
<1>4. EdgeKept
  BY <1>1 DEF EdgeKept
<1>5. TypeOK'
  <2>1. s' \in [Steps -> Val]
    BY <1>1 DEF IInv, TypeOK, Restore
  <2>2. QED
    BY <1>1, <1>2, <2>1, SameNet DEF IInv, TypeOK
<1>6. SeenTypes'
  <2>1. rd' \in [Queues -> Val \cup {"idle", "empty"}]
    BY <1>3 DEF IInv, SeenTypes
  <2>2. QED
    BY <1>1, <2>1, SameNet DEF IInv, SeenTypes
<1>7. Control'
  <2>1. Proc \notin due
    BY <1>1, NetFacts DEF IInv, TypeOK
  <2>2. QED
    BY <1>1, <1>2, <2>1, SameNet DEF IInv, Control
<1>8. ASSUME NEW d \in Streams PROVE PutsOf(d)'
  <2>1. PutsOf(d)
    BY DEF IInv, Puts
  <2>2. QED
    BY <1>1, <2>1, SameNet DEF PutsOf
<1>9. Room' /\ Reports'
  BY <1>1, RoomKept, ReportsKept, SameNet DEF IInv, Room, Reports
<1>10. ASSUME NEW d \in Queues PROVE ReadsOf(d)'
  <2>1. CASE Cons[d] = running
    <3>1. m_edge_take[d] = 0
      BY <1>1, <2>1, Unwound DEF IInv, Began
    <3>2. rd'[d] = "idle" /\ "idle" \notin Val /\ MaxTake \in Nat
      BY <1>1, <1>3, <2>1, NetFacts, StepAssumption
    <3>3. QED
      BY <1>1, <3>1, <3>2, SameNet DEF ReadsOf
  <2>2. CASE Cons[d] # running
    <3>1. ReadsOf(d) /\ rd'[d] = rd[d]
      BY <1>3, <2>2, QueueTypes
    <3>2. QED
      BY <1>1, <2>2, <3>1, SameNet DEF ReadsOf
  <2>3. QED
    BY <2>1, <2>2
<1>11. Began' /\ History'
  BY <1>1, NetFacts, SameNet DEF Began, History
<1>12. SeenNow'
  BY <1>1, <1>4, SeenNowKept DEF IInv
<1>13. QED
  BY <1>1, <1>5, <1>6, <1>7, <1>8, <1>9, <1>10, <1>11, <1>12, SameNet
     DEF IInv, Puts, Reads

------------------------------------------------------------------------------
(* The calls a body makes.                                                 *)

\* The log with one more record, or none of a step that keeps no log.
LEMMA Recorded ==
  ASSUME IInv, NEW u \in UndoType, record(u), net' = net,
         u.op = "take" => Cons[u.c] = running,
         UNCHANGED <<phase, running, due, stalled>>
  PROVE  log' \in Seq(UndoType) /\ Control'
<1>1. log' = IF running \in Atomic THEN Append(log, u) ELSE log
  BY DEF record, atomic
<1>2. log \in Seq(UndoType)
  BY DEF IInv, TypeOK
<1>3. log' \in Seq(UndoType)
  BY <1>1, <1>2
<1>4. CASE running \in Atomic
  <2>1. /\ Len(log') = Len(log) + 1 /\ log'[Len(log) + 1] = u /\ Len(log) \in Nat
        /\ \A i \in 1 .. Len(log) : log'[i] = log[i]
    BY <1>1, <1>2, <1>4
  <2>2. ASSUME NEW i \in 1 .. Len(log'), log'[i].op = "take" PROVE Cons[log'[i].c] = running
    <3>1. i \in 1 .. Len(log) \/ i = Len(log) + 1
      BY <2>1
    <3>2. QED
      BY <2>1, <2>2, <3>1 DEF IInv, Control
  <2>3. phase # "idle"
    BY <1>4, NetFacts DEF IInv, Control
  <2>4. QED
    BY <1>3, <1>4, <2>2, <2>3, SameNet DEF IInv, Control
<1>5. CASE running \notin Atomic
  <2>1. log' = log
    BY <1>1, <1>5
  <2>2. QED
    BY <1>3, <2>1, ControlKept DEF IInv
<1>6. QED
  BY <1>4, <1>5

\* The history, after a call that keeps a record which undoes it.
LEMMA RecordedHistory ==
  ASSUME IInv, NEW u, record(u), EdgeKept,
         UNCHANGED <<running, pre>>,
         BackQ(u, m_q') = m_q, BackLv(u, level') = level,
         BackTake(u, m_edge_take') = m_edge_take,
         m_q' \in [Queues -> Seq(Entry)], level' \in [Levels -> LevelType],
         m_edge_take' \in [Queues -> Nat], SeenNow'
  PROVE  History'
<1>1. CASE running \in Atomic
  <2>1. log' = Append(log, u)
    BY <1>1 DEF record, atomic
  <2>2. QED
    BY <2>1, HistoryExtended DEF IInv
<1>2. CASE running \notin Atomic
  BY <1>2, SameNet DEF History, EdgeKept
<1>3. QED
  BY <1>1, <1>2

LEMMA LevelSetKeeps ==
  ASSUME IInv, NEW c \in Levels, NEW v \in Val, LevelSet(c, v)
  PROVE  IInv'
<1> DEFINE u == [op |-> "set", c |-> c, e |-> level[c]]
<1>1. /\ net' = net /\ net \in Nets /\ record(u)
      /\ UNCHANGED <<m_q, m_edge_put, m_edge_take, m_sent, reported, s, m_saved,
                     running, stalled, phase, due, q0, lv0, wr, rd, wr0, rd0, pre,
                     since, broken>>
  BY DEF IInv, LevelSet, seen
<1>2. /\ level \in [Levels -> LevelType] /\ level[c] \in LevelType
      /\ m_q \in [Queues -> Seq(Entry)] /\ m_edge_take \in [Queues -> Nat]
  BY DEF IInv, TypeOK
<1>3. u \in UndoType
  BY <1>2 DEF UndoType
<1>4. /\ level' = [level EXCEPT ![c] = [value |-> v, prev |-> previous(@), now |-> TRUE]]
      /\ level'[c] = [value |-> v, prev |-> previous(level[c]), now |-> TRUE]
      /\ \A d \in Levels : d # c => level'[d] = level[d]
  BY <1>2 DEF LevelSet
<1>5. previous(level[c]) \in Val /\ previous(level[c]) = lv0[c]
  <2>1. SeenLevel(c, level[c])
    BY DEF IInv, SeenNow, Seen
  <2>2. QED
    BY <1>2, <2>1 DEF previous, SeenLevel, LevelType
<1>6. level' \in [Levels -> LevelType]
  <2>1. level'[c] \in LevelType
    <3>1. ASSUME NEW w \in Val PROVE [value |-> v, prev |-> w, now |-> TRUE] \in LevelType
      BY DEF LevelType
    <3>2. QED
      BY <3>1, <1>4, <1>5
  <2>2. QED
    BY <1>2, <1>4, <2>1
<1>7. EdgeKept
  BY <1>1 DEF EdgeKept
<1>8. SeenNow'
  <2>1. PICK lv : lv = level'
    OBVIOUS
  <2>2. ASSUME NEW d \in Levels PROVE SeenLevel(d, lv[d])
    BY <2>1, <1>4, <1>5 DEF IInv, SeenNow, Seen, SeenLevel
  <2>3. PICK q, take : q = m_q /\ take = m_edge_take
    OBVIOUS
  <2>4. Seen(q, lv, take)
    BY <2>2, <2>3 DEF IInv, SeenNow, Seen
  <2>5. Seen(q, lv, take)'
    BY <2>4, <1>7, SeenKept
  <2>6. QED
    BY <1>1, <2>1, <2>3, <2>5 DEF SeenNow
<1>9. log' \in Seq(UndoType) /\ Control'
  BY <1>1, <1>3, Recorded
<1>10. TypeOK' /\ SeenTypes'
  BY <1>1, <1>6, <1>9, SameNet DEF IInv, TypeOK, SeenTypes
<1>11. Puts' /\ Room' /\ Reads' /\ Reports' /\ Began'
  BY <1>1, PutsKept, RoomKept, ReadsKept, ReportsKept, BeganKept, SameNet
     DEF IInv, Room, Reads, Reports
<1>12. History'
  <2>1. BackLv(u, level') = level
    <3>1. [level' EXCEPT ![c] = level[c]] = level
      BY <1>2, <1>4, <1>6
    <3>2. QED
      BY <3>1 DEF BackLv
  <2>2. BackQ(u, m_q') = m_q /\ BackTake(u, m_edge_take') = m_edge_take
    BY <1>1 DEF BackQ, BackTake
  <2>3. QED
    BY <1>1, <1>2, <1>6, <1>7, <1>8, <2>1, <2>2, RecordedHistory
<1>13. QED
  BY <1>1, <1>8, <1>9, <1>10, <1>11, <1>12 DEF IInv

LEMMA ValidPutKeeps ==
  ASSUME IInv, NEW c \in Valids, NEW v \in Val, ValidPut(c, v)
  PROVE  IInv'
<1> DEFINE u == [op |-> "put", c |-> c]
<1>1. /\ net' = net /\ net \in Nets /\ record(u)
      /\ UNCHANGED <<m_edge_put, m_edge_take, m_sent, level, s, m_saved, running, stalled,
                     phase, due, q0, lv0, rd, wr0, rd0, pre, since, broken>>
  BY DEF IInv, ValidPut
<1>2. /\ c \in Queues /\ c \notin Streams /\ stamped(v) \in Entry /\ stamped(v).now
      /\ m_q \in [Queues -> Seq(Entry)] /\ m_edge_take \in [Queues -> Nat]
      /\ level \in [Levels -> LevelType]
  BY <1>1, NetFacts, StampedEntry DEF IInv, TypeOK
<1>3. /\ m_q' = [m_q EXCEPT ![c] = Append(@, stamped(v))]
      /\ m_q' \in [Queues -> Seq(Entry)] /\ m_q'[c] = Append(m_q[c], stamped(v))
      /\ \A d \in Queues : d # c => m_q'[d] = m_q[d]
  BY <1>2 DEF ValidPut
<1>4. /\ wr' \in [Queues -> Val \cup {"idle", "refused"}]
      /\ \A d \in Queues : d # c => wr'[d] = wr[d]
  BY <1>2 DEF ValidPut, IInv, SeenTypes
<1>5. EdgeKept
  BY <1>1, <1>2, <1>4, NetFacts DEF EdgeKept
<1>6. SeenNow'
  <2>1. SeenQueue(c, m_q[c], m_edge_take[c]) /\ q0[c] \in Seq(Val)
    BY <1>2, QueueTypes
  <2>2. Cons[c] # Proc => Shape(q0[c], m_q'[c], m_edge_take[c])
    BY <2>1, <1>2, <1>3, ShapePut DEF SeenQueue
  <2>3. SeenQueue(c, m_q'[c], m_edge_take'[c])
    BY <2>1, <2>2, <1>1, <1>2 DEF SeenQueue
  <2>4. QED
    BY <2>3, <1>1, <1>2, <1>3, <1>5, SeenNowOfQueue DEF IInv
<1>7. /\ reported' \in [Valids -> BOOLEAN]
      /\ \A d \in Valids : d # c => reported'[d] = reported[d]
      /\ reported'[c] <=> reported[c] \/ counted(c) >= DEPTH[c]
  <2>1. reported' = [reported EXCEPT ![c] = @ \/ counted(c) >= DEPTH[c]]
    BY DEF ValidPut
  <2>2. reported \in [Valids -> BOOLEAN]
    BY DEF IInv, TypeOK
  <2>3. QED
    BY <2>1, <2>2
<1>8. log' \in Seq(UndoType) /\ Control'
  <2>1. u \in UndoType
    BY DEF UndoType
  <2>2. QED
    BY <2>1, <1>1, Recorded
<1>9. TypeOK' /\ SeenTypes'
  BY <1>1, <1>3, <1>4, <1>7, <1>8, SameNet DEF IInv, TypeOK, SeenTypes
<1>10. Puts' /\ Began'
  BY <1>1, PutsKept, BeganKept DEF IInv
<1>11. ASSUME NEW d \in Streams PROVE RoomOf(d)'
  <2>1. d \in Queues /\ d # c /\ RoomOf(d)
    BY <1>2 DEF IInv, Room, Queues
  <2>2. QED
    BY <2>1, <1>1, <1>3, <1>4, RoomKept
<1>12. Reads'
  BY <1>1, ReadsKept, SameNet DEF IInv, Reads
<1>13. ASSUME NEW d \in Valids PROVE ReportsOf(d)'
  <2>1. ReportsOf(d) /\ d \in Queues
    BY DEF IInv, Reports, Queues
  <2>2. CASE d # c
    BY <2>1, <2>2, <1>1, <1>4, <1>7, ReportsKept
  <2>3. CASE d = c
    <3>1. ASSUME Between(c), Len(q0[c]) >= DEPTH[c] PROVE counted(c) >= DEPTH[c]
      <4>1. active
        BY <3>1 DEF ValidPut, Between, active
      <4>2. /\ Shape(q0[c], m_q[c], m_edge_take[c]) /\ DEPTH[c] \in Nat
            /\ Len(q0[c]) \in Nat /\ Len(m_q[c]) \in Nat /\ m_edge_take[c] \in Nat
        BY <1>2, <3>1, QueueTypes DEF SeenQueue, Between
      <4>3. Len(q0[c]) - m_edge_take[c] <= Len(m_q[c])
        BY <4>2 DEF Shape
      <4>4. counted(c) = Len(m_q[c]) + m_edge_take[c]
        BY <4>1 DEF counted
      <4>5. QED
        BY <3>1, <4>2, <4>3, <4>4
    <3>2. QED
      BY <3>1, <2>1, <2>3, <1>1, <1>7, SameNet DEF ReportsOf
  <2>4. QED
    BY <2>2, <2>3
<1>14. History'
  <2>1. BackQ(u, m_q') = m_q
    <3>1. m_q[c] \in Seq(Entry) /\ SubSeq(m_q'[c], 1, Len(m_q'[c]) - 1) = m_q[c]
      BY <1>2, <1>3, LastDropped
    <3>2. [m_q' EXCEPT ![c] = SubSeq(@, 1, Len(@) - 1)] = m_q
      BY <3>1, <1>2, <1>3
    <3>3. QED
      BY <3>2 DEF BackQ
  <2>2. BackLv(u, level') = level /\ BackTake(u, m_edge_take') = m_edge_take
    BY <1>1 DEF BackLv, BackTake
  <2>3. QED
    BY <2>1, <2>2, <1>1, <1>2, <1>3, <1>5, <1>6, RecordedHistory
<1>15. QED
  BY <1>1, <1>6, <1>8, <1>9, <1>10, <1>11, <1>12, <1>13, <1>14, SameNet
     DEF IInv, Room, Reports

LEMMA PutOrStallKeeps ==
  ASSUME IInv, NEW c \in Streams, NEW v \in Val, PutOrStall(c, v)
  PROVE  IInv'
<1>1. /\ net' = net /\ net \in Nets /\ phase = "body" /\ running = Prod[c]
      /\ running \in Atomic /\ running # Proc /\ m_sent[c] = Proc
      /\ UNCHANGED <<m_edge_take, level, reported, s, m_saved, running, log, phase,
                     due, q0, lv0, rd, wr0, rd0, pre, broken>>
  BY NetFacts DEF IInv, Control, PutOrStall, atomic, unsent
<1>2. c \in Queues /\ c \notin Valids
  BY <1>1, NetFacts
<1>3. /\ PutsOf(c) /\ RoomOf(c) /\ m_edge_put[c] = 0 /\ since[c] = 0
  BY <1>1 DEF IInv, Puts, Room, PutsOf
<1>4. Between(c) => held(c) = Len(q0[c])
  <2>1. ASSUME Between(c) PROVE Len(m_q[c]) + m_edge_take[c] = Len(q0[c])
    BY <2>1, <1>2, <1>3, QueueTypes DEF SeenQueue
  <2>2. QED
    BY <2>1, <1>2, <1>3, QueueTypes DEF held
<1>5. Cons[c] = Proc => held(c) = Len(m_q[c])
  BY <1>2, <1>3, QueueTypes DEF held, SeenQueue
<1>6. wr \in [Queues -> Val \cup {"idle", "refused"}] /\ "refused" \notin Val /\ "idle" \notin Val
  BY StepAssumption DEF IInv, SeenTypes
<1>7. Reads' /\ Began'
  BY <1>1, ReadsKept, BeganKept, SameNet DEF IInv, Reads
<1>8. CASE held(c) >= DEPTH[c] /\ stalled' = TRUE /\ wr' = [wr EXCEPT ![c] = "refused"]
           /\ UNCHANGED <<m_q, m_edge_put, m_sent, since>>
  <2>1. EdgeKept
    BY <1>1, <1>2, <1>3, <1>6, <1>8 DEF EdgeKept
  <2>2. TypeOK'
    BY <1>1, <1>8, SameNet DEF IInv, TypeOK
  <2>3. SeenTypes'
    <3>1. wr' \in [Queues -> Val \cup {"idle", "refused"}]
      BY <1>2, <1>6, <1>8
    <3>2. QED
      BY <3>1, <1>1, <1>8, SameNet DEF IInv, SeenTypes
  <2>4. Control'
    BY <1>1, <1>8, SameNet DEF IInv, Control
  <2>5. Puts'
    BY <1>1, <1>8, PutsKept DEF IInv
  <2>6. ASSUME NEW d \in Streams PROVE RoomOf(d)'
    <3>1. CASE d = c
      <4>1. wr'[c] = "refused"
        BY <1>2, <1>6, <1>8
      <4>2. QED
        BY <3>1, <4>1, <1>1, <1>3, <1>4, <1>6, <1>8, SameNet DEF RoomOf
    <3>2. CASE d # c
      <4>1. RoomOf(d) /\ wr'[d] = wr[d]
        BY <3>2, <1>6, <1>8 DEF IInv, Room, Queues
      <4>2. QED
        BY <4>1, <1>1, <1>8, RoomKept
    <3>3. QED
      BY <3>1, <3>2
  <2>7. ASSUME NEW d \in Valids PROVE ReportsOf(d)'
    <3>1. ReportsOf(d) /\ wr'[d] = wr[d]
      BY <1>2, <1>6, <1>8 DEF IInv, Reports, Queues
    <3>2. QED
      BY <3>1, <1>1, ReportsKept
  <2>8. SeenNow' /\ History'
    BY <2>1, <1>1, <1>8, SeenNowKept, HistoryKept DEF IInv
  <2>9. QED
    BY <1>1, <1>7, <2>2, <2>3, <2>4, <2>5, <2>6, <2>7, <2>8, SameNet DEF IInv, Room, Reports
<1>9. CASE /\ held(c) < DEPTH[c]
           /\ m_q' = [m_q EXCEPT ![c] = Append(@, stamped(v))]
           /\ m_edge_put' = [m_edge_put EXCEPT ![c] = @ + 1]
           /\ m_sent' = [m_sent EXCEPT ![c] = running]
           /\ wr' = [wr EXCEPT ![c] = v]
           /\ since' = [since EXCEPT ![c] = @ + 1]
           /\ UNCHANGED stalled
  <2>1. SentTo(c, v)
    BY <1>1, <1>3, <1>9 DEF SentTo
  <2>2. /\ m_q'[c] = Append(m_q[c], stamped(v)) /\ m_q' \in [Queues -> Seq(Entry)]
        /\ Len(m_q'[c]) = Len(m_q[c]) + 1
        /\ m_edge_put' \in [Queues -> Nat] /\ m_edge_put'[c] = 1
        /\ wr' \in [Queues -> Val \cup {"idle", "refused"}] /\ wr'[c] = v
        /\ \A d \in Queues : d # c => /\ m_q'[d] = m_q[d] /\ wr'[d] = wr[d]
                                      /\ m_edge_put'[d] = m_edge_put[d]
    BY <1>2, <1>3, <1>6, <1>9, StampedEntry DEF IInv, TypeOK
  <2>3. /\ m_sent' \in [Streams -> Steps \cup {Proc}] /\ m_sent'[c] = Prod[c]
        /\ since' \in [Streams -> Nat] /\ since'[c] = 1
        /\ \A d \in Streams : d # c => m_sent'[d] = m_sent[d] /\ since'[d] = since[d]
    BY <1>1, <1>3, <1>9 DEF IInv, TypeOK, SeenTypes
  <2>4. TypeOK' /\ SeenTypes'
    BY <2>2, <2>3, <1>1, <1>9, SameNet DEF IInv, TypeOK, SeenTypes
  <2>5. Control'
    BY <1>1, <1>9, ControlKept DEF IInv
  <2>6. ASSUME NEW d \in Streams PROVE PutsOf(d)'
    <3>1. CASE d = c
      <4>1. Prod[c] \notin due
        BY <1>1 DEF IInv, Control
      <4>2. QED
        BY <3>1, <4>1, <2>2, <2>3, <1>1, SameNet DEF PutsOf
    <3>2. CASE d # c
      <4>1. PutsOf(d) /\ m_edge_put'[d] = m_edge_put[d]
        BY <3>2, <2>2 DEF IInv, Puts, Queues
      <4>2. QED
        BY <3>2, <4>1, <2>3, <1>1, SameNet DEF PutsOf
    <3>3. QED
      BY <3>1, <3>2
  <2>7. ASSUME NEW d \in Streams PROVE RoomOf(d)'
    <3>1. CASE d = c
      <4>1. Cons[c] = Proc => Len(m_q'[c]) <= DEPTH[c]
        BY <1>2, <1>5, <1>9, <2>2, QueueTypes
      <4>2. QED
        BY <3>1, <4>1, <2>2, <1>1, <1>2, <1>3, <1>4, <1>6, <1>9, QueueTypes, SameNet
           DEF RoomOf
    <3>2. CASE d # c
      <4>1. RoomOf(d) /\ d \in Queues
        BY DEF IInv, Room, Queues
      <4>2. QED
        BY <3>2, <4>1, <2>2, <1>1, RoomKept
    <3>3. QED
      BY <3>1, <3>2
  <2>8. ASSUME NEW d \in Valids PROVE ReportsOf(d)'
    <3>1. ReportsOf(d) /\ wr'[d] = wr[d]
      BY <1>2, <2>2 DEF IInv, Reports, Queues
    <3>2. QED
      BY <3>1, <1>1, ReportsKept
  <2>9. SeenNow'
    <3>1. PICK q, lv, take : q = m_q /\ lv = level /\ take = m_edge_take
      OBVIOUS
    <3>2. /\ q \in [Queues -> Seq(Entry)] /\ take \in [Queues -> Nat]
          /\ Seen(q, lv, take) /\ Prod[c] # Proc
      BY <3>1, <1>1 DEF IInv, TypeOK, SeenNow
    <3>3. Seen([q EXCEPT ![c] = Append(@, stamped(v))], lv, take)'
      BY <3>2, <2>1, SeenSent DEF IInv
    <3>4. [q EXCEPT ![c] = Append(@, stamped(v))] = m_q'
      BY <3>1, <1>9
    <3>5. QED
      BY <3>1, <3>3, <3>4, <1>1 DEF SeenNow, stamped
  <2>10. History'
    BY <2>1, <1>1, HistorySent DEF IInv
  <2>11. QED
    BY <1>1, <1>7, <2>4, <2>5, <2>6, <2>7, <2>8, <2>9, <2>10, SameNet
       DEF IInv, Puts, Room, Reports
<1>10. QED
  BY <1>8, <1>9 DEF PutOrStall

LEMMA TryGetKeeps ==
  ASSUME IInv, NEW c \in Queues, TryGet(c)
  PROVE  IInv'
<1>1. /\ net' = net /\ net \in Nets /\ phase = "body" /\ running = Cons[c]
      /\ running \in Steps /\ running # Proc /\ m_edge_take[c] < MaxTake /\ MaxTake \in Nat
      /\ UNCHANGED <<m_edge_put, m_sent, level, reported, m_saved, running, stalled,
                     phase, due, q0, lv0, wr, wr0, rd0, pre, since, broken>>
  BY NetFacts DEF IInv, Control, TypeOK, TryGet
<1>2. EdgeKept
  BY <1>1 DEF EdgeKept
<1>3. /\ SeenQueue(c, m_q[c], m_edge_take[c]) /\ Shape(q0[c], m_q[c], m_edge_take[c])
      /\ ReadsOf(c) /\ rd \in [Queues -> Val \cup {"idle", "empty"}]
  BY <1>1, QueueTypes DEF SeenQueue, IInv, SeenTypes
<1>4. "idle" \notin Val /\ "empty" \notin Val
  BY StepAssumption
<1>5. offered(c) <=> m_q[c] # <<>> /\ ~Head(m_q[c]).now
  BY <1>1 DEF offered, hidden, active
<1>6. Puts' /\ Reports' /\ Began'
  BY <1>1, PutsKept, ReportsKept, BeganKept, SameNet DEF IInv, Reports
<1>7. CASE /\ ~offered(c)
           /\ rd' = [rd EXCEPT ![c] = IF @ = "idle" THEN "empty" ELSE @]
           /\ UNCHANGED <<m_q, m_edge_take, s, log>>
  <2>1. /\ rd' \in [Queues -> Val \cup {"idle", "empty"}]
        /\ rd'[c] = IF rd[c] = "idle" THEN "empty" ELSE rd[c]
        /\ \A d \in Queues : d # c => rd'[d] = rd[d]
    BY <1>3, <1>7
  <2>2. TypeOK' /\ SeenTypes'
    BY <2>1, <1>1, <1>7, SameNet DEF IInv, TypeOK, SeenTypes
  <2>3. Control' /\ Room'
    BY <1>1, <1>7, ControlKept, RoomKept, SameNet DEF IInv, Room
  <2>4. ASSUME NEW d \in Queues PROVE ReadsOf(d)'
    <3>1. CASE d = c
      <4>1. Len(q0[c]) = m_edge_take[c]
        BY <1>3, <1>5, <1>7, QueueTypes, ShapeEmpty
      <4>2. rd[c] = "idle" => q0[c] = <<>>
        BY <4>1, <1>1, <1>3, QueueTypes DEF ReadsOf
      <4>3. Cons[c] \notin due
        BY <1>1 DEF IInv, Control
      <4>4. QED
        BY <3>1, <4>2, <4>3, <2>1, <1>1, <1>3, <1>4, <1>7, SameNet DEF ReadsOf
    <3>2. CASE d # c
      BY <3>2, <2>1, <1>1, <1>7, ReadsKept, QueueTypes
    <3>3. QED
      BY <3>1, <3>2
  <2>5. SeenNow' /\ History'
    BY <1>1, <1>2, <1>7, SeenNowKept, HistoryKept DEF IInv
  <2>6. QED
    BY <1>1, <1>6, <2>2, <2>3, <2>4, <2>5, SameNet DEF IInv, Reads
<1>8. CASE /\ offered(c)
           /\ record([op |-> "take", c |-> c, e |-> Head(m_q[c])])
           /\ m_q' = [m_q EXCEPT ![c] = Tail(@)]
           /\ m_edge_take' = one_more(c)
           /\ s' = [s EXCEPT ![running] = Head(m_q[c]).v]
           /\ rd' = [rd EXCEPT ![c] = IF @ = "idle" THEN Head(m_q[c]).v ELSE @]
  <2> DEFINE u == [op |-> "take", c |-> c, e |-> Head(m_q[c])]
  <2>1. /\ m_q \in [Queues -> Seq(Entry)] /\ m_edge_take \in [Queues -> Nat]
        /\ m_q[c] \in Seq(Entry) /\ m_q[c] # <<>> /\ ~Head(m_q[c]).now
        /\ level \in [Levels -> LevelType]
    BY <1>5, <1>8 DEF IInv, TypeOK
  <2>2. Head(m_q[c]) \in Entry /\ Head(m_q[c]).v \in Val
    BY <2>1, HeadAndTail DEF Entry
  <2>3. /\ m_q' \in [Queues -> Seq(Entry)] /\ m_q'[c] = Tail(m_q[c])
        /\ Len(m_q'[c]) = Len(m_q[c]) - 1 /\ Len(m_q[c]) \in Nat /\ Len(m_q[c]) >= 1
        /\ \A d \in Queues : d # c => m_q'[d] = m_q[d]
    BY <2>1, <1>8, HeadAndTail
  <2>4. /\ m_edge_take' \in [Queues -> Nat] /\ m_edge_take'[c] = m_edge_take[c] + 1
        /\ \A d \in Queues : d # c => m_edge_take'[d] = m_edge_take[d]
    BY <2>1, <1>8 DEF one_more
  <2>5. /\ rd' \in [Queues -> Val \cup {"idle", "empty"}]
        /\ rd'[c] = IF rd[c] = "idle" THEN Head(m_q[c]).v ELSE rd[c]
        /\ \A d \in Queues : d # c => rd'[d] = rd[d]
    BY <1>3, <1>8, <2>2
  <2>6. /\ m_edge_take[c] + 1 <= Len(q0[c]) /\ Head(m_q[c]).v = q0[c][m_edge_take[c] + 1]
        /\ Shape(q0[c], m_q'[c], m_edge_take'[c])
    BY <1>3, <2>1, <2>3, <2>4, QueueTypes, ShapeTaken
  <2>7. SeenQueue(c, m_q'[c], m_edge_take'[c])
    <3>1. ASSUME c \in Streams, Prod[c] = Proc PROVE Len(m_q'[c]) <= DEPTH[c]
      <4>1. Len(m_q[c]) <= DEPTH[c] /\ DEPTH[c] \in Nat
        BY <3>1, StreamFits, QueueTypes
      <4>2. QED
        BY <4>1, <2>3
    <3>2. ASSUME c \in Streams, Between(c)
          PROVE  /\ Len(m_q'[c]) + m_edge_take'[c] = Len(q0[c]) + m_edge_put[c]
                 /\ m_edge_put[c] = 1 => m_q'[c][Len(m_q'[c])] = stamped(wr[c])
      <4>1. /\ Len(m_q[c]) + m_edge_take[c] = Len(q0[c]) + m_edge_put[c]
            /\ m_edge_put[c] = 1 => m_q[c][Len(m_q[c])] = stamped(wr[c])
        BY <1>3, <3>2 DEF SeenQueue
      <4>2. Len(m_q'[c]) + m_edge_take'[c] = Len(q0[c]) + m_edge_put[c]
        <5>1. /\ Len(m_q[c]) \in Nat /\ m_edge_take[c] \in Nat
              /\ Len(m_q'[c]) = Len(m_q[c]) - 1 /\ m_edge_take'[c] = m_edge_take[c] + 1
          BY <2>3, <2>4, QueueTypes
        <5>2. Len(m_q'[c]) + m_edge_take'[c] = Len(m_q[c]) + m_edge_take[c]
          <6>1. \A a, b \in Nat : (a - 1) + (b + 1) = a + b
            OBVIOUS
          <6>2. QED
            BY <5>1, <6>1
        <5>3. QED
          BY <5>2, <4>1
      <4>3. ASSUME m_edge_put[c] = 1 PROVE m_q'[c][Len(m_q'[c])] = stamped(wr[c])
        <5>1. m_q[c][Len(m_q[c])].now
          BY <4>1, <4>3 DEF stamped
        <5>2. Tail(m_q[c])[Len(Tail(m_q[c]))] = m_q[c][Len(m_q[c])]
          BY <5>1, <2>1, LastLeft
        <5>3. QED
          BY <5>2, <4>1, <4>3, <2>3
      <4>4. QED
        BY <4>2, <4>3
    <3>3. QED
      BY <3>1, <3>2, <2>6, <1>1 DEF SeenQueue
  <2>8. SeenNow'
    BY <2>3, <2>4, <2>7, <1>1, <1>2, SeenNowOfQueue DEF IInv
  <2>9. log' \in Seq(UndoType) /\ Control'
    <3>1. u \in UndoType /\ (u.op = "take" => Cons[u.c] = running)
      BY <1>1, <2>2 DEF UndoType
    <3>2. record(u)
      BY <1>8
    <3>3. QED
      BY <3>1, <3>2, <1>1, Recorded
  <2>10. s' \in [Steps -> Val]
    BY <1>8, <2>2 DEF IInv, TypeOK
  <2>11. TypeOK' /\ SeenTypes'
    BY <2>3, <2>4, <2>5, <2>9, <2>10, <1>1, SameNet DEF IInv, TypeOK, SeenTypes
  <2>12. ASSUME NEW d \in Streams PROVE RoomOf(d)'
    <3>1. RoomOf(d) /\ d \in Queues /\ (d = c => Cons[d] # Proc)
      BY <1>1 DEF IInv, Room, Queues
    <3>2. QED
      BY <3>1, <2>3, <1>1, RoomKept
  <2>13. ASSUME NEW d \in Queues PROVE ReadsOf(d)'
    <3>1. CASE d = c
      <4>1. /\ m_edge_take'[c] >= 1 /\ m_edge_take'[c] <= MaxTake
            /\ m_edge_take'[c] # 0 /\ q0[c] # <<>>
        BY <1>1, <2>4, <2>6, QueueTypes
      <4>2. rd[c] = "idle" => rd'[c] = Head(q0[c])
        <5>1. SUFFICES ASSUME rd[c] = "idle" PROVE Head(m_q[c]).v = Head(q0[c])
          BY <2>5
        <5>2. m_edge_take[c] = 0
          BY <5>1, <1>1, <1>3 DEF ReadsOf
        <5>3. QED
          BY <5>2, <4>1, <2>6, QueueTypes
      <4>3. Cons[c] \notin due
        BY <1>1 DEF IInv, Control
      <4>4. rd[c] \in Val => rd[c] = Head(q0[c])
        BY <1>1, <1>3 DEF ReadsOf
      <4>5. rd[c] # "empty"
        BY <1>1, <1>3, <4>1 DEF ReadsOf
      <4>6. rd'[c] # "idle" /\ rd'[c] # "empty" /\ rd'[c] = Head(q0[c])
        BY <4>2, <4>4, <4>5, <2>2, <2>5, <1>3, <1>4
      <4>7. QED
        BY <3>1, <4>1, <4>3, <4>6, <1>1, SameNet DEF ReadsOf
    <3>2. CASE d # c
      BY <3>2, <2>4, <2>5, <1>1, ReadsKept, QueueTypes
    <3>3. QED
      BY <3>1, <3>2
  <2>14. History'
    <3>1. BackQ(u, m_q') = m_q
      <4>1. <<Head(m_q[c])>> \o m_q'[c] = m_q[c]
        BY <2>1, <2>3, HeadAndTail
      <4>2. [m_q' EXCEPT ![c] = <<Head(m_q[c])>> \o @] = m_q
        BY <4>1, <2>1, <2>3
      <4>3. QED
        BY <4>2 DEF BackQ
    <3>2. BackTake(u, m_edge_take') = m_edge_take
      <4>1. [m_edge_take' EXCEPT ![c] = @ - 1] = m_edge_take
        BY <2>1, <2>4
      <4>2. QED
        BY <4>1 DEF BackTake
    <3>3. BackLv(u, level') = level
      BY <1>1 DEF BackLv
    <3>4. record(u)
      BY <1>8
    <3>5. QED
      BY <3>1, <3>2, <3>3, <3>4, <1>1, <1>2, <2>1, <2>3, <2>4, <2>8, RecordedHistory
  <2>15. QED
    BY <1>1, <1>6, <2>8, <2>9, <2>11, <2>12, <2>13, <2>14, SameNet DEF IInv, Room, Reads
<1>9. QED
  BY <1>7, <1>8 DEF TryGet

------------------------------------------------------------------------------
(* The undo of one effect.                                                 *)

LEMMA UndoKeeps ==
  ASSUME IInv, Undo
  PROVE  IInv'
<1> DEFINE u == log[Len(log)]
<1>1. /\ net' = net /\ net \in Nets /\ phase = "undo" /\ log # <<>>
      /\ running \in Atomic /\ running # Proc
      /\ log' = SubSeq(log, 1, Len(log) - 1)
      /\ UNCHANGED <<m_edge_put, m_sent, reported, s, m_saved, running, stalled, phase,
                     due, q0, lv0, rd, wr0, rd0, pre, since, broken>>
  BY NetFacts DEF IInv, Control, Undo
<1>2. /\ log \in Seq(UndoType) /\ u \in UndoType
      /\ log' \in Seq(UndoType) /\ Len(log') = Len(log) - 1 /\ Len(log) \in Nat
      /\ \A n \in 1 .. Len(log) - 1 : log'[n] = log[n]
      /\ Len(log) \in 1 .. Len(log)
  <2>1. log \in Seq(UndoType)
    BY DEF IInv, TypeOK
  <2>2. /\ Len(log) \in Nat /\ Len(log) >= 1
        /\ log' \in Seq(UndoType) /\ Len(log') = Len(log) - 1
        /\ \A n \in 1 .. Len(log) - 1 : log'[n] = log[n]
    BY <2>1, <1>1, Front
  <2>3. Len(log) \in 1 .. Len(log)
    BY <2>2
  <2>4. QED
    BY <2>1, <2>2, <2>3
<1>3. /\ m_q' = BackQ(u, m_q) /\ level' = BackLv(u, level)
      /\ m_edge_take' = BackTake(u, m_edge_take)
  BY DEF Undo, BackQ, BackLv, BackTake
<1>4. /\ wr' \in [Queues -> Val \cup {"idle", "refused"}]
      /\ \A d \in Streams : wr'[d] = wr[d]
      /\ \A d \in Queues : wr'[d] = wr[d] \/ wr'[d] = "idle"
  <2>1. wr \in [Queues -> Val \cup {"idle", "refused"}]
    BY DEF IInv, SeenTypes
  <2>2. CASE u.op = "put"
    <3>1. u.c \in Valids /\ u.c \in Queues /\ u.c \notin Streams /\ Streams \subseteq Queues
      BY <2>2, <1>1, <1>2, NetFacts DEF UndoType, Queues
    <3>2. wr' = [wr EXCEPT ![u.c] = "idle"]
      BY <2>2 DEF Undo
    <3>3. QED
      BY <2>1, <3>1, <3>2
  <2>3. CASE u.op # "put"
    <3>1. wr' = wr
      BY <2>3 DEF Undo
    <3>2. QED
      BY <2>1, <3>1
  <2>4. QED
    BY <2>2, <2>3
<1>5. EdgeKept
  BY <1>1, <1>4 DEF EdgeKept
<1>6. /\ History' /\ SeenNow'
      /\ m_q' \in [Queues -> Seq(Entry)] /\ level' \in [Levels -> LevelType]
      /\ m_edge_take' \in [Queues -> Nat]
  BY <1>1, <1>3, <1>5, HistoryUndone DEF IInv
<1>7. TypeOK'
  BY <1>1, <1>2, <1>6, SameNet DEF IInv, TypeOK
<1>8. SeenTypes'
  BY <1>1, <1>4, SameNet DEF IInv, SeenTypes
<1>9. Control'
  <2>1. ASSUME NEW n \in 1 .. Len(log'), log'[n].op = "take"
        PROVE  Cons[log'[n].c] = running
    <3>1. n \in 1 .. Len(log) /\ log'[n] = log[n]
      BY <1>2
    <3>2. QED
      BY <2>1, <3>1 DEF IInv, Control
  <2>2. QED
    BY <2>1, <1>1, SameNet DEF IInv, Control
<1>10. Puts' /\ Began'
  BY <1>1, PutsKept, BeganKept DEF IInv
<1>11. ASSUME NEW d \in Streams PROVE RoomOf(d)'
  <2>1. d \in Queues /\ d \notin Valids /\ RoomOf(d)
    BY <1>1, NetFacts DEF IInv, Room
  <2>2. CASE Cons[d] # Proc
    BY <2>1, <2>2, <1>1, <1>4, RoomKept
  <2>3. CASE Cons[d] = Proc
    <3>1. ~(u.op \in {"take", "put"} /\ u.c = d)
      BY <2>1, <2>3, <1>1, <1>2 DEF IInv, Control, UndoType
    <3>2. m_q'[d] = m_q[d]
      BY <3>1, <1>3, <2>1 DEF BackQ, IInv, TypeOK
    <3>3. QED
      BY <2>1, <3>2, <1>1, <1>4, RoomKept
  <2>4. QED
    BY <2>2, <2>3
<1>12. ASSUME NEW d \in Queues PROVE ReadsOf(d)'
  <2>1. ReadsOf(d) /\ m_edge_take[d] \in Nat /\ m_edge_take'[d] \in Nat
    BY <1>6, QueueTypes
  <2>2. CASE u.op = "take" /\ u.c = d
    <3>1. m_edge_take'[d] = m_edge_take[d] - 1 /\ MaxTake \in Nat
      BY <2>2, <1>1, <1>3, NetFacts DEF BackTake, IInv, TypeOK
    <3>2. Cons[d] = running
      BY <2>2, <1>2 DEF IInv, Control
    <3>3. m_edge_take[d] # 0
      BY <2>1, <3>1
    <3>4. m_edge_take[d] <= MaxTake => m_edge_take'[d] <= MaxTake
      BY <2>1, <3>1
    <3>5. QED
      BY <2>1, <3>2, <3>3, <3>4, <1>1, SameNet DEF ReadsOf
  <2>3. CASE ~(u.op = "take" /\ u.c = d)
    <3>1. m_edge_take'[d] = m_edge_take[d]
      BY <2>3, <1>3 DEF BackTake, IInv, TypeOK
    <3>2. QED
      BY <2>1, <3>1, <1>1, ReadsKept
  <2>4. QED
    BY <2>2, <2>3
<1>13. ASSUME NEW d \in Valids PROVE ReportsOf(d)'
  <2>1. ReportsOf(d) /\ (wr'[d] = wr[d] \/ wr'[d] = "idle")
    BY <1>4 DEF IInv, Reports, Queues
  <2>2. QED
    BY <2>1, <1>1, ReportsKept
<1>14. QED
  BY <1>1, <1>6, <1>7, <1>8, <1>9, <1>10, <1>11, <1>12, <1>13, SameNet
     DEF IInv, Room, Reads, Reports

------------------------------------------------------------------------------
(* The invariant holds.                                                    *)

LEMMA InitInv == Init => IInv
<1> SUFFICES ASSUME Init PROVE IInv
  OBVIOUS
<1>1. /\ net \in Nets /\ v0 \in Val /\ running = Proc /\ phase = "idle" /\ due = {}
      /\ log = <<>> /\ stalled = FALSE /\ Proc \notin Steps
  BY NetFacts, StepAssumption DEF Init
<1>2. TypeOK
  <2>1. /\ m_q \in [Queues -> Seq(Entry)] /\ m_edge_put \in [Queues -> Nat]
        /\ m_edge_take \in [Queues -> Nat]
    BY DEF Init
  <2>2. level \in [Levels -> LevelType]
    BY <1>1 DEF Init, LevelType
  <2>3. /\ m_sent \in [Streams -> Steps \cup {Proc}] /\ reported \in [Valids -> BOOLEAN]
        /\ s \in [Steps -> Val] /\ m_saved \in [Steps -> Val] /\ log \in Seq(UndoType)
    BY <1>1 DEF Init
  <2>4. stalled \in BOOLEAN
    BY <1>1
  <2>5. QED
    BY <1>1, <2>1, <2>2, <2>3, <2>4 DEF TypeOK
<1>3. SeenTypes
  BY <1>1 DEF Init, SeenTypes
<1>4. Control
  <2>1. ~stalled
    BY <1>1
  <2>2. QED
    BY <1>1, <2>1 DEF Control
<1>5. /\ \A d \in Queues : /\ m_q[d] = <<>> /\ q0[d] = <<>> /\ m_edge_put[d] = 0
                           /\ m_edge_take[d] = 0 /\ wr[d] = "idle" /\ rd[d] = "idle"
      /\ \A d \in Streams : m_sent[d] = Proc /\ since[d] = 0
      /\ \A d \in Valids : broken[d] = FALSE
      /\ \A d \in Levels : level[d] = [value |-> v0, prev |-> v0, now |-> FALSE] /\ lv0[d] = v0
  BY DEF Init
<1>6. Puts
  BY <1>1, <1>5 DEF Puts, PutsOf, Queues
<1>7. "idle" \notin Val /\ MaxTake \in Nat /\ \A d \in Queues : DEPTH[d] \in Nat
  BY <1>1, StepAssumption, NetFacts
<1>8. Room /\ Reads
  BY <1>1, <1>5, <1>7 DEF Room, RoomOf, Reads, ReadsOf, Queues
<1>9. Reports
  <2>1. ASSUME NEW d \in Valids PROVE ~broken[d] /\ wr[d] = "idle"
    BY <1>5 DEF Queues
  <2>2. QED
    BY <2>1 DEF Reports, ReportsOf
<1>10. Began /\ History
  BY <1>1, NetFacts DEF Began, History
<1>11. SeenNow
  <2>1. ASSUME NEW d \in Queues PROVE SeenQueue(d, m_q[d], m_edge_take[d])
    BY <1>5, <1>7 DEF SeenQueue, Shape
  <2>2. ASSUME NEW d \in Levels PROVE SeenLevel(d, level[d])
    BY <1>5 DEF SeenLevel
  <2>3. QED
    BY <2>1, <2>2 DEF SeenNow, Seen
<1>12. QED
  BY <1>1, <1>2, <1>3, <1>4, <1>6, <1>8, <1>9, <1>10, <1>11 DEF IInv

LEMMA NextInv == IInv /\ [Next]_vars => IInv'
<1> SUFFICES ASSUME IInv, [Next]_vars PROVE IInv'
  OBVIOUS
<1>1. CASE \E E \in SUBSET Steps : Tick(E)
  BY <1>1, TickKeeps
<1>2. CASE \E x \in Steps : BeginStep(x)
  BY <1>2, BeginStepKeeps
<1>3. CASE \E c \in Queues : TryGet(c) \/ ProcGet(c)
  BY <1>3, TryGetKeeps, ProcGetKeeps
<1>4. CASE \E c \in Streams, v \in Val : PutOrStall(c, v) \/ ProcPut(c, v)
  BY <1>4, PutOrStallKeeps, ProcPutKeeps
<1>5. CASE \E c \in Valids, v \in Val : ValidPut(c, v)
  BY <1>5, ValidPutKeeps
<1>6. CASE \E c \in Levels, v \in Val : LevelSet(c, v)
  BY <1>6, LevelSetKeeps
<1>7. CASE EndStep
  BY <1>7, EndStepKeeps
<1>8. CASE Undo
  BY <1>8, UndoKeeps
<1>9. CASE Restore
  BY <1>9, RestoreKeeps
<1>10. CASE UNCHANGED vars
  <2>1. /\ EdgeKept /\ net' = net
        /\ UNCHANGED <<m_q, m_edge_put, m_edge_take, m_sent, level, reported, s, m_saved,
                       running, stalled, log, phase, due, q0, lv0, wr, rd, wr0, rd0, pre,
                       since, broken>>
    BY <1>10 DEF vars, code, seen, EdgeKept
  <2>2. TypeOK' /\ SeenTypes'
    BY <2>1, SameNet DEF IInv, TypeOK, SeenTypes
  <2>3. Control' /\ Puts' /\ Room' /\ Reads' /\ Reports' /\ Began'
    BY <2>1, ControlKept, PutsKept, RoomKept, ReadsKept, ReportsKept, BeganKept, SameNet
       DEF IInv, Room, Reads, Reports
  <2>4. SeenNow' /\ History'
    BY <2>1, SeenNowKept, HistoryKept DEF IInv
  <2>5. QED
    BY <2>1, <2>2, <2>3, <2>4 DEF IInv
<1>11. QED
  BY <1>1, <1>2, <1>3, <1>4, <1>5, <1>6, <1>7, <1>8, <1>9, <1>10 DEF Next

\* Whatever the bodies call, and however the steps are ordered, the invariant holds.
THEOREM InductiveInvariant == Spec => []IInv
BY InitInv, NextInv, PTL DEF Spec

------------------------------------------------------------------------------
(* What follows.                                                           *)

\* The fields keep their types; of note, no undo takes an edge counter below zero.
THEOREM TypesKept == Spec => []TypeOK
<1>1. IInv => TypeOK
  BY DEF IInv
<1>2. QED
  BY <1>1, InductiveInvariant, PTL

\* A stalled step leaves nothing behind but the values it sent.
THEOREM StallLeavesNothing == Spec => []AllOrNothing
<1>1. IInv => AllOrNothing
  <2> SUFFICES ASSUME IInv, phase = "undo", log = <<>>
               PROVE  /\ level = pre.lv /\ m_edge_take = pre.take
                      /\ m_saved[running] = pre.s[running]
                      /\ \A c \in Queues :
                           \/ m_q[c] = pre.q[c]
                           \/ /\ c \in Streams /\ m_sent[c] = running
                              /\ m_q[c] = Append(pre.q[c], stamped(wr[c]))
    BY DEF AllOrNothing
  <2>1. running \in Atomic /\ running # Proc
    BY NetFacts DEF IInv, Control
  <2>2. m_q = start_q /\ level = pre.lv /\ m_edge_take = pre.take
    BY <2>1, Unwound DEF IInv
  <2>3. m_saved[running] = pre.s[running]
    BY <2>1 DEF IInv, Began
  <2>4. ASSUME NEW c \in Queues, sent(c)
        PROVE  /\ c \in Streams /\ m_sent[c] = running
               /\ m_q[c] = Append(pre.q[c], stamped(wr[c]))
    BY <2>1, <2>2, <2>4 DEF start_q, sent, IInv, Puts, PutsOf
  <2>5. ASSUME NEW c \in Queues, ~sent(c) PROVE m_q[c] = pre.q[c]
    BY <2>2, <2>5 DEF start_q
  <2>6. QED
    BY <2>2, <2>3, <2>4, <2>5
<1>2. QED
  BY <1>1, InductiveInvariant, PTL

\* Between two commits of its producer a stalling output takes at most one value,
\* and no stream ever holds more than DEPTH.
THEOREM StallingOutputsSendOnce == Spec => []OneValuePerCommit
<1>1. IInv => OneValuePerCommit
  BY StreamFits DEF IInv, Puts, PutsOf, OneValuePerCommit
<1>2. QED
  BY <1>1, InductiveInvariant, PTL

\* A step sees of its queues and levels what was there when the edge began.
THEOREM StepsSeeTheEdgesStart == Spec => []EdgeStartSeen
<1>1. IInv => PollSeesEdgeStart
  BY DEF IInv, Reads, ReadsOf, PollSeesEdgeStart
<1>2. IInv => LevelSeesEdgeStart
  <2> SUFFICES ASSUME IInv, NEW c \in Levels, active PROVE LevelGet(c) = lv0[c]
    BY DEF LevelSeesEdgeStart
  <2>1. SeenLevel(c, level[c])
    BY DEF IInv, SeenNow, Seen
  <2>2. QED
    BY <2>1 DEF LevelGet, hidden, SeenLevel
<1>3. QED
  BY <1>1, <1>2, InductiveInvariant, PTL DEF EdgeStartSeen

\* No put into a full valid channel by a step that commits goes unreported.
THEOREM ViolationsAreReported == Spec => []NoMissedViolation
<1>1. IInv => NoMissedViolation
  BY DEF IInv, Reports, ReportsOf, NoMissedViolation
<1>2. QED
  BY <1>1, InductiveInvariant, PTL

------------------------------------------------------------------------------
(* The contract of the cycle.                                              *)

\* The cycle contract has one take a cycle, so the bodies of steps at the ends of
\* such streams must not poll one twice successfully.
OneTake ==
  \A n \in Nets : \/ n.max_take = 1
                  \/ \A c \in n.streams : n.prod[c] = Proc \/ n.cons[c] = Proc

\* What has become of a's values when t of them are taken and w is put.
LEMMA ShapeMoved ==
  ASSUME NEW a \in Seq(Val), NEW x \in Seq(Entry), NEW t \in {0, 1}, NEW n \in {0, 1},
         Shape(a, x, t), Len(x) + t = Len(a) + n,
         NEW w, n = 1 => w \in Val /\ x[Len(x)] = stamped(w)
  PROVE  values(x) = (IF t = 1 THEN Tail(a) ELSE a) \o (IF n = 1 THEN <<w>> ELSE <<>>)
<1> DEFINE y == IF t = 1 THEN Tail(a) ELSE a
           z == IF n = 1 THEN <<w>> ELSE <<>>
<1>1. /\ Len(a) \in Nat /\ Len(x) \in Nat /\ t <= Len(a)
      /\ Len(x) = (Len(a) - t) + n
  BY DEF Shape
<1>2. /\ y \in Seq(Val) /\ Len(y) = Len(a) - t
      /\ \A i \in 1 .. Len(a) - t : y[i] = a[i + t]
  <2>1. CASE t = 1
    <3>1. a # <<>>
      BY <2>1, <1>1
    <3>2. /\ Tail(a) \in Seq(Val) /\ Len(Tail(a)) = Len(a) - 1
          /\ \A i \in 1 .. Len(Tail(a)) : Tail(a)[i] = a[i + 1]
      BY <3>1, HeadTailProperties
    <3>3. QED
      BY <2>1, <3>2
  <2>2. CASE t = 0
    BY <2>2, <1>1
  <2>3. QED
    BY <2>1, <2>2
<1>3. z \in Seq(Val) /\ Len(z) = n /\ (n = 1 => z[1] = w)
  BY DEF z
<1> HIDE DEF y, z
<1>4. /\ y \o z \in Seq(Val) /\ Len(y \o z) = Len(y) + Len(z)
      /\ \A i \in 1 .. Len(y) + Len(z) :
           (y \o z)[i] = IF i <= Len(y) THEN y[i] ELSE z[i - Len(y)]
  BY <1>2, <1>3, ConcatProperties
<1>5. /\ values(x) \in Seq(Val) /\ Len(values(x)) = Len(x)
      /\ \A i \in 1 .. Len(x) : values(x)[i] = x[i].v
  <2>1. values(x) \in Seq(Val) /\ Len(values(x)) = Len(x)
    BY ShapeAged
  <2>2. QED
    BY <2>1 DEF values
<1>6. Len(y) + Len(z) = Len(x)
  BY <1>1, <1>2, <1>3
<1>7. ASSUME NEW i \in 1 .. Len(x) PROVE values(x)[i] = (y \o z)[i]
  <2>1. CASE i <= Len(a) - t
    <3>1. x[i] = [v |-> a[i + t], now |-> FALSE]
      BY <2>1 DEF Shape
    <3>2. i \in 1 .. Len(a) - t /\ i <= Len(y)
      BY <2>1, <1>1, <1>2
    <3>3. QED
      BY <3>1, <3>2, <1>2, <1>4, <1>5, <1>6
  <2>2. CASE ~(i <= Len(a) - t)
    <3>1. n = 1 /\ i = Len(x) /\ i - Len(y) = 1 /\ ~(i <= Len(y))
      BY <2>2, <1>1, <1>2
    <3>2. x[i].v = w
      BY <3>1 DEF stamped
    <3>3. QED
      BY <3>1, <3>2, <1>3, <1>4, <1>5, <1>6
  <2>3. QED
    BY <2>1, <2>2
<1>8. values(x) = y \o z
  BY <1>4, <1>5, <1>6, <1>7, SeqEqual
<1>9. QED
  BY <1>8 DEF y, z

\* What the consumer of a stream between steps has taken when the edge is over.
LEMMA TakenAtTick ==
  ASSUME OneTake, IInv, phase = "idle", NEW c \in Streams, Between(c)
  PROVE  /\ m_edge_take[c] \in {0, 1}
         /\ m_edge_take[c] = 1 <=> rd[c] # "idle" /\ q0[c] # <<>>
         /\ rd[c] = IF rd[c] = "idle" THEN "idle"
                    ELSE IF q0[c] = <<>> THEN "empty" ELSE Head(q0[c])
<1>1. c \in Queues /\ Cons[c] # Proc
  BY DEF Between, Queues
<1>2. MaxTake = 1
  BY DEF OneTake, IInv, MaxTake, Streams, Between, Prod, Cons
<1>3. /\ m_edge_take[c] \in Nat /\ m_edge_take[c] <= Len(q0[c]) /\ q0[c] \in Seq(Val)
      /\ rd[c] \in Val \cup {"idle", "empty"} /\ ReadsOf(c)
  BY <1>1, QueueTypes DEF SeenQueue, Shape
<1>4. m_edge_take[c] \in {0, 1}
  BY <1>1, <1>2, <1>3 DEF ReadsOf
<1>5. q0[c] = <<>> => m_edge_take[c] = 0
  BY <1>3
<1>6. "idle" \notin Val /\ "empty" \notin Val
  BY StepAssumption
<1>7. QED
  BY <1>1, <1>3, <1>4, <1>5, <1>6 DEF ReadsOf

\* What its producer has put.
LEMMA PutAtTick ==
  ASSUME IInv, NEW c \in Streams, Between(c)
  PROVE  /\ m_edge_put[c] \in {0, 1}
         /\ wr[c] = "idle" => m_edge_put[c] = 0
         /\ wr[c] = "refused" => m_edge_put[c] = 0 /\ Len(q0[c]) >= DEPTH[c]
         /\ wr[c] \in Val => m_edge_put[c] = 1 /\ Len(q0[c]) < DEPTH[c]
         /\ m_edge_put[c] = 1 => m_q[c][Len(m_q[c])] = stamped(wr[c])
         /\ Len(m_q[c]) + m_edge_take[c] = Len(q0[c]) + m_edge_put[c]
         /\ Shape(q0[c], m_q[c], m_edge_take[c])
<1>1. c \in Queues /\ Prod[c] # Proc /\ Cons[c] # Proc
  BY DEF Between, Queues
<1>2. PutsOf(c) /\ RoomOf(c) /\ SeenQueue(c, m_q[c], m_edge_take[c])
  BY <1>1, QueueTypes DEF IInv, Puts, Room
<1>3. QED
  BY <1>1, <1>2 DEF PutsOf, RoomOf, SeenQueue

\* When time passes, a stream between steps has made a cycle of the contract.
LEMMA TickIsACycle ==
  ASSUME OneTake, IInv, NEW E \in SUBSET Steps, Tick(E), NEW c \in Streams, Between(c)
  PROVE  \E offer \in Val \cup {"idle"}, want \in BOOLEAN, depth \in Depths :
           depth = DEPTH[c] /\ Cyclic(c, depth)!Cycle(offer, want)
<1> DEFINE offer == IF wr[c] = "refused" THEN v0 ELSE wr[c]
           want  == rd[c] # "idle"
<1>0. PICK depth : depth = DEPTH[c]
  OBVIOUS
<1>1. c \in Queues /\ phase = "idle" /\ net \in Nets
  BY DEF Queues, Tick, IInv
<1>2. /\ wr[c] \in Val \cup {"idle", "refused"} /\ q0[c] \in Seq(Val) /\ m_q[c] \in Seq(Entry)
      /\ Len(q0[c]) \in Nat /\ depth \in Nat
  BY <1>0, <1>1, QueueTypes
<1>3. v0 \in Val /\ "idle" \notin Val /\ "refused" \notin Val /\ v0 # "idle"
  BY StepAssumption
<1>4. offer \in Val \cup {"idle"} /\ want \in BOOLEAN
  BY <1>2, <1>3
<1>5. depth \in Depths
  <2>1. net.depth \in [net.streams \cup net.valids -> Nat \ {0}]
    BY <1>1, StepAssumption
  <2>2. c \in DOMAIN net.depth
    BY <2>1 DEF Streams
  <2>3. QED
    BY <2>2, <1>0, <1>1 DEF Depths, DEPTH
<1>6. /\ m_edge_take[c] = 1 <=> want /\ q0[c] # <<>>
      /\ m_edge_put[c] = 1 <=> offer # "idle" /\ Len(q0[c]) < depth
      /\ m_edge_put[c] = 1 => offer = wr[c]
  <2>1. m_edge_take[c] = 1 <=> want /\ q0[c] # <<>>
    BY <1>1, TakenAtTick
  <2>2. CASE wr[c] \in Val
    BY <2>1, <2>2, <1>0, <1>3, PutAtTick
  <2>3. CASE wr[c] = "idle"
    BY <2>1, <2>3, <1>3, PutAtTick
  <2>4. CASE wr[c] = "refused"
    <3>1. m_edge_put[c] = 0 /\ ~(Len(q0[c]) < depth)
      BY <2>4, <1>0, <1>2, PutAtTick
    <3>2. QED
      BY <2>1, <3>1
  <2>5. QED
    BY <2>2, <2>3, <2>4, <1>2
<1>7. values(m_q[c]) = (IF m_edge_take[c] = 1 THEN Tail(q0[c]) ELSE q0[c])
                       \o (IF m_edge_put[c] = 1 THEN <<wr[c]>> ELSE <<>>)
  <2>1. m_edge_take[c] \in {0, 1} /\ m_edge_put[c] \in {0, 1}
    BY <1>1, TakenAtTick, PutAtTick
  <2>2. m_edge_put[c] = 1 => wr[c] \in Val
    BY <1>2, PutAtTick
  <2>3. QED
    BY <2>1, <2>2, <1>2, PutAtTick, ShapeMoved
<1>8. q0'[c] = values(m_q[c]) /\ wr0'[c] = wr[c] /\ rd0'[c] = rd[c]
  BY <1>1 DEF Tick
<1>9. q0'[c] = (IF want /\ q0[c] # <<>> THEN Tail(q0[c]) ELSE q0[c])
               \o (IF offer # "idle" /\ Len(q0[c]) < depth THEN <<offer>> ELSE <<>>)
  <2>1. (IF m_edge_take[c] = 1 THEN Tail(q0[c]) ELSE q0[c])
        = IF want /\ q0[c] # <<>> THEN Tail(q0[c]) ELSE q0[c]
    BY <1>6
  <2>2. (IF m_edge_put[c] = 1 THEN <<wr[c]>> ELSE <<>>)
        = IF offer # "idle" /\ Len(q0[c]) < depth THEN <<offer>> ELSE <<>>
    BY <1>6
  <2>3. QED
    BY <2>1, <2>2, <1>7, <1>8
<1>10. wr0'[c] = IF offer = "idle" \/ Len(q0[c]) < depth THEN offer ELSE "refused"
  <2>1. CASE wr[c] = "refused"
    <3>1. ~(Len(q0[c]) < depth) /\ offer = v0
      BY <2>1, <1>0, <1>2, PutAtTick
    <3>2. QED
      BY <2>1, <3>1, <1>3, <1>8
  <2>2. CASE wr[c] = "idle"
    BY <2>2, <1>8
  <2>3. CASE wr[c] \in Val
    BY <2>3, <1>0, <1>3, <1>8, PutAtTick
  <2>4. QED
    BY <2>1, <2>2, <2>3, <1>2
<1>11. rd0'[c] = IF ~want THEN "idle" ELSE IF q0[c] = <<>> THEN "empty" ELSE Head(q0[c])
  BY <1>1, <1>8, TakenAtTick
<1> HIDE DEF offer, want
<1>12. Cyclic(c, depth)!Cycle(offer, want)
  BY <1>9, <1>10, <1>11
     DEF Cyclic!Cycle, Cyclic!Written, Cyclic!Taken, Cyclic!Idle, Cyclic!Refused, Cyclic!Empty
<1>13. QED
  BY <1>0, <1>4, <1>5, <1>12

\* Nothing else is a cycle: it leaves the contract's state alone.
LEMMA OnlyTickIsACycle ==
  ASSUME [Next]_vars, ~ \E E \in SUBSET Steps : Tick(E)
  PROVE  UNCHANGED <<q0, wr0, rd0>>
BY DEF Next, vars, code, seen, BeginStep, TryGet, ProcGet, PutOrStall, ProcPut, ValidPut,
       LevelSet, EndStep, Undo, Restore

\* Every stream between steps implements the cycle contract, in whatever order the
\* steps of an edge run and whichever of them stall.
THEOREM StreamsKeepTheContract ==
  ASSUME OneTake PROVE Spec => CycleContract
<1> DEFINE Cycles ==
      \A c \in {d \in Streams : Between(d)} :
        \E offer \in Val \cup {"idle"}, want \in BOOLEAN, depth \in Depths :
          depth = DEPTH[c] /\ Cyclic(c, depth)!Cycle(offer, want)
<1>1. Init => \A c \in {d \in Streams : Between(d)} : Cyclic(c, 1)!Init
  BY DEF Init, Queues, Cyclic!Init, Cyclic!Idle
<1>2. IInv /\ [Next]_vars => [Cycles]_<<q0, wr0, rd0>>
  BY TickIsACycle, OnlyTickIsACycle
<1>3. QED
  BY <1>1, <1>2, InductiveInvariant, PTL DEF Spec, CycleContract
==============================================================================
