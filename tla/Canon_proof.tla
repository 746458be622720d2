------------------------------ MODULE Canon_proof ------------------------------
(***************************************************************************)
(* The order checker and the comparison of two views, for every rule, every *)
(* number of items and any wrong events.                                   *)
(***************************************************************************)
EXTENDS Canon, FiniteSetTheorems, SequenceTheorems, TLAPS

\* The items of a stream are numbered.
ItemsFit == \A s \in Streams : DOMAIN s.key \subseteq Int

Event == [ev : {"in", "out"}, id : Int, data : Int, cyc : Nat]
Kind == {"DUPLICATE", "UNKNOWN", "DATA", "REORDER", "SAME_CYCLE"}
Checker == [live : Seq(Event), seen : Seq(Int), left : SUBSET Int, last : SUBSET Int,
            cyc : Int, errs : SUBSET Kind]

Bound(s, x, y) ==
  /\ s.per_key => s.key[x] = s.key[y]
  /\ <<s.cls[x], s.cls[y]>> \notin s.allow_pass
Strict(s, x, y) == <<s.cls[x], s.cls[y]>> \in s.strict_after

\* Event i of trace t is that x came in, or went out.
At(t, ev, x, i) == i \in DOMAIN t /\ t[i].ev = ev /\ t[i].id = x

\* What the rule s says of a trace so far: no item comes or leaves twice, each that
\* leaves came before with its data, and an item that leaves has none that binds it
\* left behind, nor in its own cycle if it is strict.
Once(t) ==
  \A ev \in {"in", "out"} : \A x, i, j : At(t, ev, x, i) /\ At(t, ev, x, j) => i = j
Came(t) ==
  \A x, l : At(t, "out", x, l) => \E i : At(t, "in", x, i) /\ i < l /\ t[i].data = t[l].data
InTurn(s, t, x, y, l) ==
  \E k : /\ At(t, "out", x, k) /\ k < l
         /\ Strict(s, x, y) => t[k].cyc < t[l].cyc
InOrder(s, t) ==
  \A x, y, i, j, l :
    At(t, "in", x, i) /\ At(t, "in", y, j) /\ i < j /\ Bound(s, x, y) /\ At(t, "out", y, l)
      => InTurn(s, t, x, y, l)
UpToNow(s, t) == Once(t) /\ Came(t) /\ InOrder(s, t)

\* What a checker that has reported nothing knows of the trace.
SeenIs(w, t) ==
  /\ \A x : (\E a \in DOMAIN w.seen : w.seen[a] = x) <=> \E i : At(t, "in", x, i)
  /\ \A a, b \in DOMAIN w.seen : \A i, j :
        At(t, "in", w.seen[a], i) /\ At(t, "in", w.seen[b], j) => (a < b <=> i < j)
LiveIs(w, t) ==
  /\ \A a \in DOMAIN w.live : \E i : At(t, "in", w.live[a].id, i) /\ t[i] = w.live[a]
  /\ \A x : (\E a \in DOMAIN w.live : w.live[a].id = x) <=> (\E i : At(t, "in", x, i)) /\ x \notin w.left
  /\ \A a, b \in DOMAIN w.live : \A i, j :
        At(t, "in", w.live[a].id, i) /\ At(t, "in", w.live[b].id, j) => (a < b <=> i < j)
LeftIs(w, t) ==
  /\ \A x : x \in w.left <=> \E l : At(t, "out", x, l)
  /\ \A x, l : At(t, "out", x, l) => t[l].cyc <= w.cyc
  /\ \A x : x \in w.last <=> \E l : At(t, "out", x, l) /\ t[l].cyc = w.cyc
Follows(w, t) == SeenIs(w, t) /\ LiveIs(w, t) /\ LeftIs(w, t)

Exact(s, w, t) ==
  /\ w.errs = {} <=> UpToNow(s, t)
  /\ w.errs = {} => Follows(w, t)

------------------------------------------------------------------------------
LEMMA BindsIs ==
  ASSUME NEW x, NEW y
  PROVE  Binds(x, y) <=> Bound(stream, x, y)
  BY DEF Binds, Bound

\* A trace with one more event.
LEMMA OneMore ==
  ASSUME NEW t \in Seq(Event), NEW e \in Event
  PROVE  /\ Append(t, e) \in Seq(Event)
         /\ Len(t) \in Nat
         /\ \A ev, x, i : At(t, ev, x, i) => i \in 1 .. Len(t)
         /\ \A i \in 1 .. Len(t) : Append(t, e)[i] = t[i]
         /\ Append(t, e)[Len(t) + 1] = e
         /\ \A ev, x, i : At(Append(t, e), ev, x, i)
               <=> At(t, ev, x, i) \/ (i = Len(t) + 1 /\ e.ev = ev /\ e.id = x)
<1> DEFINE u == Append(t, e)
<1>1. /\ u \in Seq(Event) /\ Len(t) \in Nat /\ DOMAIN t = 1 .. Len(t)
      /\ DOMAIN u = 1 .. Len(t) + 1
      /\ \A i \in 1 .. Len(t) : u[i] = t[i]
      /\ u[Len(t) + 1] = e
  OBVIOUS
<1>2. \A i : i \in 1 .. Len(t) + 1 <=> i \in 1 .. Len(t) \/ i = Len(t) + 1
  BY <1>1
<1>3. Len(t) + 1 \notin 1 .. Len(t)
  BY <1>1
<1> HIDE DEF u
<1>4. \A ev, x, i : At(u, ev, x, i) <=> At(t, ev, x, i) \/ (i = Len(t) + 1 /\ e.ev = ev /\ e.id = x)
  BY <1>1, <1>2, <1>3, Zenon DEF At
<1>5. \A ev, x, i : At(t, ev, x, i) => i \in 1 .. Len(t)
  BY <1>1 DEF At
<1>6. QED
  BY <1>1, <1>4, <1>5 DEF u

\* What breaks the rule breaks it for good.
LEMMA BrokenStays ==
  ASSUME NEW s, NEW t \in Seq(Event), NEW e \in Event, UpToNow(s, Append(t, e))
  PROVE  UpToNow(s, t)
<1> DEFINE u == Append(t, e)
           n == Len(t)
<1>1. /\ n \in Nat
      /\ \A ev, x, i : At(t, ev, x, i) => i \in 1 .. n
      /\ \A i \in 1 .. n : u[i] = t[i]
      /\ u[n + 1] = e
      /\ \A ev, x, i : At(u, ev, x, i) <=> At(t, ev, x, i) \/ (i = n + 1 /\ e.ev = ev /\ e.id = x)
  BY OneMore
<1>u. Once(u) /\ Came(u) /\ InOrder(s, u)
  BY DEF UpToNow
<1> HIDE DEF u, n
<1>2. Once(t)
  BY <1>1, <1>u DEF Once
<1>3. \A ev, x, i, l : At(u, ev, x, i) /\ l \in 1 .. n /\ i < l => At(t, ev, x, i)
  BY <1>1
<1>4. Came(t)
  <2> SUFFICES ASSUME NEW x, NEW l, At(t, "out", x, l)
               PROVE  \E i : At(t, "in", x, i) /\ i < l /\ t[i].data = t[l].data
    BY DEF Came
  <2>1. PICK i : At(u, "in", x, i) /\ i < l /\ u[i].data = u[l].data
    BY <1>1, <1>u DEF Came
  <2>2. l \in 1 .. n /\ At(t, "in", x, i)
    BY <1>1, <1>3, <2>1
  <2>3. i \in 1 .. n
    BY <1>1, <2>2
  <2>4. u[i] = t[i] /\ u[l] = t[l]
    BY <1>1, <2>2, <2>3
  <2>5. QED
    BY <2>1, <2>2, <2>4
<1>5. InOrder(s, t)
  <2> SUFFICES ASSUME NEW x, NEW y, NEW i, NEW j, NEW l,
                      At(t, "in", x, i), At(t, "in", y, j), i < j, Bound(s, x, y), At(t, "out", y, l)
               PROVE  InTurn(s, t, x, y, l)
    BY DEF InOrder
  <2>0. At(u, "in", x, i) /\ At(u, "in", y, j) /\ At(u, "out", y, l)
    BY <1>1
  <2>1. InTurn(s, u, x, y, l)
    BY <1>u, <2>0 DEF InOrder
  <2>2. PICK k : At(u, "out", x, k) /\ k < l /\ (Strict(s, x, y) => u[k].cyc < u[l].cyc)
    BY <2>1 DEF InTurn
  <2>3. l \in 1 .. n /\ At(t, "out", x, k)
    BY <1>1, <1>3, <2>2
  <2>4. k \in 1 .. n
    BY <1>1, <2>3
  <2>5. u[k] = t[k] /\ u[l] = t[l]
    BY <1>1, <2>3, <2>4
  <2>6. QED
    BY <2>2, <2>3, <2>5 DEF InTurn
<1>6. QED
  BY <1>2, <1>4, <1>5 DEF UpToNow

\* An item comes in.
LEMMA EnterIsExact ==
  ASSUME NEW t \in Seq(Event), NEW e \in Event, e.ev = "in",
         NEW w \in Checker, Exact(stream, w, t)
  PROVE  /\ Enter(w, e) \in Checker
         /\ Enter(w, e).cyc = w.cyc
         /\ Exact(stream, Enter(w, e), Append(t, e))
<1> DEFINE u == Append(t, e)
           n == Len(t)
           r == Enter(w, e)
           known == \E a \in DOMAIN w.seen : w.seen[a] = e.id
<1>1. /\ n \in Nat
      /\ \A ev, x, i : At(t, ev, x, i) => i \in 1 .. n
      /\ \A i \in 1 .. n : u[i] = t[i]
      /\ u[n + 1] = e
      /\ \A ev, x, i : At(u, ev, x, i) <=> At(t, ev, x, i) \/ (i = n + 1 /\ e.ev = ev /\ e.id = x)
  BY OneMore
<1>2. /\ w.seen \in Seq(Int) /\ w.live \in Seq(Event) /\ w.left \in SUBSET Int
      /\ w.last \in SUBSET Int /\ w.cyc \in Int /\ w.errs \in SUBSET Kind
      /\ e.id \in Int
  BY DEF Checker, Event
<1>3. known <=> e.id \in ToSet(w.seen)
  BY DEF ToSet
<1>4. ~UpToNow(stream, t) => ~UpToNow(stream, u)
  BY BrokenStays
<1> HIDE DEF u, n, r
<1>5. CASE known
  <2>1. r = [w EXCEPT !.errs = @ \cup {"DUPLICATE"}]
    BY <1>3, <1>5 DEF Enter, Report, r
  <2>2. r \in Checker /\ r.errs # {} /\ r.cyc = w.cyc
    BY <2>1 DEF Checker, Kind
  <2>3. w.errs = {} => ~UpToNow(stream, u)
    <3> SUFFICES ASSUME w.errs = {} PROVE ~Once(u)
      BY DEF UpToNow
    <3>1. PICK i : At(t, "in", e.id, i)
      BY <1>5 DEF Exact, Follows, SeenIs
    <3>2. At(u, "in", e.id, i) /\ At(u, "in", e.id, n + 1) /\ i # n + 1
      BY <1>1, <3>1
    <3>3. QED
      BY <3>2 DEF Once
  <2>4. QED
    BY <1>4, <2>2, <2>3 DEF Exact, r, u
<1>6. CASE ~known
  <2>1. r = [w EXCEPT !.seen = Append(@, e.id), !.live = Append(@, e)]
    BY <1>3, <1>6 DEF Enter, r
  <2>2. /\ r \in Checker
        /\ r.seen = Append(w.seen, e.id) /\ r.live = Append(w.live, e)
        /\ r.left = w.left /\ r.last = w.last /\ r.cyc = w.cyc /\ r.errs = w.errs
    <3>1. /\ r.seen = Append(w.seen, e.id) /\ r.live = Append(w.live, e)
          /\ r.left = w.left /\ r.last = w.last /\ r.cyc = w.cyc /\ r.errs = w.errs
      BY <2>1 DEF Checker
    <3>2. Append(w.seen, e.id) \in Seq(Int) /\ Append(w.live, e) \in Seq(Event)
      BY <1>2
    <3>3. r \in Checker
      BY <2>1, <3>2 DEF Checker
    <3>4. QED
      BY <3>1, <3>3
  <2>3. CASE w.errs # {}
    BY <1>4, <2>2, <2>3 DEF Exact, r, u
  <2>4. CASE w.errs = {}
    <3>1. Once(t) /\ Came(t) /\ InOrder(stream, t) /\ SeenIs(w, t) /\ LiveIs(w, t) /\ LeftIs(w, t)
      BY <2>4 DEF Exact, UpToNow, Follows
    <3>2. \A i : ~At(t, "in", e.id, i)
      BY <1>6, <3>1 DEF SeenIs
    <3>3. \A l : ~At(t, "out", e.id, l)
      BY <3>1, <3>2 DEF Came
    <3>4. \A x, l : At(u, "out", x, l) <=> At(t, "out", x, l)
      BY <1>1
    <3>5. Once(u)
      BY <1>1, <3>1, <3>2 DEF Once
    <3>6. Came(u)
      BY <1>1, <3>1, <3>4 DEF Came
    <3>7. InOrder(stream, u)
      <4> SUFFICES ASSUME NEW x, NEW y, NEW i, NEW j, NEW l, At(u, "in", x, i), At(u, "in", y, j),
                          i < j, Bound(stream, x, y), At(u, "out", y, l)
                   PROVE  InTurn(stream, u, x, y, l)
        BY DEF InOrder
      <4>1. At(t, "out", y, l) /\ y # e.id
        BY <3>3, <3>4
      <4>2. At(t, "in", y, j) /\ j \in 1 .. n
        BY <1>1, <4>1
      <4>3. At(t, "in", x, i)
        BY <1>1, <4>2
      <4>4. InTurn(stream, t, x, y, l)
        BY <3>1, <4>1, <4>2, <4>3 DEF InOrder
      <4>5. PICK k : At(t, "out", x, k) /\ k < l /\ (Strict(stream, x, y) => t[k].cyc < t[l].cyc)
        BY <4>4 DEF InTurn
      <4>6. u[k] = t[k] /\ u[l] = t[l]
        BY <1>1, <4>1, <4>5
      <4>7. QED
        BY <3>4, <4>5, <4>6 DEF InTurn
    <3>8. SeenIs(r, u)
      <4>1. /\ DOMAIN w.seen = 1 .. Len(w.seen) /\ Len(w.seen) \in Nat
            /\ DOMAIN r.seen = 1 .. Len(w.seen) + 1
            /\ \A a \in 1 .. Len(w.seen) : r.seen[a] = w.seen[a]
            /\ r.seen[Len(w.seen) + 1] = e.id
        BY <1>2, <2>2
      <4> DEFINE m == Len(w.seen)
      <4>2. \A a : a \in 1 .. m + 1 <=> a \in 1 .. m \/ a = m + 1
        BY <4>1
      <4> HIDE DEF m
      <4>3. \A x : (\E a \in DOMAIN r.seen : r.seen[a] = x) <=> \E i : At(u, "in", x, i)
        <5> TAKE x
        <5>1. (\E a \in DOMAIN r.seen : r.seen[a] = x) <=> (\E a \in DOMAIN w.seen : w.seen[a] = x) \/ x = e.id
          BY <4>1, <4>2 DEF m
        <5>2. (\E i : At(u, "in", x, i)) <=> (\E i : At(t, "in", x, i)) \/ x = e.id
          BY <1>1
        <5>3. QED
          BY <5>1, <5>2, <3>1 DEF SeenIs
      <4>4. \A a, b \in DOMAIN r.seen : \A i, j :
               At(u, "in", r.seen[a], i) /\ At(u, "in", r.seen[b], j) => (a < b <=> i < j)
        <5> TAKE a, b \in DOMAIN r.seen
        <5> TAKE i, j
        <5> HAVE At(u, "in", r.seen[a], i) /\ At(u, "in", r.seen[b], j)
        <5>1. \A c \in 1 .. m : w.seen[c] # e.id
          BY <1>6, <4>1 DEF m
        <5>2. m \in Nat /\ n \in Nat
          BY <1>1, <4>1 DEF m
        <5>3. ASSUME NEW c \in DOMAIN r.seen, NEW k, At(u, "in", r.seen[c], k)
              PROVE  \/ c \in 1 .. m /\ At(t, "in", w.seen[c], k) /\ k \in 1 .. n
                     \/ c = m + 1 /\ k = n + 1
          <6>1. CASE c \in 1 .. m
            <7>1. r.seen[c] = w.seen[c] /\ w.seen[c] # e.id
              BY <4>1, <5>1, <6>1 DEF m
            <7>2. At(t, "in", w.seen[c], k)
              BY <1>1, <5>3, <7>1
            <7>3. QED
              BY <1>1, <6>1, <7>2
          <6>2. CASE c = m + 1
            <7>1. r.seen[c] = e.id
              BY <4>1, <6>2 DEF m
            <7>2. k = n + 1
              BY <1>1, <3>2, <5>3, <7>1
            <7>3. QED
              BY <6>2, <7>2
          <6>3. QED
            BY <4>1, <4>2, <6>1, <6>2 DEF m
        <5>4. /\ \/ a \in 1 .. m /\ At(t, "in", w.seen[a], i) /\ i \in 1 .. n
                 \/ a = m + 1 /\ i = n + 1
              /\ \/ b \in 1 .. m /\ At(t, "in", w.seen[b], j) /\ j \in 1 .. n
                 \/ b = m + 1 /\ j = n + 1
          BY <5>3
        <5>5. a \in 1 .. m /\ b \in 1 .. m => (a < b <=> i < j)
          <6> HAVE a \in 1 .. m /\ b \in 1 .. m
          <6>1. At(t, "in", w.seen[a], i) /\ At(t, "in", w.seen[b], j)
            BY <5>2, <5>4
          <6>2. a \in DOMAIN w.seen /\ b \in DOMAIN w.seen
            BY <4>1 DEF m
          <6>3. QED
            BY <3>1, <6>1, <6>2 DEF SeenIs
        <5>6. QED
          BY <5>2, <5>4, <5>5
      <4>5. QED
        BY <4>3, <4>4 DEF SeenIs
    <3>9. LiveIs(r, u)
      <4>1. /\ DOMAIN w.live = 1 .. Len(w.live) /\ Len(w.live) \in Nat
            /\ DOMAIN r.live = 1 .. Len(w.live) + 1
            /\ \A a \in 1 .. Len(w.live) : r.live[a] = w.live[a]
            /\ r.live[Len(w.live) + 1] = e
        BY <1>2, <2>2
      <4> DEFINE m == Len(w.live)
      <4>2. \A a : a \in 1 .. m + 1 <=> a \in 1 .. m \/ a = m + 1
        BY <4>1
      <4> HIDE DEF m
      <4>3. \A x : (\E a \in DOMAIN r.live : r.live[a].id = x)
                     <=> (\E i : At(u, "in", x, i)) /\ x \notin r.left
        <5> TAKE x
        <5>1. (\E a \in DOMAIN r.live : r.live[a].id = x)
                <=> (\E a \in DOMAIN w.live : w.live[a].id = x) \/ x = e.id
          BY <4>1, <4>2 DEF m
        <5>2. (\E i : At(u, "in", x, i)) <=> (\E i : At(t, "in", x, i)) \/ x = e.id
          BY <1>1
        <5>3. e.id \notin w.left
          BY <3>1, <3>3 DEF LeftIs
        <5>4. QED
          BY <2>2, <3>1, <5>1, <5>2, <5>3 DEF LiveIs
      <4>4. \A a \in DOMAIN r.live : \E i : At(u, "in", r.live[a].id, i) /\ u[i] = r.live[a]
        <5> TAKE a \in DOMAIN r.live
        <5>1. CASE a \in 1 .. m
          <6>1. PICK i : At(t, "in", w.live[a].id, i) /\ t[i] = w.live[a]
            BY <3>1, <4>1, <5>1 DEF LiveIs, m
          <6>2. At(u, "in", r.live[a].id, i) /\ u[i] = r.live[a]
            BY <1>1, <4>1, <5>1, <6>1 DEF m
          <6>3. QED
            BY <6>2
        <5>2. CASE a = m + 1
          <6>1. At(u, "in", r.live[a].id, n + 1) /\ u[n + 1] = r.live[a]
            BY <1>1, <4>1, <5>2 DEF m
          <6>2. QED
            BY <6>1
        <5>3. QED
          BY <4>1, <4>2, <5>1, <5>2 DEF m
      <4>5. \A a, b \in DOMAIN r.live : \A i, j :
               At(u, "in", r.live[a].id, i) /\ At(u, "in", r.live[b].id, j) => (a < b <=> i < j)
        <5> TAKE a, b \in DOMAIN r.live
        <5> TAKE i, j
        <5> HAVE At(u, "in", r.live[a].id, i) /\ At(u, "in", r.live[b].id, j)
        <5>1. \A c \in 1 .. m : w.live[c].id # e.id
          BY <3>1, <3>2, <4>1 DEF LiveIs, m
        <5>2. m \in Nat /\ n \in Nat
          BY <1>1, <4>1 DEF m
        <5>3. ASSUME NEW c \in DOMAIN r.live, NEW k, At(u, "in", r.live[c].id, k)
              PROVE  \/ c \in 1 .. m /\ At(t, "in", w.live[c].id, k) /\ k \in 1 .. n
                     \/ c = m + 1 /\ k = n + 1
          <6>1. CASE c \in 1 .. m
            <7>1. r.live[c].id = w.live[c].id /\ w.live[c].id # e.id
              BY <4>1, <5>1, <6>1 DEF m
            <7>2. At(t, "in", w.live[c].id, k)
              BY <1>1, <5>3, <7>1
            <7>3. QED
              BY <1>1, <6>1, <7>2
          <6>2. CASE c = m + 1
            <7>1. r.live[c].id = e.id
              BY <4>1, <6>2 DEF m
            <7>2. k = n + 1
              BY <1>1, <3>2, <5>3, <7>1
            <7>3. QED
              BY <6>2, <7>2
          <6>3. QED
            BY <4>1, <4>2, <6>1, <6>2 DEF m
        <5>4. /\ \/ a \in 1 .. m /\ At(t, "in", w.live[a].id, i) /\ i \in 1 .. n
                 \/ a = m + 1 /\ i = n + 1
              /\ \/ b \in 1 .. m /\ At(t, "in", w.live[b].id, j) /\ j \in 1 .. n
                 \/ b = m + 1 /\ j = n + 1
          BY <5>3
        <5>5. a \in 1 .. m /\ b \in 1 .. m => (a < b <=> i < j)
          <6> HAVE a \in 1 .. m /\ b \in 1 .. m
          <6>1. At(t, "in", w.live[a].id, i) /\ At(t, "in", w.live[b].id, j)
            BY <5>2, <5>4
          <6>2. a \in DOMAIN w.live /\ b \in DOMAIN w.live
            BY <4>1 DEF m
          <6>3. QED
            BY <3>1, <6>1, <6>2 DEF LiveIs
        <5>6. QED
          BY <5>2, <5>4, <5>5
      <4>6. QED
        BY <4>3, <4>4, <4>5 DEF LiveIs
    <3>10. LeftIs(r, u)
      <4>1. \A x, l : At(t, "out", x, l) => u[l] = t[l]
        BY <1>1
      <4>2. QED
        BY <2>2, <3>1, <3>4, <4>1 DEF LeftIs
    <3>11. QED
      BY <2>2, <2>4, <3>5, <3>6, <3>7, <3>8, <3>9, <3>10 DEF Exact, UpToNow, Follows, r, u
  <2>5. QED
    BY <2>2, <2>3, <2>4 DEF r
<1>7. QED
  BY <1>5, <1>6

LEMMA Removed ==
  ASSUME NEW q \in Seq(Event), NEW p \in DOMAIN q
  PROVE  /\ RemoveAt(q, p) \in Seq(Event)
         /\ \A c : c \in DOMAIN q /\ c # p <=>
               \E a \in DOMAIN RemoveAt(q, p) : c = IF a < p THEN a ELSE a + 1
         /\ \A a \in DOMAIN RemoveAt(q, p) :
               RemoveAt(q, p)[a] = q[IF a < p THEN a ELSE a + 1]
         /\ DOMAIN RemoveAt(q, p) \subseteq Nat /\ p \in Nat
<1> DEFINE left == SubSeq(q, 1, p - 1)
           right == SubSeq(q, p + 1, Len(q))
           m == Len(q)
<1>1. m \in Nat /\ DOMAIN q = 1 .. m /\ p \in 1 .. m
  OBVIOUS
<1>2. left \in Seq(Event) /\ Len(left) = p - 1 /\ \A a \in 1 .. p - 1 : left[a] = q[a]
  BY <1>1
<1>3. right \in Seq(Event) /\ Len(right) = m - p /\ \A a \in 1 .. m - p : right[a] = q[p + a]
  BY <1>1
<1> HIDE DEF left, right, m
<1>4. /\ left \o right \in Seq(Event)
      /\ DOMAIN (left \o right) = 1 .. m - 1
      /\ \A a \in 1 .. m - 1 : (left \o right)[a] = IF a <= p - 1 THEN left[a] ELSE right[a - (p - 1)]
  <2>1. left \o right \in Seq(Event)
    BY <1>2, <1>3
  <2>2. Len(left \o right) = (p - 1) + (m - p) /\ (p - 1) + (m - p) = m - 1
    BY <1>1, <1>2, <1>3
  <2>3. DOMAIN (left \o right) = 1 .. m - 1
    BY <2>1, <2>2
  <2>4. \A a \in 1 .. Len(left) + Len(right) :
           (left \o right)[a] = IF a <= Len(left) THEN left[a] ELSE right[a - Len(left)]
    BY <1>2, <1>3
  <2>5. QED
    BY <1>2, <1>3, <2>1, <2>2, <2>3, <2>4
<1>5. RemoveAt(q, p) = left \o right
  BY DEF RemoveAt, left, right, m
<1>6. \A a \in 1 .. m - 1 : (left \o right)[a] = q[IF a < p THEN a ELSE a + 1]
  <2> TAKE a \in 1 .. m - 1
  <2>1. CASE a < p
    <3>1. a \in 1 .. p - 1
      BY <1>1, <2>1
    <3>2. QED
      BY <1>1, <1>2, <1>4, <2>1, <3>1
  <2>2. CASE ~(a < p)
    <3>1. a - (p - 1) \in 1 .. m - p /\ ~(a <= p - 1) /\ p + (a - (p - 1)) = a + 1
      BY <1>1, <2>2
    <3>2. QED
      BY <1>3, <1>4, <2>2, <3>1
  <2>3. QED
    BY <2>1, <2>2
<1>7. \A c : c \in 1 .. m /\ c # p <=> \E a \in 1 .. m - 1 : c = IF a < p THEN a ELSE a + 1
  <2> TAKE c
  <2>1. ASSUME c \in 1 .. m, c # p
        PROVE  \E a \in 1 .. m - 1 : c = IF a < p THEN a ELSE a + 1
    <3>1. CASE c < p
      <4>1. c \in 1 .. m - 1 /\ c = IF c < p THEN c ELSE c + 1
        BY <1>1, <2>1, <3>1
      <4>2. QED
        BY <4>1
    <3>2. CASE ~(c < p)
      <4>1. c - 1 \in 1 .. m - 1 /\ c = IF c - 1 < p THEN c - 1 ELSE (c - 1) + 1
        BY <1>1, <2>1, <3>2
      <4>2. QED
        BY <4>1
    <3>3. QED
      BY <3>1, <3>2
  <2>2. ASSUME NEW a \in 1 .. m - 1, c = IF a < p THEN a ELSE a + 1
        PROVE  c \in 1 .. m /\ c # p
    BY <1>1, <2>2
  <2>3. QED
    BY <2>1, <2>2
<1>8. 1 .. m - 1 \subseteq Nat /\ p \in Nat
  BY <1>1
<1>9. QED
  BY <1>1, <1>4, <1>5, <1>6, <1>7, <1>8

\* An item goes out, in the cycle of the last that went or later.
LEMMA LeaveIsExact ==
  ASSUME NEW t \in Seq(Event), NEW e \in Event, e.ev = "out",
         NEW w \in Checker, w.cyc <= e.cyc, Exact(stream, w, t)
  PROVE  /\ Leave(w, e) \in Checker
         /\ Leave(w, e).cyc <= e.cyc
         /\ Exact(stream, Leave(w, e), Append(t, e))
<1> DEFINE u == Append(t, e)
           n == Len(t)
           r == Leave(w, e)
           places == {i \in DOMAIN w.live : w.live[i].id = e.id}
           place == CHOOSE i \in places : TRUE
           last == IF e.cyc = w.cyc THEN w.last ELSE {}
           kinds == {k \in {"DATA", "REORDER", "SAME_CYCLE"} :
                       \/ k = "DATA" /\ w.live[place].data # e.data
                       \/ k = "REORDER" /\ Passed(w, place)
                       \/ k = "SAME_CYCLE" /\ SameCycle(w, last, e.id)}
<1>1. /\ n \in Nat
      /\ \A ev, x, i : At(t, ev, x, i) => i \in 1 .. n
      /\ \A i \in 1 .. n : u[i] = t[i]
      /\ u[n + 1] = e
      /\ \A ev, x, i : At(u, ev, x, i) <=> At(t, ev, x, i) \/ (i = n + 1 /\ e.ev = ev /\ e.id = x)
  BY OneMore
<1>2. /\ w.seen \in Seq(Int) /\ w.live \in Seq(Event) /\ w.left \in SUBSET Int
      /\ w.last \in SUBSET Int /\ w.cyc \in Int /\ w.errs \in SUBSET Kind
      /\ e.id \in Int /\ e.cyc \in Nat
  BY DEF Checker, Event
<1>3. ~UpToNow(stream, t) => ~UpToNow(stream, u)
  BY BrokenStays
<1>4. r = IF e.id \in w.left THEN Report(w, {"DUPLICATE"})
          ELSE IF places = {} THEN Report(w, {"UNKNOWN"})
          ELSE [Report(w, kinds) EXCEPT !.live = RemoveAt(@, place), !.left = @ \cup {e.id},
                                        !.last = last \cup {e.id}, !.cyc = e.cyc]
  BY DEF Leave
<1>5. place \in places \/ places = {}
  OBVIOUS
<1>6. kinds \in SUBSET Kind
  BY DEF Kind
<1>7. kinds = {} <=> /\ w.live[place].data = e.data
                     /\ ~Passed(w, place)
                     /\ ~SameCycle(w, last, e.id)
  <2> DEFINE A == w.live[place].data # e.data
             B == Passed(w, place)
             C == SameCycle(w, last, e.id)
  <2>1. kinds = {k \in {"DATA", "REORDER", "SAME_CYCLE"} :
                   (k = "DATA" /\ A) \/ (k = "REORDER" /\ B) \/ (k = "SAME_CYCLE" /\ C)}
    OBVIOUS
  <2> HIDE DEF A, B, C, kinds
  <2>2. kinds = {} <=> ~A /\ ~B /\ ~C
    BY <2>1, Zenon
  <2>3. QED
    BY <2>2 DEF A, B, C
<1> HIDE DEF u, n, r, places, place, last, kinds
<1>8. \A x, i : At(u, "in", x, i) <=> At(t, "in", x, i)
  BY <1>1
<1>9. CASE e.id \in w.left
  <2>1. r = [w EXCEPT !.errs = @ \cup {"DUPLICATE"}]
    BY <1>4, <1>9 DEF Report
  <2>2. r \in Checker /\ r.errs # {} /\ r.cyc = w.cyc
    BY <2>1 DEF Checker, Kind
  <2>3. w.errs = {} => ~UpToNow(stream, u)
    <3> SUFFICES ASSUME w.errs = {} PROVE ~Once(u)
      BY DEF UpToNow
    <3>1. PICK l : At(t, "out", e.id, l)
      BY <1>9 DEF Exact, Follows, LeftIs
    <3>2. At(u, "out", e.id, l) /\ At(u, "out", e.id, n + 1) /\ l # n + 1
      BY <1>1, <3>1
    <3>3. QED
      BY <3>2 DEF Once
  <2>4. QED
    BY <1>3, <2>2, <2>3 DEF Exact, r, u
<1>10. CASE e.id \notin w.left /\ places = {}
  <2>1. r = [w EXCEPT !.errs = @ \cup {"UNKNOWN"}]
    BY <1>4, <1>10 DEF Report
  <2>2. r \in Checker /\ r.errs # {} /\ r.cyc = w.cyc
    BY <2>1 DEF Checker, Kind
  <2>3. w.errs = {} => ~UpToNow(stream, u)
    <3> SUFFICES ASSUME w.errs = {} PROVE ~Came(u)
      BY DEF UpToNow
    <3>1. \A i : ~At(t, "in", e.id, i)
      BY <1>10 DEF Exact, Follows, LiveIs, places
    <3>2. At(u, "out", e.id, n + 1) /\ \A i : ~At(u, "in", e.id, i)
      BY <1>1, <1>8, <3>1
    <3>3. QED
      BY <3>2 DEF Came
  <2>4. QED
    BY <1>3, <2>2, <2>3 DEF Exact, r, u
<1>11. CASE e.id \notin w.left /\ places # {}
  <2>1. r = [Report(w, kinds) EXCEPT !.live = RemoveAt(@, place), !.left = @ \cup {e.id},
                                     !.last = last \cup {e.id}, !.cyc = e.cyc]
    BY <1>4, <1>11
  <2>2. place \in DOMAIN w.live /\ w.live[place].id = e.id
    BY <1>5, <1>11 DEF places
  <2>3. /\ r.live = RemoveAt(w.live, place) /\ r.left = w.left \cup {e.id}
        /\ r.last = last \cup {e.id} /\ r.cyc = e.cyc /\ r.seen = w.seen
        /\ r.errs = w.errs \cup kinds
    BY <2>1 DEF Report, Checker
  <2>4. r \in Checker
    <3>1. RemoveAt(w.live, place) \in Seq(Event)
      BY <1>2, <2>2, Removed
    <3>2. /\ w.left \cup {e.id} \in SUBSET Int /\ last \cup {e.id} \in SUBSET Int
          /\ e.cyc \in Int /\ w.errs \cup kinds \in SUBSET Kind
      BY <1>2, <1>6 DEF last
    <3>3. QED
      BY <2>1, <3>1, <3>2 DEF Report, Checker
  <2>5. CASE w.errs # {}
    <3>1. r.errs # {}
      BY <2>3, <2>5
    <3>2. QED
      BY <1>2, <1>3, <2>3, <2>4, <2>5, <3>1 DEF Exact, r, u
  <2>6. CASE w.errs = {}
    <3>1. Once(t) /\ Came(t) /\ InOrder(stream, t) /\ SeenIs(w, t) /\ LiveIs(w, t) /\ LeftIs(w, t)
      BY <2>6 DEF Exact, UpToNow, Follows
    <3>2. PICK j : At(t, "in", e.id, j) /\ t[j] = w.live[place]
      BY <2>2, <3>1 DEF LiveIs
    <3>3. \A l : ~At(t, "out", e.id, l)
      BY <1>11, <3>1 DEF LeftIs
    <3>4. \A x, i, b : At(t, "in", x, i) /\ At(t, "in", x, b) => i = b
      BY <3>1 DEF Once
    <3>5. j \in 1 .. n /\ u[j] = t[j]
      BY <1>1, <3>2
    <3>6. r.errs = kinds
      BY <2>3, <2>6
    <3>7. ASSUME UpToNow(stream, u)
          PROVE  kinds = {}
      <4>1. Once(u) /\ Came(u) /\ InOrder(stream, u)
        BY <3>7 DEF UpToNow
      <4>2. At(u, "out", e.id, n + 1) /\ At(u, "in", e.id, j)
        BY <1>1, <3>2
      <4>3. w.live[place].data = e.data
        <5>1. PICK i : At(u, "in", e.id, i) /\ u[i].data = u[n + 1].data
          BY <4>1, <4>2 DEF Came
        <5>2. i = j
          BY <1>8, <3>2, <3>4, <5>1
        <5>3. QED
          BY <1>1, <3>2, <3>5, <5>1, <5>2
      <4>4. \A x, i : At(t, "in", x, i) /\ i < j /\ Binds(x, e.id) => InTurn(stream, u, x, e.id, n + 1)
        BY <1>8, <4>1, <4>2, BindsIs DEF InOrder
      <4>5. ~Passed(w, place)
        <5> SUFFICES ASSUME Passed(w, place) PROVE FALSE
          OBVIOUS
        <5>1. PICK a \in 1 .. place - 1 : Binds(w.live[a].id, w.live[place].id)
          BY DEF Passed
        <5>2. a \in DOMAIN w.live /\ a < place
          BY <1>2, <2>2, <5>1
        <5>3. PICK i : At(t, "in", w.live[a].id, i)
          BY <3>1, <5>2 DEF LiveIs
        <5>4. i < j
          BY <2>2, <3>1, <3>2, <5>2, <5>3 DEF LiveIs
        <5>5. PICK k : At(u, "out", w.live[a].id, k) /\ k < n + 1
          BY <2>2, <4>4, <5>1, <5>3, <5>4 DEF InTurn
        <5>6. At(t, "out", w.live[a].id, k)
          BY <1>1, <5>5
        <5>7. w.live[a].id \in w.left /\ w.live[a].id \notin w.left
          BY <3>1, <5>2, <5>6 DEF LiveIs, LeftIs
        <5>8. QED
          BY <5>7
      <4>6. ~SameCycle(w, last, e.id)
        <5> SUFFICES ASSUME SameCycle(w, last, e.id) PROVE FALSE
          OBVIOUS
        <5>1. PICK x \in last :
                /\ \E a, b \in DOMAIN w.seen : a < b /\ w.seen[a] = x /\ w.seen[b] = e.id
                /\ Binds(x, e.id) /\ Strict(stream, x, e.id)
          BY DEF SameCycle, Strict
        <5>2. e.cyc = w.cyc /\ x \in w.last
          BY <5>1 DEF last
        <5>3. PICK l : At(t, "out", x, l) /\ t[l].cyc = e.cyc
          BY <3>1, <5>2 DEF LeftIs
        <5>4. PICK i : At(t, "in", x, i)
          BY <3>1, <5>3 DEF Came
        <5>5. i < j
          BY <3>1, <3>2, <5>1, <5>4 DEF SeenIs
        <5>6. PICK k : At(u, "out", x, k) /\ k < n + 1 /\ u[k].cyc < u[n + 1].cyc
          BY <4>4, <5>1, <5>4, <5>5 DEF InTurn
        <5>7. At(t, "out", x, k)
          BY <1>1, <5>6
        <5>8. k = l
          BY <3>1, <5>3, <5>7 DEF Once
        <5>9. u[k].cyc = e.cyc /\ u[n + 1].cyc = e.cyc
          BY <1>1, <5>3, <5>7, <5>8
        <5>10. QED
          BY <1>2, <5>6, <5>9
      <4>7. QED
        BY <1>7, <4>3, <4>5, <4>6
    <3>8. ASSUME kinds = {}
          PROVE  UpToNow(stream, u) /\ Follows(r, u)
      <4>1. w.live[place].data = e.data /\ ~Passed(w, place) /\ ~SameCycle(w, last, e.id)
        BY <1>7, <3>8
      <4>2. Once(u)
        BY <1>1, <3>1, <3>3 DEF Once
      <4>3. Came(u)
        <5> SUFFICES ASSUME NEW x, NEW l, At(u, "out", x, l)
                     PROVE  \E i : At(u, "in", x, i) /\ i < l /\ u[i].data = u[l].data
          BY DEF Came
        <5>1. CASE At(t, "out", x, l)
          <6>1. PICK i : At(t, "in", x, i) /\ i < l /\ t[i].data = t[l].data
            BY <3>1, <5>1 DEF Came
          <6>2. u[i] = t[i] /\ u[l] = t[l]
            BY <1>1, <5>1, <6>1
          <6>3. QED
            BY <1>8, <6>1, <6>2
        <5>2. CASE l = n + 1 /\ x = e.id
          <6>1. At(u, "in", x, j) /\ j < l /\ u[j].data = u[l].data
            BY <1>1, <1>8, <3>2, <3>5, <4>1, <5>2
          <6>2. QED
            BY <6>1
        <5>3. QED
          BY <1>1, <5>1, <5>2
      <4>4. InOrder(stream, u)
        <5> SUFFICES ASSUME NEW x, NEW y, NEW i, NEW b, NEW l, At(u, "in", x, i), At(u, "in", y, b),
                            i < b, Bound(stream, x, y), At(u, "out", y, l)
                     PROVE  InTurn(stream, u, x, y, l)
          BY DEF InOrder
        <5>1. At(t, "in", x, i) /\ At(t, "in", y, b)
          BY <1>8
        <5>2. CASE At(t, "out", y, l)
          <6>1. InTurn(stream, t, x, y, l)
            BY <3>1, <5>1, <5>2 DEF InOrder
          <6>2. PICK k : At(t, "out", x, k) /\ k < l /\ (Strict(stream, x, y) => t[k].cyc < t[l].cyc)
            BY <6>1 DEF InTurn
          <6>3. u[k] = t[k] /\ u[l] = t[l]
            BY <1>1, <5>2, <6>2
          <6>4. QED
            BY <1>1, <6>2, <6>3 DEF InTurn
        <5>3. CASE l = n + 1 /\ y = e.id
          <6>1. b = j
            BY <3>2, <3>4, <5>1, <5>3
          <6>2. Binds(x, e.id)
            BY <5>3, BindsIs
          <6>3. x \in w.left
            <7> SUFFICES ASSUME x \notin w.left PROVE FALSE
              OBVIOUS
            <7>1. PICK a \in DOMAIN w.live : w.live[a].id = x
              BY <3>1, <5>1 DEF LiveIs
            <7>2. a < place
              BY <2>2, <3>1, <3>2, <5>1, <6>1, <7>1 DEF LiveIs
            <7>3. a \in 1 .. place - 1
              BY <1>2, <2>2, <7>1, <7>2
            <7>4. Passed(w, place)
              BY <2>2, <6>2, <7>1, <7>3 DEF Passed
            <7>5. QED
              BY <4>1, <7>4
          <6>4. PICK k : At(t, "out", x, k)
            BY <3>1, <6>3 DEF LeftIs
          <6>5. At(u, "out", x, k) /\ k < l /\ k \in 1 .. n /\ u[k] = t[k] /\ u[l] = e
            BY <1>1, <5>3, <6>4
          <6>6. Strict(stream, x, y) => u[k].cyc < u[l].cyc
            <7> HAVE Strict(stream, x, y)
            <7>1. t[k].cyc \in Nat /\ t[k].cyc <= w.cyc
              <8>1. t[k] \in Event
                BY <6>4 DEF At
              <8>2. QED
                BY <3>1, <6>4, <8>1 DEF LeftIs, Event
            <7>2. t[k].cyc # e.cyc
              <8> SUFFICES ASSUME t[k].cyc = e.cyc PROVE FALSE
                OBVIOUS
              <8>1. w.cyc = e.cyc
                BY <1>2, <7>1
              <8>2. x \in last
                BY <3>1, <6>4, <8>1 DEF LeftIs, last
              <8>3. PICK a \in DOMAIN w.seen : w.seen[a] = x
                BY <3>1, <5>1 DEF SeenIs
              <8>4. PICK c \in DOMAIN w.seen : w.seen[c] = e.id
                BY <3>1, <3>2 DEF SeenIs
              <8>5. a < c
                BY <3>1, <3>2, <5>1, <6>1, <8>3, <8>4 DEF SeenIs
              <8>6. SameCycle(w, last, e.id)
                BY <5>3, <6>2, <8>2, <8>3, <8>4, <8>5 DEF SameCycle, Strict
              <8>7. QED
                BY <4>1, <8>6
            <7>3. QED
              BY <1>2, <6>5, <7>1, <7>2
          <6>7. QED
            BY <6>5, <6>6 DEF InTurn
        <5>4. QED
          BY <1>1, <5>2, <5>3
      <4>5. SeenIs(r, u)
        <5>1. \A x : (\E a \in DOMAIN w.seen : w.seen[a] = x) <=> \E i : At(u, "in", x, i)
          BY <1>8, <3>1 DEF SeenIs
        <5>2. \A a, b \in DOMAIN w.seen : \A i, k :
                 At(u, "in", w.seen[a], i) /\ At(u, "in", w.seen[b], k) => (a < b <=> i < k)
          BY <1>8, <3>1 DEF SeenIs
        <5>3. QED
          BY <2>3, <5>1, <5>2 DEF SeenIs
      <4>6. LiveIs(r, u)
        <5> DEFINE F(a) == IF a < place THEN a ELSE a + 1
        <5>1. /\ \A c : c \in DOMAIN w.live /\ c # place <=> \E a \in DOMAIN r.live : c = F(a)
              /\ \A a \in DOMAIN r.live : r.live[a] = w.live[F(a)]
              /\ DOMAIN r.live \subseteq Nat /\ place \in Nat
          BY <1>2, <2>2, <2>3, Removed
        <5>2. \A a, b \in DOMAIN r.live : a < b <=> F(a) < F(b)
          BY <5>1
        <5> HIDE DEF F
        <5>3. \A a \in DOMAIN r.live : F(a) \in DOMAIN w.live /\ F(a) # place
          BY <5>1
        <5>4. \A c \in DOMAIN w.live : w.live[c].id = e.id => c = place
          <6> TAKE c \in DOMAIN w.live
          <6> HAVE w.live[c].id = e.id
          <6>1. /\ At(t, "in", w.live[c].id, j) /\ At(t, "in", w.live[place].id, j)
                /\ ~(j < j)
            BY <2>2, <3>2, <3>5
          <6>2. ~(c < place) /\ ~(place < c)
            BY <2>2, <3>1, <6>1 DEF LiveIs
          <6>3. QED
            BY <1>2, <2>2, <6>2
        <5>5. \A a \in DOMAIN r.live : \E i : At(u, "in", r.live[a].id, i) /\ u[i] = r.live[a]
          <6> TAKE a \in DOMAIN r.live
          <6>1. PICK i : At(t, "in", w.live[F(a)].id, i) /\ t[i] = w.live[F(a)]
            BY <3>1, <5>3 DEF LiveIs
          <6>2. u[i] = t[i]
            BY <1>1, <6>1
          <6>3. QED
            BY <1>8, <5>1, <6>1, <6>2
        <5>6. \A x : (\E a \in DOMAIN r.live : r.live[a].id = x)
                      <=> (\E i : At(u, "in", x, i)) /\ x \notin r.left
          <6> TAKE x
          <6>1. (\E a \in DOMAIN r.live : r.live[a].id = x)
                   <=> \E c \in DOMAIN w.live : c # place /\ w.live[c].id = x
            BY <5>1
          <6>2. (\E c \in DOMAIN w.live : c # place /\ w.live[c].id = x)
                   <=> (\E c \in DOMAIN w.live : w.live[c].id = x) /\ x # e.id
            BY <2>2, <5>4
          <6>3. QED
            BY <1>8, <2>3, <3>1, <6>1, <6>2 DEF LiveIs
        <5>7. \A a, b \in DOMAIN r.live : \A i, k :
                 At(u, "in", r.live[a].id, i) /\ At(u, "in", r.live[b].id, k) => (a < b <=> i < k)
          <6> TAKE a, b \in DOMAIN r.live
          <6> TAKE i, k
          <6> HAVE At(u, "in", r.live[a].id, i) /\ At(u, "in", r.live[b].id, k)
          <6>1. At(t, "in", w.live[F(a)].id, i) /\ At(t, "in", w.live[F(b)].id, k)
            BY <1>8, <5>1
          <6>2. F(a) < F(b) <=> i < k
            BY <3>1, <5>3, <6>1 DEF LiveIs
          <6>3. QED
            BY <5>2, <6>2
        <5>8. QED
          BY <5>5, <5>6, <5>7 DEF LiveIs
      <4>7. LeftIs(r, u)
        <5>1. \A x, l : At(t, "out", x, l) => u[l] = t[l] /\ t[l].cyc \in Nat /\ t[l].cyc <= w.cyc
          <6> TAKE x, l
          <6> HAVE At(t, "out", x, l)
          <6>1. t[l] \in Event
            BY DEF At
          <6>2. QED
            BY <1>1, <3>1, <6>1 DEF LeftIs, Event
        <5>2. \A x, l : At(u, "out", x, l) <=> At(t, "out", x, l) \/ (l = n + 1 /\ x = e.id)
          BY <1>1
        <5>3. u[n + 1].cyc = e.cyc
          BY <1>1
        <5>4. \A x : x \in r.left <=> \E l : At(u, "out", x, l)
          BY <2>3, <3>1, <5>2 DEF LeftIs
        <5>5. \A x, l : At(u, "out", x, l) => u[l].cyc <= r.cyc
          <6> TAKE x, l
          <6> HAVE At(u, "out", x, l)
          <6>1. CASE At(t, "out", x, l)
            <7>1. u[l].cyc \in Nat /\ u[l].cyc <= w.cyc
              BY <5>1, <6>1
            <7>2. QED
              BY <1>2, <2>3, <7>1
          <6>2. CASE l = n + 1
            BY <1>2, <2>3, <5>3, <6>2
          <6>3. QED
            BY <5>2, <6>1, <6>2
        <5>6. \A x : x \in r.last <=> \E l : At(u, "out", x, l) /\ u[l].cyc = r.cyc
          <6> TAKE x
          <6>1. (\E l : At(u, "out", x, l) /\ u[l].cyc = r.cyc)
                   <=> (\E l : At(t, "out", x, l) /\ t[l].cyc = e.cyc) \/ x = e.id
            BY <2>3, <5>1, <5>2, <5>3
          <6>2. (\E l : At(t, "out", x, l) /\ t[l].cyc = e.cyc) <=> x \in last
            <7>1. CASE e.cyc = w.cyc
              BY <3>1, <7>1 DEF LeftIs, last
            <7>2. CASE e.cyc # w.cyc
              <8>1. \A l : At(t, "out", x, l) => t[l].cyc # e.cyc
                BY <1>2, <5>1, <7>2
              <8>2. QED
                BY <7>2, <8>1 DEF last
            <7>3. QED
              BY <7>1, <7>2
          <6>3. QED
            BY <2>3, <6>1, <6>2
        <5>7. QED
          BY <5>4, <5>5, <5>6 DEF LeftIs
      <4>8. QED
        BY <4>2, <4>3, <4>4, <4>5, <4>6, <4>7 DEF UpToNow, Follows
    <3>9. QED
      BY <1>2, <2>3, <2>4, <3>6, <3>7, <3>8 DEF Exact, r, u
  <2>7. QED
    BY <2>5, <2>6
<1>12. QED
  BY <1>9, <1>10, <1>11

------------------------------------------------------------------------------
(* A whole trace: every item that came left. *)

Here(t) == {e.id : e \in ToSet(t)}
AllLeft(t) == \A x, i : At(t, "in", x, i) => \E l : At(t, "out", x, l)
Lone(t, ev, x, i) == At(t, ev, x, i) /\ \A j : At(t, ev, x, j) => j = i
\* x comes at i and leaves at k, and y, which x binds, comes at j and leaves at l.
Pair(t, x, y, i, j, k, l) ==
  /\ Lone(t, "in", x, i) /\ Lone(t, "in", y, j) /\ i < j
  /\ Lone(t, "out", x, k) /\ Lone(t, "out", y, l)
  /\ x # y /\ Bound(stream, x, y)
PairInTurn(t, x, y, k, l) == k < l /\ (Strict(stream, x, y) => t[k].cyc < t[l].cyc)

LEMMA HereIs ==
  ASSUME NEW t \in Seq(Event)
  PROVE  \A x : x \in Here(t) <=> \E i : At(t, "in", x, i) \/ At(t, "out", x, i)
<1> TAKE x
<1>1. \A i \in DOMAIN t : t[i].ev = "in" \/ t[i].ev = "out"
  <2> TAKE i \in DOMAIN t
  <2>1. t[i] \in Event
    OBVIOUS
  <2>2. QED
    BY <2>1 DEF Event
<1>2. x \in Here(t) <=> \E i \in DOMAIN t : t[i].id = x
  BY DEF Here, ToSet
<1>3. QED
  BY <1>1, <1>2 DEF At

LEMMA LoneIs ==
  ASSUME NEW t \in Seq(Event), NEW ev, NEW x
  PROVE  /\ Cardinality(Events(t, ev, x)) = 1 <=> \E i : Lone(t, ev, x, i)
         /\ \A i : Lone(t, ev, x, i) => When(t, ev, x) = i
<1>1. \A i : i \in Events(t, ev, x) <=> At(t, ev, x, i)
  BY DEF Events, At
<1>2. IsFiniteSet(Events(t, ev, x))
  <2>1. Events(t, ev, x) \subseteq 1 .. Len(t) /\ Len(t) \in Nat
    BY DEF Events
  <2>2. IsFiniteSet(1 .. Len(t))
    BY <2>1, FS_Interval
  <2>3. QED
    BY <2>1, <2>2, FS_Subset
<1>3. \A i : Lone(t, ev, x, i) <=> Events(t, ev, x) = {i}
  <2> TAKE i
  <2>1. Lone(t, ev, x, i) <=> i \in Events(t, ev, x) /\ \A j \in Events(t, ev, x) : j = i
    BY <1>1 DEF Lone
  <2>2. QED
    BY <2>1
<1>4. Cardinality(Events(t, ev, x)) = 1 <=> \E i : Events(t, ev, x) = {i}
  BY <1>2, FS_Singleton
<1>5. \A i : Lone(t, ev, x, i) => When(t, ev, x) = i
  BY <1>3 DEF When
<1>6. QED
  BY <1>3, <1>4, <1>5

\* What Orderly says, by the places of the events.
LEMMA OrderlyMeans ==
  ASSUME NEW t \in Seq(Event)
  PROVE  Orderly(t) <=>
           /\ \A x \in Here(t) : \E i, l :
                 /\ Lone(t, "in", x, i) /\ Lone(t, "out", x, l)
                 /\ i < l /\ t[i].data = t[l].data
           /\ \A x, y \in Here(t) : \A i, j, k, l :
                 Pair(t, x, y, i, j, k, l) => PairInTurn(t, x, y, k, l)
<1> DEFINE ItemOk(x) ==
             /\ Cardinality(Events(t, "in", x)) = 1
             /\ Cardinality(Events(t, "out", x)) = 1
             /\ When(t, "in", x) < When(t, "out", x)
             /\ t[When(t, "in", x)].data = t[When(t, "out", x)].data
           ItemIs(x) == \E i, l : /\ Lone(t, "in", x, i) /\ Lone(t, "out", x, l)
                                  /\ i < l /\ t[i].data = t[l].data
           PairOk(x, y) ==
             (x # y /\ Before(t, "in", x, y) /\ Binds(x, y)) =>
                /\ Before(t, "out", x, y)
                /\ <<stream.cls[x], stream.cls[y]>> \in stream.strict_after => Cyc(t, x) < Cyc(t, y)
           PairIs(x, y) ==
             \A i, j, k, l : Pair(t, x, y, i, j, k, l) => PairInTurn(t, x, y, k, l)
<1>1. Orderly(t) <=> /\ \A x \in Here(t) : ItemOk(x)
                     /\ \A x, y \in Here(t) : PairOk(x, y)
  BY DEF Orderly, Here
<1>2. \A x : ItemOk(x) <=> ItemIs(x)
  <2> TAKE x
  <2>1. ASSUME ItemOk(x) PROVE ItemIs(x)
    <3>1. PICK i, l : Lone(t, "in", x, i) /\ Lone(t, "out", x, l)
      BY <2>1, LoneIs
    <3>2. When(t, "in", x) = i /\ When(t, "out", x) = l
      BY <3>1, LoneIs
    <3>3. i < l /\ t[i].data = t[l].data
      BY <2>1, <3>2
    <3>4. QED
      BY <3>1, <3>3
  <2>2. ASSUME ItemIs(x) PROVE ItemOk(x)
    <3>1. PICK i, l : /\ Lone(t, "in", x, i) /\ Lone(t, "out", x, l)
                      /\ i < l /\ t[i].data = t[l].data
      BY <2>2
    <3>2. /\ When(t, "in", x) = i /\ When(t, "out", x) = l
          /\ Cardinality(Events(t, "in", x)) = 1 /\ Cardinality(Events(t, "out", x)) = 1
      BY <3>1, LoneIs
    <3>3. QED
      BY <3>1, <3>2
  <2>3. QED
    BY <2>1, <2>2
<1>3. ASSUME NEW x, NEW y, ItemIs(x), ItemIs(y)
      PROVE  PairOk(x, y) <=> PairIs(x, y)
  <2>1. PICK i, k : Lone(t, "in", x, i) /\ Lone(t, "out", x, k)
    BY <1>3
  <2>2. PICK j, l : Lone(t, "in", y, j) /\ Lone(t, "out", y, l)
    BY <1>3
  <2>3. /\ When(t, "in", x) = i /\ When(t, "out", x) = k
        /\ When(t, "in", y) = j /\ When(t, "out", y) = l
    BY <2>1, <2>2, LoneIs
  <2>4. PairOk(x, y) <=>
          ((x # y /\ i < j /\ Bound(stream, x, y)) =>
              k < l /\ (Strict(stream, x, y) => t[k].cyc < t[l].cyc))
    BY <2>3, BindsIs DEF Before, Cyc, Strict
  <2>5. \A a, ev, z, b : Lone(t, ev, z, a) /\ Lone(t, ev, z, b) => a = b
    BY DEF Lone
  <2>6. \A a, b, c, d : Pair(t, x, y, a, b, c, d) => a = i /\ b = j /\ c = k /\ d = l
    BY <2>1, <2>2, <2>5 DEF Pair
  <2>7. PairIs(x, y) <=> (Pair(t, x, y, i, j, k, l) => PairInTurn(t, x, y, k, l))
    BY <2>6
  <2>8. PairIs(x, y) <=> PairOk(x, y)
    BY <2>1, <2>2, <2>4, <2>7 DEF Pair, PairInTurn
  <2>9. QED
    BY <2>8
<1> HIDE DEF ItemOk, ItemIs, PairOk, PairIs
<1>4. Orderly(t) <=> /\ \A x \in Here(t) : ItemIs(x)
                     /\ \A x, y \in Here(t) : PairIs(x, y)
  BY <1>1, <1>2, <1>3
<1>5. QED
  BY <1>4 DEF ItemIs, PairIs

\* A trace is orderly if the rule held up to its end and nothing is left behind.
LEMMA OrderlyIs ==
  ASSUME NEW t \in Seq(Event)
  PROVE  Orderly(t) <=> UpToNow(stream, t) /\ AllLeft(t)
<1>1. ASSUME Orderly(t)
      PROVE  UpToNow(stream, t) /\ AllLeft(t)
  <2>1. \A x \in Here(t) : \E i, l :
           /\ Lone(t, "in", x, i) /\ Lone(t, "out", x, l)
           /\ i < l /\ t[i].data = t[l].data
    BY <1>1, OrderlyMeans
  <2>2. \A x, i : At(t, "in", x, i) \/ At(t, "out", x, i) => x \in Here(t)
    BY HereIs
  <2>3. Once(t)
    BY <2>1, <2>2 DEF Once, Lone
  <2>4. Came(t)
    BY <2>1, <2>2 DEF Came, Lone
  <2>5. AllLeft(t)
    BY <2>1, <2>2 DEF AllLeft, Lone
  <2>6. InOrder(stream, t)
    <3> SUFFICES ASSUME NEW x, NEW y, NEW i, NEW j, NEW l, At(t, "in", x, i), At(t, "in", y, j),
                        i < j, Bound(stream, x, y), At(t, "out", y, l)
                 PROVE  InTurn(stream, t, x, y, l)
      BY DEF InOrder
    <3>1. x \in Here(t) /\ y \in Here(t)
      BY <2>2
    <3>2. Lone(t, "in", x, i) /\ Lone(t, "in", y, j) /\ Lone(t, "out", y, l)
      BY <2>3 DEF Once, Lone
    <3>3. PICK k : Lone(t, "out", x, k)
      BY <2>1, <3>1
    <3>4. x # y
      <4>1. i \in Int /\ j \in Int
        BY DEF At
      <4>2. x = y => i = j
        BY <3>2 DEF Lone
      <4>3. QED
        BY <4>1, <4>2
    <3>5. Pair(t, x, y, i, j, k, l)
      BY <3>2, <3>3, <3>4 DEF Pair
    <3>6. PairInTurn(t, x, y, k, l)
      BY <1>1, <3>1, <3>5, OrderlyMeans
    <3>7. QED
      BY <3>3, <3>6 DEF InTurn, Lone, PairInTurn
  <2>7. QED
    BY <2>3, <2>4, <2>5, <2>6 DEF UpToNow
<1>2. ASSUME UpToNow(stream, t), AllLeft(t)
      PROVE  Orderly(t)
  <2>1. Once(t) /\ Came(t) /\ InOrder(stream, t)
    BY <1>2 DEF UpToNow
  <2>2. \A x, i : (At(t, "in", x, i) => Lone(t, "in", x, i)) /\ (At(t, "out", x, i) => Lone(t, "out", x, i))
    BY <2>1 DEF Once, Lone
  <2>3. ASSUME NEW x \in Here(t)
        PROVE  \E i, l : /\ Lone(t, "in", x, i) /\ Lone(t, "out", x, l)
                         /\ i < l /\ t[i].data = t[l].data
    <3>1. PICK l : At(t, "out", x, l)
      BY <1>2, HereIs DEF AllLeft
    <3>2. PICK i : At(t, "in", x, i) /\ i < l /\ t[i].data = t[l].data
      BY <2>1, <3>1 DEF Came
    <3>3. QED
      BY <2>2, <3>1, <3>2
  <2>4. \A x, y \in Here(t) : \A i, j, k, l :
           Pair(t, x, y, i, j, k, l) => PairInTurn(t, x, y, k, l)
    <3> TAKE x, y \in Here(t)
    <3> TAKE i, j, k, l
    <3> HAVE Pair(t, x, y, i, j, k, l)
    <3>1. InTurn(stream, t, x, y, l)
      BY <2>1 DEF InOrder, Lone, Pair
    <3>2. PICK h : At(t, "out", x, h) /\ h < l /\ (Strict(stream, x, y) => t[h].cyc < t[l].cyc)
      BY <3>1 DEF InTurn
    <3>3. h = k
      BY <3>2 DEF Lone, Pair
    <3>4. QED
      BY <3>2, <3>3 DEF PairInTurn
  <2>5. QED
    BY <2>3, <2>4, OrderlyMeans
<1>3. QED
  BY <1>1, <1>2

\* A checker at the end of a trace has nothing to say just of those.
LEMMA FinishIs ==
  ASSUME NEW t \in Seq(Event), NEW w \in Checker, Exact(stream, w, t)
  PROVE  Finish(w) = {} <=> Orderly(t)
<1>1. w.live \in Seq(Event)
  BY DEF Checker
<1>2. Finish(w) = {} <=> w.live = <<>> /\ w.errs = {}
  BY DEF Finish
<1>3. w.live = <<>> <=> DOMAIN w.live = {}
  <2>1. Len(w.live) \in Nat /\ DOMAIN w.live = 1 .. Len(w.live)
    BY <1>1
  <2>2. w.live = <<>> <=> Len(w.live) = 0
    BY <1>1, EmptySeq
  <2>3. Len(w.live) # 0 => 1 \in 1 .. Len(w.live)
    BY <2>1
  <2>4. QED
    BY <2>1, <2>2, <2>3
<1>4. w.errs = {} => (DOMAIN w.live = {} <=> AllLeft(t))
  <2> SUFFICES ASSUME w.errs = {} PROVE DOMAIN w.live = {} <=> AllLeft(t)
    OBVIOUS
  <2>1. LiveIs(w, t) /\ LeftIs(w, t)
    BY DEF Exact, Follows
  <2>2. \A x : (\E a \in DOMAIN w.live : w.live[a].id = x)
                 <=> (\E i : At(t, "in", x, i)) /\ ~\E l : At(t, "out", x, l)
    BY <2>1 DEF LiveIs, LeftIs
  <2>3. DOMAIN w.live = {} <=> \A x : ~\E a \in DOMAIN w.live : w.live[a].id = x
    OBVIOUS
  <2>4. QED
    BY <2>2, <2>3 DEF AllLeft
<1>5. QED
  BY <1>2, <1>3, <1>4, OrderlyIs DEF Exact

------------------------------------------------------------------------------
(* Two whole traces. *)

\* x went before y in t.
Ev == {"in", "out"}
Precedes(t, ev, x, y) == x \in Here(t) /\ y \in Here(t) /\ x # y /\ Before(t, ev, x, y)

LEMMA WholeTrace ==
  ASSUME NEW t \in Seq(Event), Orderly(t)
  PROVE  /\ {<<e.id, e.data>> : e \in Ins(t)} = {<<e.id, e.data>> : e \in Outs(t)}
         /\ Ids(Outs(t)) = Here(t)
         /\ \A x, c : <<x, c>> \in {<<e.id, e.cyc>> : e \in Outs(t)} <=> x \in Here(t) /\ c = Cyc(t, x)
         /\ \A ev \in Ev : \A x, y : <<x, y>> \in Ahead(t, ev) <=> Precedes(t, ev, x, y)
         /\ \A ev \in Ev : \A x, y \in Here(t) :
               x # y => (Precedes(t, ev, y, x) <=> ~Precedes(t, ev, x, y))
         /\ \A x, y : Precedes(t, "in", x, y) /\ Bound(stream, x, y) => Precedes(t, "out", x, y)
<1>1. \A x \in Here(t) : \E i, l :
           /\ Lone(t, "in", x, i) /\ Lone(t, "out", x, l)
           /\ i < l /\ t[i].data = t[l].data
  BY OrderlyMeans
<1>2. \A x, i : At(t, "in", x, i) \/ At(t, "out", x, i) => x \in Here(t)
  BY HereIs
<1>3. \A ev, x, i : Lone(t, ev, x, i) => When(t, ev, x) = i
  BY LoneIs
<1>4. \A ev \in Ev : \A x \in Here(t) : Lone(t, ev, x, When(t, ev, x))
  BY <1>1, <1>3 DEF Ev
<1>5. \A ev \in Ev : \A x, i : At(t, ev, x, i) => x \in Here(t) /\ i = When(t, ev, x)
  BY <1>2, <1>4 DEF Ev, Lone
<1>6. \A ev, x, i : At(t, ev, x, i) => i \in Nat /\ i \in DOMAIN t /\ t[i].ev = ev /\ t[i].id = x
  BY DEF At
<1>7. \A ev, i : i \in Places(t, ev) <=> At(t, ev, t[i].id, i)
  BY DEF At, Places
<1>8. \A ev, other \in Ev : \A x \in Here(t) : t[When(t, ev, x)].data = t[When(t, other, x)].data
  BY <1>1, <1>3 DEF Ev
<1>9. \A ev \in Ev : \A x \in Here(t) : When(t, ev, x) \in Places(t, ev) /\ t[When(t, ev, x)].id = x
  <2> TAKE ev \in Ev
  <2> TAKE x \in Here(t)
  <2>1. At(t, ev, x, When(t, ev, x))
    BY <1>4 DEF Lone
  <2>2. QED
    BY <1>6, <1>7, <2>1
<1>10. {<<e.id, e.data>> : e \in Ins(t)} = {<<e.id, e.data>> : e \in Outs(t)}
  <2>1. ASSUME NEW ev \in Ev, NEW other \in Ev, NEW i \in Places(t, ev)
        PROVE  \E k \in Places(t, other) : t[k].id = t[i].id /\ t[k].data = t[i].data
    <3>1. t[i].id \in Here(t) /\ t[i].data = t[When(t, ev, t[i].id)].data
      BY <1>5, <1>7
    <3>2. t[i].data = t[When(t, other, t[i].id)].data
      BY <1>8, <3>1
    <3>3. QED
      BY <1>9, <3>1, <3>2
  <2>2. ASSUME NEW e \in Ins(t) PROVE <<e.id, e.data>> \in {<<f.id, f.data>> : f \in Outs(t)}
    <3>1. PICK i \in Places(t, "in") : e = t[i]
      BY DEF Ins
    <3>2. PICK k \in Places(t, "out") : t[k].id = e.id /\ t[k].data = e.data
      BY <2>1, <3>1 DEF Ev
    <3>3. t[k] \in Outs(t)
      BY DEF Outs
    <3>4. QED
      BY <3>2, <3>3
  <2>3. ASSUME NEW e \in Outs(t) PROVE <<e.id, e.data>> \in {<<f.id, f.data>> : f \in Ins(t)}
    <3>1. PICK i \in Places(t, "out") : e = t[i]
      BY DEF Outs
    <3>2. PICK k \in Places(t, "in") : t[k].id = e.id /\ t[k].data = e.data
      BY <2>1, <3>1 DEF Ev
    <3>3. t[k] \in Ins(t)
      BY DEF Ins
    <3>4. QED
      BY <3>2, <3>3
  <2>4. QED
    BY <2>2, <2>3
<1>11. Ids(Outs(t)) = Here(t)
  <2>1. \A x : x \in Ids(Outs(t)) <=> \E i \in Places(t, "out") : t[i].id = x
    BY DEF Ids, Outs
  <2>2. \A x : (\E i \in Places(t, "out") : t[i].id = x) <=> x \in Here(t)
    <3> TAKE x
    <3>1. ASSUME NEW i \in Places(t, "out"), t[i].id = x PROVE x \in Here(t)
      BY <1>2, <1>7, <3>1
    <3>2. ASSUME x \in Here(t) PROVE \E i \in Places(t, "out") : t[i].id = x
      <4>1. "out" \in Ev
        BY DEF Ev
      <4>2. QED
        BY <1>9, <3>2, <4>1
    <3>3. QED
      BY <3>1, <3>2
  <2>3. QED
    BY <2>1, <2>2 DEF Ids
<1>12. ASSUME NEW x, NEW c
       PROVE  <<x, c>> \in {<<e.id, e.cyc>> : e \in Outs(t)} <=> x \in Here(t) /\ c = Cyc(t, x)
  <2>1. <<x, c>> \in {<<e.id, e.cyc>> : e \in Outs(t)}
          <=> \E i \in Places(t, "out") : t[i].id = x /\ t[i].cyc = c
    BY DEF Outs
  <2>2. ASSUME NEW i \in Places(t, "out"), t[i].id = x, t[i].cyc = c
        PROVE  x \in Here(t) /\ c = Cyc(t, x)
    BY <1>5, <1>7, <2>2 DEF Ev, Cyc
  <2>3. ASSUME x \in Here(t), c = Cyc(t, x)
        PROVE  \E i \in Places(t, "out") : t[i].id = x /\ t[i].cyc = c
    <3>1. At(t, "out", x, When(t, "out", x))
      BY <1>4, <2>3 DEF Lone, Ev
    <3>2. When(t, "out", x) \in Places(t, "out") /\ t[When(t, "out", x)].id = x
      BY <1>6, <1>7, <3>1
    <3>3. QED
      BY <2>3, <3>2 DEF Cyc
  <2>4. QED
    BY <2>1, <2>2, <2>3
<1>13. ASSUME NEW ev \in Ev, NEW x, NEW y
       PROVE  <<x, y>> \in Ahead(t, ev) <=> Precedes(t, ev, x, y)
  <2>1. <<x, y>> \in Ahead(t, ev)
          <=> \E i, j \in Places(t, ev) : i < j /\ t[i].id = x /\ t[j].id = y
    <3>1. ASSUME <<x, y>> \in Ahead(t, ev)
          PROVE  \E i, j \in Places(t, ev) : i < j /\ t[i].id = x /\ t[j].id = y
      BY <3>1 DEF Ahead
    <3>2. ASSUME NEW i \in Places(t, ev), NEW j \in Places(t, ev), i < j, t[i].id = x, t[j].id = y
          PROVE  <<x, y>> \in Ahead(t, ev)
      <4>1. <<i, j>> \in {q \in Places(t, ev) \X Places(t, ev) : q[1] < q[2]}
        BY <3>2
      <4>2. <<t[<<i, j>>[1]].id, t[<<i, j>>[2]].id>> \in Ahead(t, ev)
        BY <4>1 DEF Ahead
      <4>3. QED
        BY <3>2, <4>2
    <3>3. QED
      BY <3>1, <3>2
  <2>2. ASSUME NEW i \in Places(t, ev), NEW j \in Places(t, ev), i < j, t[i].id = x, t[j].id = y
        PROVE  Precedes(t, ev, x, y)
    <3>1. At(t, ev, x, i) /\ At(t, ev, y, j)
      BY <1>7, <2>2
    <3>2. x \in Here(t) /\ i = When(t, ev, x) /\ y \in Here(t) /\ j = When(t, ev, y)
      BY <1>5, <3>1
    <3>3. x # y
      BY <1>6, <2>2, <3>1, <3>2
    <3>4. QED
      BY <2>2, <3>2, <3>3 DEF Precedes, Before
  <2>3. ASSUME Precedes(t, ev, x, y)
        PROVE  \E i, j \in Places(t, ev) : i < j /\ t[i].id = x /\ t[j].id = y
    <3>1. x \in Here(t) /\ y \in Here(t) /\ When(t, ev, x) < When(t, ev, y)
      BY <2>3 DEF Precedes, Before
    <3>2. At(t, ev, x, When(t, ev, x)) /\ At(t, ev, y, When(t, ev, y))
      BY <1>4, <3>1 DEF Lone
    <3>3. QED
      BY <1>6, <1>7, <3>1, <3>2
  <2>4. QED
    BY <2>1, <2>2, <2>3
<1>14. ASSUME NEW ev \in Ev, NEW x \in Here(t), NEW y \in Here(t), x # y
       PROVE  Precedes(t, ev, y, x) <=> ~Precedes(t, ev, x, y)
  <2>1. At(t, ev, x, When(t, ev, x)) /\ At(t, ev, y, When(t, ev, y))
    BY <1>4 DEF Lone
  <2>2. /\ When(t, ev, x) \in Nat /\ When(t, ev, y) \in Nat
        /\ t[When(t, ev, x)].id = x /\ t[When(t, ev, y)].id = y
    BY <1>6, <2>1
  <2>3. When(t, ev, x) # When(t, ev, y)
    BY <1>14, <2>2
  <2>4. QED
    BY <1>14, <2>2, <2>3 DEF Precedes, Before
<1>15. ASSUME NEW x, NEW y, Precedes(t, "in", x, y), Bound(stream, x, y)
       PROVE  Precedes(t, "out", x, y)
  <2>1. x \in Here(t) /\ y \in Here(t) /\ x # y /\ When(t, "in", x) < When(t, "in", y)
    BY <1>15 DEF Precedes, Before
  <2>2. /\ Lone(t, "in", x, When(t, "in", x)) /\ Lone(t, "in", y, When(t, "in", y))
        /\ Lone(t, "out", x, When(t, "out", x)) /\ Lone(t, "out", y, When(t, "out", y))
    BY <1>4, <2>1 DEF Ev
  <2>3. Pair(t, x, y, When(t, "in", x), When(t, "in", y), When(t, "out", x), When(t, "out", y))
    BY <1>15, <2>1, <2>2 DEF Pair
  <2>4. When(t, "out", x) < When(t, "out", y)
    BY <2>1, <2>3, OrderlyMeans DEF PairInTurn
  <2>5. QED
    BY <2>1, <2>4 DEF Precedes, Before
<1>16. QED
  BY <1>10, <1>11, <1>12, <1>13, <1>14, <1>15

\* The items of t come in the order of their ids, none left out.
InIdOrder(t) ==
  \A x, i : At(t, "in", x, i) =>
     x \in Items /\ \A y \in Items : y < x => \E k : At(t, "in", y, k) /\ k < i

LEMMA IdOrder ==
  ASSUME NEW t \in Seq(Event), Orderly(t), InIdOrder(t), Items \subseteq Int
  PROVE  \A x, y \in Here(t) : x # y => (Precedes(t, "in", x, y) <=> x < y)
<1>1. \A x \in Here(t) : \E i : Lone(t, "in", x, i) /\ When(t, "in", x) = i
  BY OrderlyMeans, LoneIs
<1>2. ASSUME NEW x \in Here(t), NEW y \in Here(t), x # y, x < y
      PROVE  Precedes(t, "in", x, y)
  <2>1. PICK i : Lone(t, "in", x, i) /\ When(t, "in", x) = i
    BY <1>1
  <2>2. PICK j : Lone(t, "in", y, j) /\ When(t, "in", y) = j
    BY <1>1
  <2>3. x \in Items
    BY <2>1 DEF InIdOrder, Lone
  <2>4. PICK k : At(t, "in", x, k) /\ k < j
    BY <1>2, <2>2, <2>3 DEF InIdOrder, Lone
  <2>5. k = i
    BY <2>1, <2>4 DEF Lone
  <2>6. QED
    BY <1>2, <2>1, <2>2, <2>4, <2>5 DEF Precedes, Before
<1>3. \A x \in Here(t) : x \in Int
  BY <1>1 DEF InIdOrder, Lone
<1>4. "in" \in Ev
  BY DEF Ev
<1>5. \A x, y \in Here(t) : x # y => (Precedes(t, "in", y, x) <=> ~Precedes(t, "in", x, y))
  BY <1>4, WholeTrace
<1>6. ASSUME NEW x \in Here(t), NEW y \in Here(t), x # y, ~(x < y)
      PROVE  ~Precedes(t, "in", x, y)
  <2>1. y < x
    BY <1>3, <1>6
  <2>2. Precedes(t, "in", y, x)
    BY <1>2, <1>6, <2>1
  <2>3. QED
    BY <1>5, <1>6, <2>2
<1>7. QED
  BY <1>2, <1>6

\* What SameStream says, of two traces.
Same(t, u) ==
  /\ {<<e.id, e.data>> : e \in Ins(t)} = {<<e.id, e.data>> : e \in Ins(u)}
  /\ \A x, y \in Here(t) :
        (x # y /\ Bound(stream, x, y) /\ Bound(stream, y, x)) =>
           (Before(t, "out", x, y) <=> Before(u, "out", x, y))
  /\ stream.pin => \A x \in Here(t) : Cyc(t, x) = Cyc(u, x)

LEMMA PairSets ==
  ASSUME NEW S, NEW T, \A p \in S \cup T : \E x, y : p = <<x, y>>
  PROVE  S = T <=> \A x, y : <<x, y>> \in S <=> <<x, y>> \in T
<1>1. ASSUME \A x, y : <<x, y>> \in S <=> <<x, y>> \in T
      PROVE  S = T
  <2>1. ASSUME NEW p PROVE p \in S <=> p \in T
    <3>1. CASE p \in S \cup T
      <4>1. PICK x, y : p = <<x, y>>
        BY <3>1
      <4>2. QED
        BY <1>1, <4>1
    <3>2. QED
      BY <3>1
  <2>2. QED
    BY <2>1
<1>2. QED
  BY <1>1

\* The bound relative orders of two orderly traces of the same items.
LEMMA SameOrders ==
  ASSUME NEW t \in Seq(Event), NEW u \in Seq(Event), Orderly(t), Orderly(u),
         Here(t) = Here(u),
         Symmetric \/ (InIdOrder(t) /\ InIdOrder(u) /\ Items \subseteq Int)
  PROVE  Order(t) = Order(u) <=>
           \A x, y \in Here(t) :
              (x # y /\ Bound(stream, x, y) /\ Bound(stream, y, x)) =>
                 (Precedes(t, "out", x, y) <=> Precedes(u, "out", x, y))
<1> DEFINE P(x, y) == x # y /\ Bound(stream, x, y) /\ Bound(stream, y, x)
           H == Here(t)
<1>1. "in" \in Ev /\ "out" \in Ev
  BY DEF Ev
<1>2. /\ \A x, y : <<x, y>> \in Ahead(t, "out") <=> Precedes(t, "out", x, y)
      /\ \A x, y : <<x, y>> \in Ahead(u, "out") <=> Precedes(u, "out", x, y)
      /\ \A x, y : <<x, y>> \in Ahead(t, "in") <=> Precedes(t, "in", x, y)
      /\ \A x, y : <<x, y>> \in Ahead(u, "in") <=> Precedes(u, "in", x, y)
  BY <1>1, WholeTrace
<1>3. /\ \A x, y : Precedes(t, "in", x, y) /\ Bound(stream, x, y) => Precedes(t, "out", x, y)
      /\ \A x, y : Precedes(u, "in", x, y) /\ Bound(stream, x, y) => Precedes(u, "out", x, y)
  BY WholeTrace
<1>4. /\ \A x, y : Precedes(t, "out", x, y) => x \in H /\ y \in H /\ x # y
      /\ \A x, y : Precedes(u, "out", x, y) => x \in H /\ y \in H /\ x # y
      /\ \A x, y : Precedes(t, "in", x, y) => x \in H /\ y \in H /\ x # y
      /\ \A x, y : Precedes(u, "in", x, y) => x \in H /\ y \in H /\ x # y
  BY DEF Precedes
<1>5. Ids(Outs(t)) = H /\ Ids(Outs(u)) = H
  BY WholeTrace
<1>6. \A ev : \A p \in Ahead(t, ev) \cup Ahead(u, ev) : \E x, y : p = <<x, y>>
  BY DEF Ahead
<1> HIDE DEF H
<1>7. CASE stream.allow_pass = {}
  <2>1. Order(t) = {p \in Ahead(t, "out") : stream.per_key => stream.key[p[1]] = stream.key[p[2]]}
    BY <1>7 DEF Order
  <2>2. Order(u) = {p \in Ahead(u, "out") : stream.per_key => stream.key[p[1]] = stream.key[p[2]]}
    BY <1>7 DEF Order
  <2>3. \A x, y : Bound(stream, x, y) <=> (stream.per_key => stream.key[x] = stream.key[y])
    BY <1>7 DEF Bound
  <2>4. \A x, y : <<x, y>> \in Order(t) <=> Precedes(t, "out", x, y) /\ Bound(stream, x, y)
    BY <1>2, <2>1, <2>3
  <2>5. \A x, y : <<x, y>> \in Order(u) <=> Precedes(u, "out", x, y) /\ Bound(stream, x, y)
    BY <1>2, <2>2, <2>3
  <2>6. \A x, y : Bound(stream, x, y) => Bound(stream, y, x)
    BY <2>3
  <2>7. \A p \in Order(t) \cup Order(u) : \E x, y : p = <<x, y>>
    BY <1>6, <2>1, <2>2
  <2>8. Order(t) = Order(u) <=> \A x, y : <<x, y>> \in Order(t) <=> <<x, y>> \in Order(u)
    BY <2>7, PairSets
  <2>9. QED
    BY <1>4, <2>4, <2>5, <2>6, <2>8 DEF H
<1>8. CASE stream.allow_pass # {}
  <2>1. \A p : p \in BoundPairs(t) <=>
          \E x, y : p = <<x, y>> /\ Precedes(t, "in", x, y) /\ Bound(stream, x, y)
    <3> TAKE p
    <3>1. p \in BoundPairs(t) <=>
            p \in Ahead(t, "in") /\ Binds(p[1], p[2]) /\ {p[1], p[2]} \subseteq H
      BY <1>5 DEF BoundPairs
    <3>2. ASSUME p \in BoundPairs(t)
          PROVE  \E x, y : p = <<x, y>> /\ Precedes(t, "in", x, y) /\ Bound(stream, x, y)
      <4>1. PICK x, y : p = <<x, y>>
        BY <1>6, <3>1, <3>2
      <4>2. p[1] = x /\ p[2] = y
        BY <4>1
      <4>3. QED
        BY <1>2, <3>1, <3>2, <4>1, <4>2, BindsIs
    <3>3. ASSUME NEW x, NEW y, p = <<x, y>>, Precedes(t, "in", x, y), Bound(stream, x, y)
          PROVE  p \in BoundPairs(t)
      <4>1. p[1] = x /\ p[2] = y
        BY <3>3
      <4>2. QED
        BY <1>2, <1>4, <3>1, <3>3, <4>1, BindsIs
    <3>4. QED
      BY <3>2, <3>3
  <2>2. \A p : p \in BoundPairs(u) <=>
          \E x, y : p = <<x, y>> /\ Precedes(u, "in", x, y) /\ Bound(stream, x, y)
    <3> TAKE p
    <3>1. p \in BoundPairs(u) <=>
            p \in Ahead(u, "in") /\ Binds(p[1], p[2]) /\ {p[1], p[2]} \subseteq H
      BY <1>5 DEF BoundPairs
    <3>2. ASSUME p \in BoundPairs(u)
          PROVE  \E x, y : p = <<x, y>> /\ Precedes(u, "in", x, y) /\ Bound(stream, x, y)
      <4>1. PICK x, y : p = <<x, y>>
        BY <1>6, <3>1, <3>2
      <4>2. p[1] = x /\ p[2] = y
        BY <4>1
      <4>3. QED
        BY <1>2, <3>1, <3>2, <4>1, <4>2, BindsIs
    <3>3. ASSUME NEW x, NEW y, p = <<x, y>>, Precedes(u, "in", x, y), Bound(stream, x, y)
          PROVE  p \in BoundPairs(u)
      <4>1. p[1] = x /\ p[2] = y
        BY <3>3
      <4>2. QED
        BY <1>2, <1>4, <3>1, <3>3, <4>1, BindsIs
    <3>4. QED
      BY <3>2, <3>3
  <2>3. \A p \in BoundPairs(t) : (p \in Ahead(t, "out")) = TRUE
    BY <1>2, <1>3, <2>1
  <2>4. \A p \in BoundPairs(u) : (p \in Ahead(u, "out")) = TRUE
    BY <1>2, <1>3, <2>2
  <2>5. Order(t) = {<<p, TRUE>> : p \in BoundPairs(t)}
    BY <1>8, <2>3 DEF Order
  <2>6. Order(u) = {<<p, TRUE>> : p \in BoundPairs(u)}
    BY <1>8, <2>4 DEF Order
  <2>7. \A p : p \in BoundPairs(t) <=> <<p, TRUE>> \in Order(t)
    BY <2>5
  <2>8. \A p : p \in BoundPairs(u) <=> <<p, TRUE>> \in Order(u)
    BY <2>6
  <2>9. Order(t) = Order(u) <=> BoundPairs(t) = BoundPairs(u)
    <3>1. BoundPairs(t) = BoundPairs(u) => Order(t) = Order(u)
      BY <2>5, <2>6
    <3>2. Order(t) = Order(u) => \A p : p \in BoundPairs(t) <=> p \in BoundPairs(u)
      BY <2>7, <2>8
    <3>3. (\A p : p \in BoundPairs(t) <=> p \in BoundPairs(u)) => BoundPairs(t) = BoundPairs(u)
      OBVIOUS
    <3>4. QED
      BY <3>1, <3>2, <3>3
  <2>10. BoundPairs(t) = BoundPairs(u) <=>
           \A x, y : Bound(stream, x, y) => (Precedes(t, "in", x, y) <=> Precedes(u, "in", x, y))
    <3>1. \A x, y : <<x, y>> \in BoundPairs(t) <=> Precedes(t, "in", x, y) /\ Bound(stream, x, y)
      BY <2>1
    <3>2. \A x, y : <<x, y>> \in BoundPairs(u) <=> Precedes(u, "in", x, y) /\ Bound(stream, x, y)
      BY <2>2
    <3>3. \A p \in BoundPairs(t) \cup BoundPairs(u) : \E x, y : p = <<x, y>>
      BY <2>1, <2>2
    <3>4. BoundPairs(t) = BoundPairs(u) <=>
            \A x, y : <<x, y>> \in BoundPairs(t) <=> <<x, y>> \in BoundPairs(u)
      BY <3>3, PairSets
    <3>5. QED
      BY <3>1, <3>2, <3>4
  <2>11. /\ \A x, y \in H : x # y => (Precedes(t, "in", y, x) <=> ~Precedes(t, "in", x, y))
         /\ \A x, y \in H : x # y => (Precedes(t, "out", y, x) <=> ~Precedes(t, "out", x, y))
         /\ \A x, y \in H : x # y => (Precedes(u, "in", y, x) <=> ~Precedes(u, "in", x, y))
         /\ \A x, y \in H : x # y => (Precedes(u, "out", y, x) <=> ~Precedes(u, "out", x, y))
    BY <1>1, WholeTrace DEF H
  \* A pair that binds both ways leaves as it came.
  <2>12. \A x, y \in H : P(x, y) => /\ Precedes(t, "in", x, y) <=> Precedes(t, "out", x, y)
                                    /\ Precedes(u, "in", x, y) <=> Precedes(u, "out", x, y)
    BY <1>3, <2>11
  <2>13. CASE Symmetric
    <3>1. \A x, y : Bound(stream, x, y) => Bound(stream, y, x)
      BY <2>13 DEF Symmetric, Bound
    <3>2. (\A x, y : Bound(stream, x, y) => (Precedes(t, "in", x, y) <=> Precedes(u, "in", x, y)))
            <=> \A x, y \in H : P(x, y) => (Precedes(t, "in", x, y) <=> Precedes(u, "in", x, y))
      BY <1>4, <3>1
    <3>3. QED
      BY <2>9, <2>10, <2>12, <3>2 DEF H
  <2>14. CASE InIdOrder(t) /\ InIdOrder(u) /\ Items \subseteq Int
    <3>1. \A x, y \in H : x # y => /\ Precedes(t, "in", x, y) <=> x < y
                                   /\ Precedes(u, "in", x, y) <=> x < y
      BY <2>14, IdOrder DEF H
    <3>2. \A x, y : Precedes(t, "in", x, y) <=> Precedes(u, "in", x, y)
      BY <1>4, <3>1
    <3>3. QED
      BY <2>9, <2>10, <2>12, <3>2 DEF H
  <2>15. QED
    BY <2>13, <2>14
<1>9. QED
  BY <1>7, <1>8

\* Two orderly traces have one canonical form just when they are the same stream.
LEMMA SameForm ==
  ASSUME NEW t \in Seq(Event), NEW u \in Seq(Event), Orderly(t), Orderly(u),
         Symmetric \/ (InIdOrder(t) /\ InIdOrder(u) /\ Items \subseteq Int)
  PROVE  Canonical(t) = Canonical(u) <=> Same(t, u)
<1> DEFINE Items1(v) == {<<e.id, e.data>> : e \in Outs(v)}
           Cycles(v) == {<<e.id, e.cyc>> : e \in Outs(v)}
<1>1. /\ {<<e.id, e.data>> : e \in Ins(t)} = Items1(t)
      /\ {<<e.id, e.data>> : e \in Ins(u)} = Items1(u)
      /\ Ids(Outs(t)) = Here(t) /\ Ids(Outs(u)) = Here(u)
      /\ \A x, c : <<x, c>> \in Cycles(t) <=> x \in Here(t) /\ c = Cyc(t, x)
      /\ \A x, c : <<x, c>> \in Cycles(u) <=> x \in Here(u) /\ c = Cyc(u, x)
  BY WholeTrace
<1>2. Canonical(t) = Canonical(u) <=>
        /\ Items1(t) = Items1(u) /\ Order(t) = Order(u)
        /\ stream.pin => Cycles(t) = Cycles(u)
  BY DEF Canonical
<1>3. Items1(t) = Items1(u) => Here(t) = Here(u)
  <2> SUFFICES ASSUME Items1(t) = Items1(u) PROVE Ids(Outs(t)) = Ids(Outs(u))
    BY <1>1
  <2>1. \A x : x \in Ids(Outs(t)) <=> \E d : <<x, d>> \in Items1(t)
    BY DEF Ids
  <2>2. \A x : x \in Ids(Outs(u)) <=> \E d : <<x, d>> \in Items1(u)
    BY DEF Ids
  <2>3. \A x : x \in Ids(Outs(t)) <=> x \in Ids(Outs(u))
    BY <2>1, <2>2
  <2>4. QED
    BY <2>3 DEF Ids
<1>4. ASSUME Here(t) = Here(u)
      PROVE  Cycles(t) = Cycles(u) <=> \A x \in Here(t) : Cyc(t, x) = Cyc(u, x)
  <2>1. \A p \in Cycles(t) \cup Cycles(u) : \E x, c : p = <<x, c>>
    OBVIOUS
  <2> HIDE DEF Cycles
  <2>2. Cycles(t) = Cycles(u) <=> \A x, c : <<x, c>> \in Cycles(t) <=> <<x, c>> \in Cycles(u)
    BY <2>1, PairSets
  <2>3. QED
    BY <1>1, <1>4, <2>2
<1>5. ASSUME Here(t) = Here(u)
      PROVE  Order(t) = Order(u) <=>
               \A x, y \in Here(t) :
                  (x # y /\ Bound(stream, x, y) /\ Bound(stream, y, x)) =>
                     (Before(t, "out", x, y) <=> Before(u, "out", x, y))
  BY <1>5, SameOrders DEF Precedes
<1> HIDE DEF Items1, Cycles
<1>6. QED
  BY <1>1, <1>2, <1>3, <1>4, <1>5 DEF Same

------------------------------------------------------------------------------
(* The two views. *)

Kinds ==
  /\ stream \in Streams
  /\ trace \in [Views -> Seq(Event)]
  /\ chk \in [Views -> Checker]
  /\ at \in [view : Views, cyc : Nat]
Told == \A v \in Views : Exact(stream, chk[v], trace[v])
\* View "b" waits for view "a", and no item left in a later cycle than this one.
Clock ==
  /\ at.view = "a" => trace["b"] = <<>> /\ chk["b"] = Fresh
  /\ chk[at.view].cyc <= at.cyc
Numbered == \A v \in Views : v = "a" \/ ~Symmetric => InIdOrder(trace[v])
IInv == Kinds /\ Told /\ Clock /\ Numbered

LEMMA InitHolds ==
  ASSUME Init
  PROVE  IInv
<1>1. <<>> \in Seq(Event) /\ <<>> \in Seq(Int) /\ DOMAIN <<>> = {}
  OBVIOUS
<1>2. Fresh \in Checker
  BY <1>1 DEF Fresh, Checker
<1>3. \A ev, x, i : ~At(<<>>, ev, x, i)
  BY <1>1 DEF At
<1>4. UpToNow(stream, <<>>)
  BY <1>3 DEF UpToNow, Once, Came, InOrder
<1>5. Fresh.seen = <<>> /\ Fresh.live = <<>> /\ Fresh.left = {} /\ Fresh.last = {} /\ Fresh.errs = {}
  BY DEF Fresh
<1>6. Follows(Fresh, <<>>)
  BY <1>1, <1>3, <1>5 DEF Follows, SeenIs, LiveIs, LeftIs
<1>7. Exact(stream, Fresh, <<>>)
  BY <1>4, <1>5, <1>6 DEF Exact
<1>8. Kinds
  BY <1>1, <1>2 DEF Init, Kinds, Views
<1>9. \A v \in Views : trace[v] = <<>> /\ chk[v] = Fresh
  BY DEF Init
<1>10. Told
  BY <1>7, <1>9 DEF Told
<1>11. Clock
  BY <1>9 DEF Init, Clock, Views, Fresh
<1>12. Numbered
  BY <1>3, <1>9 DEF Numbered, InIdOrder
<1>13. QED
  BY <1>8, <1>10, <1>11, <1>12 DEF IInv

\* The view that runs sees one more event, and its checker was exact about it.
LEMMA SeeKeeps ==
  ASSUME IInv, NEW e \in Event, NEW w \in Checker, See(e, w), UNCHANGED <<stream, at>>,
         Exact(stream, w, Append(trace[at.view], e)), w.cyc <= at.cyc,
         e.ev = "in" /\ (at.view = "a" \/ ~Symmetric) =>
            e.id \in Items /\ \A y \in Items : y < e.id => \E k : At(trace[at.view], "in", y, k)
  PROVE  IInv'
<1> DEFINE t == trace[at.view]
           n == Len(t)
<1>1. /\ at.view \in Views /\ t \in Seq(Event)
      /\ trace \in [Views -> Seq(Event)] /\ chk \in [Views -> Checker]
  BY DEF IInv, Kinds
<1>2. /\ Append(t, e) \in Seq(Event)
      /\ n \in Nat
      /\ \A ev, x, i : At(t, ev, x, i) => i \in 1 .. n
      /\ \A ev, x, i : At(Append(t, e), ev, x, i)
            <=> At(t, ev, x, i) \/ (i = n + 1 /\ e.ev = ev /\ e.id = x)
  BY <1>1, OneMore
<1>3. /\ trace' = [trace EXCEPT ![at.view] = Append(t, e)]
      /\ chk' = [chk EXCEPT ![at.view] = w]
      /\ stream' = stream /\ at' = at
  BY DEF See
<1>4. /\ trace'[at.view] = Append(t, e) /\ chk'[at.view] = w
      /\ \A v \in Views \ {at.view} : trace'[v] = trace[v] /\ chk'[v] = chk[v]
  BY <1>1, <1>3
<1> HIDE DEF t, n
<1>5. Kinds'
  BY <1>1, <1>2, <1>3 DEF IInv, Kinds
<1>6. Told'
  <2> SUFFICES ASSUME NEW v \in Views PROVE Exact(stream', chk'[v], trace'[v])
    BY DEF Told
  <2>1. CASE v = at.view
    BY <1>3, <1>4, <2>1 DEF t
  <2>2. CASE v # at.view
    BY <1>3, <1>4, <2>2 DEF IInv, Told
  <2>3. QED
    BY <2>1, <2>2
<1>7. Clock'
  BY <1>3, <1>4 DEF IInv, Clock, Views
<1>8. Numbered'
  <2>1. Symmetric' = Symmetric /\ Items' = Items
    BY <1>3 DEF Symmetric, Items
  <2> SUFFICES ASSUME NEW v \in Views, v = "a" \/ ~Symmetric, NEW x, NEW i, At(trace'[v], "in", x, i)
               PROVE  x \in Items /\ \A y \in Items : y < x => \E k : At(trace'[v], "in", y, k) /\ k < i
    BY <2>1 DEF Numbered, InIdOrder
  <2>2. InIdOrder(trace[v])
    BY DEF IInv, Numbered
  <2>3. CASE v # at.view
    BY <1>4, <2>2, <2>3 DEF InIdOrder
  <2>4. CASE v = at.view
    <3>1. trace[v] = t /\ trace'[v] = Append(t, e)
      BY <1>4, <2>4 DEF t
    <3>2. CASE At(t, "in", x, i)
      BY <1>2, <2>2, <3>1, <3>2 DEF InIdOrder
    <3>3. CASE i = n + 1 /\ e.ev = "in" /\ e.id = x
      <4>1. x \in Items /\ \A y \in Items : y < x => \E k : At(t, "in", y, k)
        BY <2>4, <3>3 DEF t
      <4>2. \A y, k : At(t, "in", y, k) => At(trace'[v], "in", y, k) /\ k < i
        BY <1>2, <3>1, <3>3
      <4>3. QED
        BY <4>1, <4>2
    <3>4. QED
      BY <1>2, <3>1, <3>2, <3>3
  <2>5. QED
    BY <2>3, <2>4
<1>9. QED
  BY <1>5, <1>6, <1>7, <1>8 DEF IInv

LEMMA NextKeeps ==
  ASSUME ItemsFit, IInv, [Next]_vars
  PROVE  IInv'
<1> DEFINE v == at.view
<1>1. /\ v \in Views /\ at.cyc \in Nat
      /\ trace[v] \in Seq(Event) /\ chk[v] \in Checker
      /\ Exact(stream, chk[v], trace[v]) /\ chk[v].cyc <= at.cyc /\ chk[v].cyc \in Int
  BY DEF IInv, Kinds, Told, Clock, Checker
<1>2. Items \subseteq Int
  BY DEF IInv, Kinds, ItemsFit, Items
<1>3. ASSUME NEW x \in Items, NEW data \in 0 .. 1, EnterItem(x, data) PROVE IInv'
  <2> DEFINE e == [ev |-> "in", id |-> x, data |-> data, cyc |-> at.cyc]
  <2>1. e \in Event /\ e.ev = "in" /\ e.id = x
    BY <1>1, <1>2 DEF Event
  <2>2. See(e, Enter(chk[v], e)) /\ UNCHANGED <<stream, at>>
    BY <1>3 DEF EnterItem
  <2>3. v = "a" \/ ~Symmetric => \A y \in Items \ {x} : y < x => y \in Entered
    BY <1>3 DEF EnterItem
  <2> HIDE DEF e
  <2>4. /\ Enter(chk[v], e) \in Checker
        /\ Enter(chk[v], e).cyc = chk[v].cyc
        /\ Exact(stream, Enter(chk[v], e), Append(trace[v], e))
    BY <1>1, <2>1, EnterIsExact
  <2>5. v = "a" \/ ~Symmetric =>
          e.id \in Items /\ \A y \in Items : y < e.id => \E k : At(trace[v], "in", y, k)
    <3> SUFFICES ASSUME v = "a" \/ ~Symmetric, NEW y \in Items, y < x
                 PROVE  \E k : At(trace[v], "in", y, k)
      BY <2>1
    <3>1. y # x
      BY <1>2
    <3>2. y \in Entered
      BY <2>3, <3>1
    <3>3. QED
      BY <3>2 DEF Entered, Ids, Ins, Places, At
  <2>6. Enter(chk[v], e).cyc <= at.cyc
    BY <1>1, <2>4
  <2>7. QED
    BY <2>1, <2>2, <2>4, <2>5, <2>6, SeeKeeps
<1>4. ASSUME NEW x \in Items, NEW data \in 0 .. 1, LeaveItem(x, data) PROVE IInv'
  <2> DEFINE e == [ev |-> "out", id |-> x, data |-> data, cyc |-> at.cyc]
  <2>1. e \in Event /\ e.ev = "out" /\ e.cyc = at.cyc
    BY <1>1, <1>2 DEF Event
  <2>2. See(e, Leave(chk[v], e)) /\ UNCHANGED <<stream, at>>
    BY <1>4 DEF LeaveItem
  <2> HIDE DEF e
  <2>3. chk[v].cyc <= e.cyc
    BY <1>1, <2>1
  <2>4. /\ Leave(chk[v], e) \in Checker
        /\ Leave(chk[v], e).cyc <= at.cyc
        /\ Exact(stream, Leave(chk[v], e), Append(trace[v], e))
    BY <1>1, <2>1, <2>3, LeaveIsExact
  <2>5. e.ev # "in"
    BY <2>1
  <2>6. QED
    BY <2>1, <2>2, <2>4, <2>5, SeeKeeps
<1> HIDE DEF v
<1>5. CASE Tick
  <2>1. /\ at' = [at EXCEPT !.cyc = @ + 1]
        /\ stream' = stream /\ trace' = trace /\ chk' = chk
    BY <1>5 DEF Tick
  <2>2. at' \in [view : Views, cyc : Nat] /\ at'.view = at.view /\ at'.cyc = at.cyc + 1
    BY <2>1 DEF IInv, Kinds
  <2>3. Kinds' /\ Told'
    BY <2>1, <2>2 DEF IInv, Kinds, Told
  <2>4. Clock'
    BY <1>1, <2>1, <2>2 DEF IInv, Clock, v
  <2>5. Numbered'
    BY <2>1 DEF IInv, Numbered, InIdOrder, Symmetric, Items
  <2>6. QED
    BY <2>3, <2>4, <2>5 DEF IInv
<1>6. CASE NextView
  <2>1. /\ at.view = "a" /\ at' = [view |-> "b", cyc |-> 0]
        /\ stream' = stream /\ trace' = trace /\ chk' = chk
    BY <1>6 DEF NextView
  <2>2. Kinds' /\ Told'
    BY <2>1 DEF IInv, Kinds, Told, Views
  <2>3. Clock'
    BY <2>1 DEF IInv, Clock, Fresh
  <2>4. Numbered'
    BY <2>1 DEF IInv, Numbered, InIdOrder, Symmetric, Items
  <2>5. QED
    BY <2>2, <2>3, <2>4 DEF IInv
<1>7. CASE UNCHANGED vars
  BY <1>7 DEF vars, IInv, Kinds, Told, Clock, Numbered, InIdOrder, Symmetric, Items
<1>8. QED
  BY <1>3, <1>4, <1>5, <1>6, <1>7 DEF Next

\* Whatever came and left, the checker at the end of a view's trace (and so at every
\* moment, were the trace to end there) has nothing to say just when the trace keeps
\* the rule: each item left once, after it came and with its data, behind every item
\* before it that binds it, in a later cycle than a strict one.
CheckerSaysAll == \A v \in Views : Finish(chk[v]) = {} <=> Orderly(trace[v])
THEOREM CheckerIsExact ==
  ASSUME ItemsFit
  PROVE  Spec => []CheckerSaysAll
<1>1. Init => IInv
  BY InitHolds
<1>2. IInv /\ [Next]_vars => IInv'
  BY ItemsFit, NextKeeps
<1>3. IInv => CheckerSaysAll
  BY FinishIs DEF IInv, Kinds, Told, CheckerSaysAll
<1>4. QED
  BY <1>1, <1>2, <1>3, PTL DEF Spec

\* compare finds no difference just when both views kept the rule and are one function,
\* for every rule, any items and any wrong events of the second view.
THEOREM CompareIsExact ==
  ASSUME ItemsFit
  PROVE  Spec => []SameFunction
<1>1. Init => IInv
  BY InitHolds
<1>2. IInv /\ [Next]_vars => IInv'
  BY ItemsFit, NextKeeps
<1>3. IInv => SameFunction
  <2> SUFFICES ASSUME IInv
               PROVE  NoDiffs <=> Orderly(trace["a"]) /\ Orderly(trace["b"]) /\ SameStream
    BY DEF SameFunction
  <2>1. trace["a"] \in Seq(Event) /\ trace["b"] \in Seq(Event)
    BY DEF IInv, Kinds, Views
  <2>2. (\A v \in Views : Finish(chk[v]) = {}) <=> Orderly(trace["a"]) /\ Orderly(trace["b"])
    BY FinishIs DEF IInv, Kinds, Told, Views
  <2>3. SameStream <=> Same(trace["a"], trace["b"])
    BY BindsIs DEF SameStream, Same, Here
  <2>4. Symmetric \/ (InIdOrder(trace["a"]) /\ InIdOrder(trace["b"]) /\ Items \subseteq Int)
    BY ItemsFit DEF IInv, Kinds, Numbered, Views, ItemsFit, Items
  <2>5. Orderly(trace["a"]) /\ Orderly(trace["b"]) =>
          (Canonical(trace["a"]) = Canonical(trace["b"]) <=> Same(trace["a"], trace["b"]))
    BY <2>1, <2>4, SameForm
  <2>6. QED
    BY <2>2, <2>3, <2>5 DEF NoDiffs
<1>4. QED
  BY <1>1, <1>2, <1>3, PTL DEF Spec
==============================================================================
