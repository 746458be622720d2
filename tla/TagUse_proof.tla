----------------------------- MODULE TagUse_proof -----------------------------
(***************************************************************************)
(* fw_dep_tracker keeps its list in entry order and implements DepOrder,   *)
(* for every number of tokens and dependents, in the use that TagUse gives *)
(* it; there, each token has one owner and a dependent waits for the       *)
(* producer before it.  The lemmas about the tracker's step hold for any   *)
(* entry and any retire, the misuse of lib.md included.                    *)
(***************************************************************************)
EXTENDS TagUse, WellFoundedInduction, FiniteSetTheorems, TLAPS

Entries == {Producer(p) : p \in Prod} \cup {Dependent(d) : d \in Dep}

\* The tracker's registers.
DepKinds ==
  /\ m_live \subseteq Prod /\ m_pv \subseteq Prod /\ m_wait \subseteq Dep
  /\ m_prev \in [Prod -> Prod] /\ m_on \in [Dep -> Prod]
  /\ m_top \in Prod /\ m_tv \in BOOLEAN
  /\ order \in Seq(Prod)

\* A dependent waits on a live producer only.
WaitsOnLive == \A d \in m_wait : m_on[d] \in m_live

DepInv == DepKinds /\ ListIsOrder /\ WaitsOnLive

------------------------------------------------------------------------------
(* Lists whose elements differ.                                            *)

Distinct(list) == \A i, j \in 1 .. Len(list) : list[i] = list[j] => i = j

\* A list loses its k-th element, the only one that is q.
LEMMA WithoutKth ==
  ASSUME NEW S, NEW list \in Seq(S), NEW k \in 1 .. Len(list), NEW q, q = list[k],
         \A i, j \in 1 .. Len(list) : list[i] = list[j] => i = j
  PROVE  /\ Plain!Without(list, q) \in Seq(S) /\ Len(Plain!Without(list, q)) = Len(list) - 1
         /\ \A i \in 1 .. Len(list) - 1 :
              Plain!Without(list, q)[i] = list[IF i < k THEN i ELSE i + 1]
<1> DEFINE w == [i \in 1 .. Len(list) - 1 |-> list[IF i < k THEN i ELSE i + 1]]
<1>1. (CHOOSE j \in 1 .. Len(list) : list[j] = q) = k
  OBVIOUS
<1>2. Plain!Without(list, q) = w
  BY <1>1 DEF Plain!Without, Plain!Listed
<1>3. w \in [1 .. Len(list) - 1 -> S]
  <2> SUFFICES ASSUME NEW i \in 1 .. Len(list) - 1
               PROVE  list[IF i < k THEN i ELSE i + 1] \in S
    OBVIOUS
  <2> QED
    OBVIOUS
<1>4. w \in Seq(S) /\ Len(w) = Len(list) - 1
  BY <1>3
<1> QED
  BY <1>2, <1>4

LEMMA WithoutAbsent ==
  ASSUME NEW list, NEW q, q \notin {list[i] : i \in 1 .. Len(list)}
  PROVE  Plain!Without(list, q) = list
  BY DEF Plain!Without, Plain!Listed

LEMMA WithoutListed ==
  ASSUME NEW S, NEW list \in Seq(S), Distinct(list), NEW q
  PROVE  /\ Plain!Without(list, q) \in Seq(S) /\ Distinct(Plain!Without(list, q))
         /\ Plain!Listed(Plain!Without(list, q)) = Plain!Listed(list) \ {q}
<1> DEFINE n == Len(list)
           L == Plain!Without(list, q)
<1>1. CASE q \notin Plain!Listed(list)
  BY <1>1 DEF Plain!Without
<1>2. CASE q \in Plain!Listed(list)
  <2>1. PICK k \in 1 .. n : list[k] = q
    BY <1>2 DEF Plain!Listed
  <2>2. L \in Seq(S) /\ Len(L) = n - 1
        /\ \A i \in 1 .. n - 1 : L[i] = list[IF i < k THEN i ELSE i + 1]
    BY <2>1, WithoutKth, SMTT(30) DEF Distinct
  <2>3. \A i, j \in 1 .. n : list[i] = list[j] => i = j
    BY DEF Distinct
  <2> HIDE DEF L
  <2>4. Distinct(L)
    <3> SUFFICES ASSUME NEW i \in 1 .. n - 1, NEW j \in 1 .. n - 1, L[i] = L[j] PROVE i = j
      BY <2>2 DEF Distinct
    <3> DEFINE f(x) == IF x < k THEN x ELSE x + 1
    <3>1. f(i) \in 1 .. n /\ f(j) \in 1 .. n
      OBVIOUS
    <3>2. list[f(i)] = list[f(j)]
      BY <2>2
    <3>3. f(i) = f(j)
      <4> HIDE DEF f
      <4> QED
        BY <2>3, <3>1, <3>2
    <3> QED
      BY <3>3
  <2>5. ASSUME NEW x \in Plain!Listed(list) \ {q} PROVE x \in Plain!Listed(L)
    <3>1. PICK i \in 1 .. n : x = list[i]
      BY <2>5 DEF Plain!Listed
    <3>2. i # k
      BY <2>1, <2>5, <3>1
    <3>3. CASE i < k
      <4>1. i \in 1 .. n - 1 /\ L[i] = x
        BY <2>2, <3>1, <3>3
      <4> QED
        BY <2>2, <4>1 DEF Plain!Listed
    <3>4. CASE i > k
      <4>1. i - 1 \in 1 .. n - 1 /\ ~(i - 1 < k) /\ (i - 1) + 1 = i
        BY <3>4
      <4>2. L[i - 1] = x
        BY <2>2, <3>1, <4>1
      <4> QED
        BY <2>2, <4>1, <4>2 DEF Plain!Listed
    <3> QED
      BY <3>2, <3>3, <3>4
  <2>6. ASSUME NEW i \in 1 .. n - 1 PROVE L[i] \in Plain!Listed(list) \ {q}
    <3> DEFINE j == IF i < k THEN i ELSE i + 1
    <3>1. j \in 1 .. n /\ j # k /\ L[i] = list[j]
      BY <2>2
    <3>2. list[j] # q
      BY <2>1, <2>3, <3>1
    <3> QED
      BY <3>1, <3>2 DEF Plain!Listed
  <2>7. Plain!Listed(L) = {L[i] : i \in 1 .. n - 1}
    BY <2>2 DEF Plain!Listed
  <2> QED
    BY <2>2, <2>4, <2>5, <2>6, <2>7 DEF L
<1> QED
  BY <1>1, <1>2

LEMMA TailListed ==
  ASSUME NEW S, NEW list \in Seq(S), list # <<>>, Distinct(list)
  PROVE  /\ Tail(list) \in Seq(S) /\ Distinct(Tail(list))
         /\ Plain!Listed(Tail(list)) = Plain!Listed(list) \ {list[1]}
         /\ list[1] \in Plain!Listed(list) /\ list[1] \in S
<1> DEFINE n == Len(list)
           T == Tail(list)
<1>1. /\ n \in Nat /\ n >= 1 /\ T \in Seq(S) /\ Len(T) = n - 1
      /\ \A i \in 1 .. n - 1 : T[i] = list[i + 1]
  OBVIOUS
<1>2. \A i, j \in 1 .. n : list[i] = list[j] => i = j
  BY DEF Distinct
<1>3. list[1] \in S /\ list[1] \in Plain!Listed(list)
  BY <1>1 DEF Plain!Listed
<1> HIDE DEF n, T
<1>4. Distinct(T)
  <2> SUFFICES ASSUME NEW i \in 1 .. n - 1, NEW j \in 1 .. n - 1, T[i] = T[j] PROVE i = j
    BY <1>1 DEF Distinct
  <2>1. i + 1 \in 1 .. n /\ j + 1 \in 1 .. n /\ list[i + 1] = list[j + 1]
    BY <1>1
  <2>2. i + 1 = j + 1
    BY <1>2, <2>1
  <2> QED
    BY <1>1, <2>2
<1>5. ASSUME NEW x \in Plain!Listed(list) \ {list[1]} PROVE x \in {T[i] : i \in 1 .. n - 1}
  <2>1. PICK i \in 1 .. n : x = list[i]
    BY <1>5 DEF Plain!Listed, n
  <2>2. i # 1
    BY <1>5, <2>1
  <2>3. i - 1 \in 1 .. n - 1 /\ T[i - 1] = x
    BY <1>1, <2>1, <2>2
  <2> QED
    BY <2>3
<1>6. ASSUME NEW i \in 1 .. n - 1 PROVE T[i] \in Plain!Listed(list) \ {list[1]}
  <2>1. i + 1 \in 1 .. n /\ T[i] = list[i + 1] /\ 1 \in 1 .. n /\ i + 1 # 1
    BY <1>1
  <2>2. list[i + 1] # list[1]
    BY <1>2, <2>1
  <2> QED
    BY <2>1, <2>2 DEF Plain!Listed, n
<1>7. Plain!Listed(T) = {T[i] : i \in 1 .. n - 1}
  BY <1>1 DEF Plain!Listed
<1> QED
  BY <1>1, <1>3, <1>4, <1>5, <1>6, <1>7 DEF T

LEMMA AddListed ==
  ASSUME NEW S, NEW list \in Seq(S), Distinct(list), NEW x \in S, x \notin Plain!Listed(list)
  PROVE  /\ list \o <<x>> \in Seq(S) /\ Distinct(list \o <<x>>)
         /\ Plain!Listed(list \o <<x>>) = Plain!Listed(list) \cup {x}
<1> DEFINE n == Len(list)
           L == list \o <<x>>
<1>1. /\ n \in Nat /\ L \in Seq(S) /\ Len(L) = n + 1 /\ L[n + 1] = x
      /\ \A i \in 1 .. n : L[i] = list[i]
  OBVIOUS
<1>2. \A i, j \in 1 .. n : list[i] = list[j] => i = j
  BY DEF Distinct
<1>3. \A i \in 1 .. n : list[i] # x
  BY DEF Plain!Listed
<1> HIDE DEF n, L
<1>4. Distinct(L)
  <2> SUFFICES ASSUME NEW i \in 1 .. n + 1, NEW j \in 1 .. n + 1, L[i] = L[j] PROVE i = j
    BY <1>1 DEF Distinct
  <2>1. CASE i \in 1 .. n /\ j \in 1 .. n
    BY <1>1, <1>2, <2>1
  <2>2. CASE i = n + 1 /\ j \in 1 .. n
    BY <1>1, <1>3, <2>2
  <2>3. CASE i \in 1 .. n /\ j = n + 1
    BY <1>1, <1>3, <2>3
  <2> QED
    BY <1>1, <2>1, <2>2, <2>3
<1>5. Plain!Listed(L) = {L[i] : i \in 1 .. n + 1}
  BY <1>1 DEF Plain!Listed
<1>6. Plain!Listed(list) = {list[i] : i \in 1 .. n}
  BY DEF Plain!Listed, n
<1> QED
  BY <1>1, <1>4, <1>5, <1>6 DEF L

\* A list of different elements has as many as it is long.
LEMMA ListedCount ==
  ASSUME NEW S, NEW list \in Seq(S), Distinct(list)
  PROVE  IsFiniteSet(Plain!Listed(list)) /\ Cardinality(Plain!Listed(list)) = Len(list)
<1> DEFINE T == Plain!Listed(list)
           D == 1 .. Len(list)
<1>1. list \in [D -> T]
  BY DEF Plain!Listed
<1>2. list \in Bijection(D, T)
  <2>1. IsInjective(list)
    BY <1>1 DEF IsInjective, Distinct
  <2>2. list \in Injection(D, T)
    BY <1>1, <2>1 DEF Injection
  <2>3. list \in Surjection(D, T)
    BY <1>1 DEF Surjection, Plain!Listed
  <2> QED
    BY <2>2, <2>3 DEF Bijection
<1>3. IsFiniteSet(D) /\ Cardinality(D) = Len(list)
  <2>1. Len(list) \in Nat
    OBVIOUS
  <2> HIDE DEF D
  <2>2. IsFiniteSet(1 .. Len(list)) /\ Cardinality(1 .. Len(list)) = IF 1 > Len(list) THEN 0 ELSE Len(list) - 1 + 1
    BY <2>1, FS_Interval
  <2> QED
    BY <2>1, <2>2 DEF D
<1>4. ExistsBijection(D, T)
  BY <1>2 DEF ExistsBijection
<1> HIDE DEF D, T
<1>5. IsFiniteSet(T) /\ Cardinality(T) = Cardinality(D)
  BY <1>3, <1>4, FS_Bijection
<1> QED
  BY <1>3, <1>5 DEF T

------------------------------------------------------------------------------
(* A retire unlinks its producer, if that is live.                         *)

LEMMA RetireNone ==
  ASSUME DepInv, NEW q, q \notin m_live
  PROVE  /\ Plain!Left(q) = order /\ m_live \ {q} = m_live
         /\ prev(q) = m_prev /\ pv(q) = m_pv /\ top(q) = m_top /\ tv(q) = m_tv
<1>1. Plain!Left(q) = order
  BY WithoutAbsent DEF DepInv, ListIsOrder, Links, Plain!Left
<1> QED
  BY <1>1 DEF DepInv, DepKinds, rv, gone, gone_top, prev, pv, top, tv

LEMMA Retire ==
  ASSUME DepInv, NEW q, q \in m_live
  PROVE  /\ Plain!Left(q) \in Seq(Prod)
         /\ Links(Plain!Left(q), m_live \ {q}, prev(q), pv(q), top(q))
         /\ tv(q) <=> Plain!Left(q) # <<>>
<1> DEFINE L == Plain!Left(q)
           n == Len(order)
<1> USE DEF DepInv, DepKinds
<1>0. PICK k \in 1 .. n : order[k] = q
  BY DEF ListIsOrder, Links
<1> USE <1>0
<1>1. n \in Nat /\ n >= 1 /\ \A i \in 1 .. n : order[i] \in Prod
  OBVIOUS
<1>2. /\ m_live = {order[i] : i \in 1 .. n}
      /\ \A i, j \in 1 .. n : order[i] = order[j] => i = j
      /\ m_tv /\ m_top = order[n] /\ order[1] \notin m_pv
      /\ \A i \in 2 .. n : order[i] \in m_pv /\ m_prev[order[i]] = order[i - 1]
  <2>1. order # <<>>
    BY <1>1
  <2> QED
    BY <2>1 DEF ListIsOrder, Links
<1>3. /\ L \in Seq(Prod) /\ Len(L) = n - 1
      /\ \A i \in 1 .. n - 1 : L[i] = order[IF i < k THEN i ELSE i + 1]
  <2>1. /\ order \in Seq(Prod) /\ k \in 1 .. Len(order) /\ q = order[k]
        /\ \A i, j \in 1 .. Len(order) : order[i] = order[j] => i = j
    BY <1>2
  <2>2. Plain!Left(q) = Plain!Without(order, q)
    BY DEF Plain!Left
  <2>3. /\ Plain!Without(order, q) \in Seq(Prod) /\ Len(Plain!Without(order, q)) = Len(order) - 1
        /\ \A i \in 1 .. Len(order) - 1 :
             Plain!Without(order, q)[i] = order[IF i < k THEN i ELSE i + 1]
    <3> HIDE DEF DepInv, DepKinds, L, n
    <3> QED
      BY <2>1, WithoutKth, SMTT(30)
  <2> QED
    BY <2>2, <2>3
<1>4. \A i \in 1 .. n : gone(q, order[i]) <=> i = k + 1
  <2> SUFFICES ASSUME NEW i \in 1 .. n PROVE gone(q, order[i]) <=> i = k + 1
    OBVIOUS
  <2>1. CASE i = 1
    BY <1>2, <2>1 DEF gone
  <2>2. CASE i \in 2 .. n
    <3>1. gone(q, order[i]) <=> order[i - 1] = order[k]
      BY <1>2, <2>2 DEF gone, rv
    <3>2. order[i - 1] = order[k] <=> i - 1 = k
      BY <1>2, <2>2
    <3> QED
      BY <3>1, <3>2, <2>2
  <2> QED
    BY <2>1, <2>2
<1>5. \A i \in 1 .. n : order[i] \in pv(q) <=> IF i = k + 1 THEN k >= 2 ELSE i >= 2
  <2>1. \A i \in 1 .. n : order[i] \in m_pv <=> i >= 2
    BY <1>2
  <2> QED
    BY <1>1, <1>4, <2>1 DEF pv
<1>6. \A i \in 1 .. n : prev(q)[order[i]] = IF i = k + 1 THEN m_prev[q] ELSE m_prev[order[i]]
  BY <1>1, <1>4 DEF prev
<1>7. Distinct(L) /\ Plain!Listed(L) = m_live \ {q}
  <2>1. order \in Seq(Prod) /\ Distinct(order) /\ Plain!Listed(order) = m_live
    BY <1>2 DEF Distinct, Plain!Listed
  <2>2. L = Plain!Without(order, q)
    BY DEF Plain!Left
  <2> HIDE DEF L, n, DepInv, DepKinds
  <2> QED
    BY <2>1, <2>2, WithoutListed
<1>8. /\ m_live \ {q} = {L[i] : i \in 1 .. n - 1}
      /\ \A i, j \in 1 .. n - 1 : L[i] = L[j] => i = j
  BY <1>3, <1>7 DEF Distinct, Plain!Listed
<1>9. tv(q) <=> L # <<>>
  <2>1. gone_top(q) <=> k = n
    BY <1>2 DEF gone_top, rv
  <2>2. L # <<>> <=> n >= 2
    BY <1>3
  <2> QED
    BY <1>2, <2>1, <2>2 DEF tv
<1>10. ASSUME L # <<>> PROVE top(q) = L[Len(L)] /\ L[1] \notin pv(q)
  <2>1. n >= 2
    BY <1>3, <1>10
  <2>2. gone_top(q) <=> k = n
    BY <1>2 DEF gone_top, rv
  <2>3. top(q) = order[IF k = n THEN n - 1 ELSE n]
    BY <1>2, <2>1, <2>2 DEF top
  <2>4. L[n - 1] = order[IF n - 1 < k THEN n - 1 ELSE n]
    BY <1>3, <2>1
  <2>5. L[1] = order[IF k = 1 THEN 2 ELSE 1]
    BY <1>3, <2>1
  <2> QED
    BY <1>3, <1>5, <2>1, <2>3, <2>4, <2>5
<1>11. \A i \in 2 .. n - 1 : L[i] \in pv(q) /\ prev(q)[L[i]] = L[i - 1]
  <2> SUFFICES ASSUME NEW i \in 2 .. n - 1
               PROVE  L[i] \in pv(q) /\ prev(q)[L[i]] = L[i - 1]
    OBVIOUS
  <2>1. /\ L[i] = order[IF i < k THEN i ELSE i + 1]
        /\ L[i - 1] = order[IF i - 1 < k THEN i - 1 ELSE i]
    BY <1>3
  <2>2. CASE i < k
    BY <1>2, <1>5, <1>6, <2>1, <2>2
  <2>3. CASE i = k
    BY <1>2, <1>5, <1>6, <2>1, <2>3
  <2>4. CASE i > k
    BY <1>2, <1>5, <1>6, <2>1, <2>4
  <2> QED
    BY <2>2, <2>3, <2>4
<1> HIDE DEF L, n
<1>12. Links(L, m_live \ {q}, prev(q), pv(q), top(q))
  BY <1>1, <1>3, <1>8, <1>10, <1>11 DEF Links
<1> QED
  BY <1>3, <1>9, <1>12 DEF L

\* The two cases together.
LEMMA AfterRetire ==
  ASSUME DepInv, NEW q
  PROVE  /\ Plain!Left(q) \in Seq(Prod)
         /\ Links(Plain!Left(q), m_live \ {q}, prev(q), pv(q), top(q))
         /\ tv(q) <=> Plain!Left(q) # <<>>
<1>1. CASE q \notin m_live
  BY <1>1, RetireNone DEF DepInv, DepKinds, ListIsOrder
<1>2. CASE q \in m_live
  BY <1>2, Retire
<1> QED
  BY <1>1, <1>2

------------------------------------------------------------------------------
(* An entry puts its producer on top of the list.                          *)

LEMMA Enter ==
  ASSUME NEW q, NEW list \in Seq(Prod), Links(list, m_live \ {q}, prev(q), pv(q), top(q)),
         NEW p \in Prod, p \notin m_live \ {q},
         order' = Append(list, p), m_live' = (m_live \ {q}) \cup {p}, m_top' = p,
         \A i \in Prod : m_prev'[i] = IF i = p THEN top(q) ELSE prev(q)[i],
         \A i \in Prod : i \in m_pv' <=> IF i = p THEN list # <<>> ELSE i \in pv(q)
  PROVE  Links(order', m_live', m_prev', m_pv', m_top')
<1> DEFINE n == Len(list)
           L == order'
<1>1. /\ n \in Nat /\ Len(L) = n + 1 /\ L[n + 1] = p
      /\ \A i \in 1 .. n : L[i] = list[i] /\ list[i] \in Prod
      /\ L # <<>> /\ (list # <<>> <=> n >= 1)
  OBVIOUS
<1>2. /\ m_live \ {q} = {list[i] : i \in 1 .. n}
      /\ \A i, j \in 1 .. n : list[i] = list[j] => i = j
      /\ n >= 1 => top(q) = list[n] /\ list[1] \notin pv(q)
      /\ \A i \in 2 .. n : list[i] \in pv(q) /\ prev(q)[list[i]] = list[i - 1]
  BY <1>1 DEF Links
<1>3. \A i \in 1 .. n : list[i] # p
  BY <1>2
<1> HIDE DEF n, L
<1>4. m_live' = {L[i] : i \in 1 .. n + 1}
  BY <1>1, <1>2
<1>5. \A i, j \in 1 .. n + 1 : L[i] = L[j] => i = j
  <2> SUFFICES ASSUME NEW i \in 1 .. n + 1, NEW j \in 1 .. n + 1, L[i] = L[j] PROVE i = j
    OBVIOUS
  <2>1. CASE i \in 1 .. n /\ j \in 1 .. n
    BY <1>1, <1>2, <2>1
  <2>2. CASE i = n + 1 /\ j \in 1 .. n
    BY <1>1, <1>3, <2>2
  <2>3. CASE i \in 1 .. n /\ j = n + 1
    BY <1>1, <1>3, <2>3
  <2> QED
    BY <1>1, <2>1, <2>2, <2>3
<1>6. L[1] \notin m_pv'
  <2>1. CASE n = 0
    BY <1>1, <1>2, <2>1
  <2>2. CASE n >= 1
    BY <1>1, <1>2, <1>3, <2>2
  <2> QED
    BY <1>1, <2>1, <2>2
<1>7. \A i \in 2 .. n + 1 : L[i] \in m_pv' /\ m_prev'[L[i]] = L[i - 1]
  <2> SUFFICES ASSUME NEW i \in 2 .. n + 1 PROVE L[i] \in m_pv' /\ m_prev'[L[i]] = L[i - 1]
    OBVIOUS
  <2>1. CASE i = n + 1
    BY <1>1, <1>2, <2>1
  <2>2. CASE i \in 2 .. n
    <3>1. i \in 1 .. n /\ i - 1 \in 1 .. n
      BY <1>1, <2>2
    <3>2. L[i] = list[i] /\ L[i - 1] = list[i - 1] /\ list[i] \in Prod \ {p}
      BY <1>1, <1>3, <3>1
    <3> QED
      BY <1>2, <2>2, <3>2
  <2> QED
    BY <1>1, <2>1, <2>2
<1> QED
  BY <1>1, <1>4, <1>5, <1>6, <1>7 DEF Links, L

------------------------------------------------------------------------------
(* The step.                                                               *)

LEMMA ListTypes ==
  ASSUME DepInv, NEW q
  PROVE  /\ prev(q) \in [Prod -> Prod] /\ pv(q) \subseteq Prod
         /\ top(q) \in Prod /\ tv(q) \in BOOLEAN
<1> USE DEF DepInv, DepKinds
<1>1. rv(q) => m_prev[q] \in Prod
  BY DEF rv
<1>2. \A i \in Prod : (IF gone(q, i) THEN m_prev[q] ELSE m_prev[i]) \in Prod
  BY <1>1 DEF gone
<1>3. prev(q) \in [Prod -> Prod]
  BY <1>2 DEF prev
<1>4. top(q) \in Prod
  BY <1>1 DEF top, gone_top
<1>5. pv(q) \subseteq Prod
  BY DEF pv
<1>6. tv(q) \in BOOLEAN
  <2>1. CASE gone_top(q)
    <3>1. tv(q) = (q \in m_pv)
      BY <2>1, Zenon DEF tv
    <3>2. (q \in m_pv) \in BOOLEAN
      OBVIOUS
    <3> QED
      BY <3>1, <3>2, Zenon
  <2>2. CASE ~gone_top(q)
    <3>1. tv(q) = m_tv
      BY <2>2, Zenon DEF tv
    <3> QED
      BY <3>1
  <2> QED
    BY <2>1, <2>2, Zenon
<1> QED
  BY <1>3, <1>4, <1>5, <1>6

LEMMA TopIsLive ==
  ASSUME DepInv
  PROVE  m_tv => m_top \in m_live
<1> SUFFICES ASSUME m_tv PROVE m_top \in m_live
  OBVIOUS
<1>1. order # <<>> /\ m_top = order[Len(order)]
  BY DEF DepInv, ListIsOrder, Links
<1>2. Len(order) \in 1 .. Len(order)
  BY <1>1 DEF DepInv, DepKinds
<1> QED
  BY <1>1, <1>2 DEF DepInv, ListIsOrder, Links

\* The part of the step that both cases of an entry share.
LEMMA WaitsStep ==
  ASSUME DepInv, NEW e, NEW q, DepStep(e, q), m_live \ {q} \subseteq m_live'
  PROVE  /\ WaitsOnLive' /\ m_wait' \subseteq Dep /\ m_on' \in [Dep -> Prod]
         /\ \A d \in Dep : waiting(e, d) => on(e, d) \in m_live
<1> USE DEF DepInv, DepKinds
<1>1. m_tv => m_top \in m_live
  BY TopIsLive
<1>2. \A d \in Dep : waiting(e, d) => on(e, d) \in m_live
  BY <1>1 DEF waiting, on, WaitsOnLive
<1>3. \A d \in m_wait' : d \in Dep /\ waiting(e, d) /\ ~released(e, q, d) /\ m_on'[d] = on(e, d)
  BY DEF DepStep
<1>4. WaitsOnLive'
  <2> SUFFICES ASSUME NEW d \in m_wait' PROVE m_on'[d] \in m_live'
    BY DEF WaitsOnLive
  <2>1. on(e, d) \in m_live /\ on(e, d) # q
    BY <1>2, <1>3 DEF released, rv
  <2> QED
    BY <1>3, <2>1
<1>5. m_on' \in [Dep -> Prod]
  BY DEF DepStep, on
<1>6. m_wait' \subseteq Dep
  BY DEF DepStep
<1> QED
  BY <1>2, <1>4, <1>5, <1>6

\* No entry and no retire, whatever they name, disturbs the list.
LEMMA TrackerStep ==
  ASSUME DepInv, NEW e \in Entries \cup {None}, NEW q, DepStep(e, q)
  PROVE  DepInv'
<1> DEFINE L == Plain!Left(q)
<1>1. /\ L \in Seq(Prod)
      /\ Links(L, m_live \ {q}, prev(q), pv(q), top(q))
      /\ tv(q) <=> L # <<>>
  BY AfterRetire
<1>2. /\ prev(q) \in [Prod -> Prod] /\ pv(q) \subseteq Prod
      /\ top(q) \in Prod /\ tv(q) \in BOOLEAN
  BY ListTypes
<1>3. Plain!Listed(L) = m_live \ {q}
  BY <1>1 DEF Links, Plain!Listed
<1>4. CASE Plain!Enters(e, q)
  <2>1. /\ e.tag \in Prod /\ e.kind = "producer" /\ e # None
        /\ e.tag \notin m_live \ {q}
    BY <1>3, <1>4 DEF Plain!Enters, Entries, Producer, Dependent
  <2>2. pm(e, q) = {e.tag}
    <3>1. \A i \in Prod : (e.tag = i /\ i \notin m_live \ {q}) <=> i = e.tag
      BY <2>1
    <3> QED
      BY <2>1, <3>1 DEF pm
  <2>3. order' = Append(L, e.tag)
    BY <1>4 DEF DepStep, Plain!Entered
  <2>4. /\ m_live' = (m_live \ {q}) \cup {e.tag}
        /\ m_prev' = [i \in Prod |-> IF i \in {e.tag} THEN top(q) ELSE prev(q)[i]]
        /\ m_pv' = {i \in Prod : IF i \in {e.tag} THEN tv(q) ELSE i \in pv(q)}
        /\ m_top' = e.tag /\ m_tv' = TRUE
    BY <2>2 DEF DepStep
  <2> HIDE DEF L
  <2>5. Links(order', m_live', m_prev', m_pv', m_top')
    <3>1. \A i \in Prod : m_prev'[i] = IF i = e.tag THEN top(q) ELSE prev(q)[i]
      BY <2>4
    <3>2. \A i \in Prod : i \in m_pv' <=> IF i = e.tag THEN L # <<>> ELSE i \in pv(q)
      BY <1>1, <2>4 DEF L
    <3>3. /\ e.tag \in Prod /\ e.tag \notin m_live \ {q}
          /\ L \in Seq(Prod) /\ Links(L, m_live \ {q}, prev(q), pv(q), top(q))
      BY <1>1, <2>1 DEF L
    <3> QED
      BY <2>3, <2>4, <3>1, <3>2, <3>3, Enter
  <2>6. ListIsOrder'
    <3>1. order' # <<>>
      BY <1>1, <2>1, <2>3 DEF L
    <3> QED
      BY <2>4, <2>5, <3>1 DEF ListIsOrder
  <2>7. /\ m_live' \subseteq Prod /\ m_pv' \subseteq Prod /\ m_prev' \in [Prod -> Prod]
        /\ m_top' \in Prod /\ m_tv' \in BOOLEAN /\ order' \in Seq(Prod)
    BY <1>1, <1>2, <2>1, <2>3, <2>4 DEF DepInv, DepKinds
  <2> QED
    BY <2>4, <2>6, <2>7, WaitsStep DEF DepInv, DepKinds
<1>5. CASE ~Plain!Enters(e, q)
  <2>1. pm(e, q) = {}
    BY <1>3, <1>5 DEF Plain!Enters, pm
  <2>2. order' = L
    BY <1>5 DEF DepStep, Plain!Entered
  <2>3. /\ m_live' = m_live \ {q} /\ m_prev' = prev(q) /\ m_pv' = pv(q)
        /\ m_top' = top(q) /\ m_tv' = tv(q)
    BY <1>2, <2>1 DEF DepStep
  <2> HIDE DEF L
  <2>4. ListIsOrder'
    BY <1>1, <2>2, <2>3 DEF ListIsOrder
  <2>5. m_live' \subseteq Prod
    BY <2>3 DEF DepInv, DepKinds
  <2> QED
    BY <1>1, <1>2, <2>2, <2>3, <2>4, <2>5, WaitsStep DEF DepInv, DepKinds
<1> QED
  BY <1>4, <1>5

\* Each dependent's producer goes as DepOrder says, whatever the entry.
LEMMA WaitsAsPlain ==
  ASSUME DepInv, NEW e \in Entries \cup {None}, NEW q, DepStep(e, q),
         \A d \in Dep : waiting(e, d) => on(e, d) \in m_live
  PROVE  waits' = [d \in Dep |-> IF Plain!Recorded(e, d) = q THEN None
                                 ELSE Plain!Recorded(e, d)]
<1> DEFINE after(d) == IF Plain!Recorded(e, d) = q THEN None ELSE Plain!Recorded(e, d)
<1>1. \A d \in Dep : waits[d] = IF d \in m_wait THEN m_on[d] ELSE None
  BY DEF waits
<1>2. m_tv => Plain!Youngest = m_top
  BY DEF DepInv, ListIsOrder, Links, Plain!Youngest
<1>3. ~m_tv => Plain!Youngest = None
  BY DEF DepInv, ListIsOrder, Plain!Youngest
<1>4. \A d \in Dep : d \in m_wait' <=> waiting(e, d) /\ ~released(e, q, d)
  BY DEF DepStep
<1>5. \A d \in Dep : m_on'[d] = on(e, d)
  BY DEF DepStep
<1>6. ASSUME NEW d \in Dep
      PROVE  Plain!Recorded(e, d) = IF waiting(e, d) THEN on(e, d) ELSE None
  <2>1. CASE dm(e, d)
    BY <1>2, <1>3, <2>1 DEF Plain!Recorded, dm, waiting, on
  <2>2. CASE ~dm(e, d)
    BY <1>1, <2>2 DEF Plain!Recorded, dm, waiting, on
  <2> QED
    BY <2>1, <2>2
<1>7. ASSUME NEW d \in Dep PROVE (IF d \in m_wait' THEN m_on'[d] ELSE None) = after(d)
  BY <1>4, <1>5, <1>6 DEF released, rv
<1>8. waits' = [d \in Dep |-> IF d \in m_wait' THEN m_on'[d] ELSE None]
  BY DEF waits
<1> QED
  BY <1>7, <1>8

\* A step that keeps the links is a cycle of DepOrder.
LEMMA StepIsCycle ==
  ASSUME DepInv, NEW e \in Entries \cup {None}, NEW q, DepStep(e, q)
  PROVE  DepInv' /\ Plain!Cycle(e, q)
<1>1. DepInv'
  BY TrackerStep
<1>2. \A d \in Dep : waiting(e, d) => on(e, d) \in m_live
  <2>1. m_tv => m_top \in m_live
    BY TopIsLive
  <2> QED
    BY <2>1 DEF DepInv, waiting, on, WaitsOnLive
<1>3. waits' = [d \in Dep |-> IF Plain!Recorded(e, d) = q THEN None
                              ELSE Plain!Recorded(e, d)]
  BY <1>2, WaitsAsPlain
<1>4. order' = Plain!Entered(e, q)
  BY DEF DepStep
<1> QED
  BY <1>1, <1>3, <1>4 DEF Plain!Cycle, Plain!Dep, Dep

------------------------------------------------------------------------------
(* The use: tokens name producers, so what enters is an entry.             *)

UseKinds ==
  /\ ent \in Entries \cup {None} /\ tok \in Prod \cup {None}
  /\ granted \in Seq(Prod)

IInv == DepInv /\ UseKinds

LEMMA InitHolds == Init => IInv /\ Plain!Init
<1> SUFFICES ASSUME Init PROVE IInv /\ Plain!Init
  OBVIOUS
<1> USE DepAssumption DEF Init, DepInit
<1>1. 0 \in Prod
  BY DEF Prod
<1>2. DepKinds
  BY <1>1 DEF DepKinds
<1>3. ListIsOrder /\ WaitsOnLive
  BY DEF ListIsOrder, Links, WaitsOnLive
<1>4. UseKinds
  BY DEF UseKinds
<1>5. waits = [d \in Plain!Dep |-> None]
  BY DEF waits, Plain!Dep, Dep
<1> QED
  BY <1>2, <1>3, <1>4, <1>5 DEF IInv, DepInv, Plain!Init

\* A token granted is a free one.
LEMMA GrantsAToken == taken(req) => oh \in Prod \ m_held
<1> SUFFICES ASSUME fr # {} PROVE oh \in Prod \ m_held
  BY DEF taken
<1>1. fr \subseteq Nat
  BY DepAssumption DEF fr, Tokens
<1>2. PICK i \in fr : \A j \in fr : i <= j
  <2> DEFINE R == OpToRel(<, Nat)
  <2>1. IsWellFoundedOn(R, Nat)
    BY NatLessThanWellFounded
  <2> HIDE DEF R
  <2>2. PICK i \in fr : \A j \in fr : <<j, i>> \notin R
    BY <1>1, <2>1, WFMin
  <2>3. \A j \in fr : j < i => <<j, i>> \in R
    BY <1>1 DEF R, OpToRel
  <2>4. \A j \in fr : ~(j < i)
    BY <2>2, <2>3
  <2>5. \A j \in fr : i <= j
    BY <1>1, <2>4
  <2> QED
    BY <2>5
<1>3. oh \in fr
  BY <1>2 DEF oh
<1> QED
  BY <1>3 DEF fr, Tokens, Prod

LEMMA UseStep ==
  ASSUME IInv, NEW ask, NEW e \in enterable \cup {None}, NEW p, NEW back, NEW go,
         Edge(ask, e, p, back, go)
  PROVE  UseKinds'
<1> USE DEF IInv, UseKinds
<1>1. tok' \in Prod \cup {None}
  BY GrantsAToken DEF Edge
<1>2. ent' \in Entries \cup {None}
  <2>1. \A i \in DOMAIN granted : granted[i] \in Prod
    OBVIOUS
  <2> QED
    BY <2>1 DEF Edge, enterable, Entries
<1>3. granted' \in Seq(Prod)
  <2>1. ASSUME enters(e) PROVE granted # <<>>
    <3>1. e \in enterable
      BY <2>1 DEF enters
    <3>2. e \notin {Dependent(d) : d \in Dep \ asked}
      BY <2>1 DEF enters, Dependent
    <3> QED
      BY <3>1, <3>2 DEF enterable
  <2>2. (IF enters(e) THEN Tail(granted) ELSE granted) \in Seq(Prod)
    BY <2>1
  <2>3. (IF tok = None THEN <<>> ELSE <<tok>>) \in Seq(Prod)
    OBVIOUS
  <2> QED
    BY <2>2, <2>3 DEF Edge
<1> QED
  BY <1>1, <1>2, <1>3

LEMMA NextKeeps ==
  IInv /\ [Next]_vars => IInv' /\ [Plain!Cycle(ent, ret)]_<<ent, ret, order, waits>>
<1> SUFFICES ASSUME IInv, [Next]_vars
             PROVE  IInv' /\ [Plain!Cycle(ent, ret)]_<<ent, ret, order, waits>>
  OBVIOUS
<1>1. CASE Next
  <2>1. PICK ask \in BOOLEAN, e \in enterable \cup {None}, p \in completable \cup {None},
             back \in done \cup completable \cup {None},
             go \in SUBSET {d \in Dep : told(d)} :
          Edge(ask, e, p, back, go)
    BY <1>1 DEF Next
  <2>2. UseKinds'
    BY <2>1, UseStep
  <2>3. DepStep(ent, ret)
    BY <2>1 DEF Edge
  <2>4. DepInv' /\ Plain!Cycle(ent, ret)
    BY <2>3, StepIsCycle DEF IInv, UseKinds
  <2> QED
    BY <2>2, <2>4 DEF IInv
<1>2. CASE UNCHANGED vars
  <2> USE <1>2 DEF vars, depvars, usevars
  <2>1. waits' = waits
    BY DEF waits
  <2>2. UseKinds'
    BY DEF IInv, UseKinds
  <2>3. DepInv'
    BY DEF IInv, DepInv, DepKinds, ListIsOrder, Links, WaitsOnLive
  <2> QED
    BY <2>1, <2>2, <2>3 DEF IInv
<1> QED
  BY <1>1, <1>2

------------------------------------------------------------------------------
(* Where the tokens are, and what is on its way to the tracker.            *)

Queued == Plain!Listed(granted)
Away   == Plain!Listed(out)

\* Each token held is in one place.
Apart ==
  /\ done \subseteq Prod /\ rel \in Prod \cup {None} /\ out \in Seq(Prod)
  /\ Distinct(granted) /\ Distinct(out)
  /\ m_held = ({tok} \ {None}) \cup Queued \cup Away \cup done \cup ({rel} \ {None})
  /\ tok \notin Queued \cup Away \cup done /\ rel \notin Queued \cup Away \cup done
  /\ tok # None => tok # rel
  /\ Queued \cap Away = {} /\ Queued \cap done = {} /\ Away \cap done = {}

\* The producers that entered and did not complete are those on the tracker's list
\* without the one that retires, and the one that enters.
OnTheirWay ==
  /\ out = Plain!Left(ret) \o (IF enters(ent) THEN <<ent.tag>> ELSE <<>>)
  /\ enters(ent) => ent.tag \notin Plain!Listed(Plain!Left(ret))
  /\ ret # None => ret \in m_live

\* A dependent's producer is the one that the tracker holds or is about to record,
\* until it retires.
WaitsAreBehind ==
  /\ asked \subseteq Dep
  /\ \A d \in Dep : behind[d] = IF Plain!Recorded(ent, d) = ret THEN None
                                ELSE Plain!Recorded(ent, d)

UseInv == IInv /\ Apart /\ OnTheirWay /\ WaitsAreBehind

LEMMA EntersGranted ==
  ASSUME NEW e \in enterable \cup {None}, enters(e)
  PROVE  granted # <<>> /\ e = Producer(granted[1]) /\ e.tag = granted[1]
<1>1. e \in enterable
  BY DEF enters
<1>2. e \notin {Dependent(d) : d \in Dep \ asked}
  BY DEF enters, Dependent
<1> QED
  BY <1>1, <1>2 DEF enterable, Producer

LEMMA ApartStep ==
  ASSUME IInv, Apart, NEW ask, NEW e \in enterable \cup {None},
         NEW p \in completable \cup {None}, NEW back \in done \cup completable \cup {None},
         NEW go, Edge(ask, e, p, back, go)
  PROVE  Apart'
<1> DEFINE E == IF enters(e) THEN {e.tag} ELSE {}
           T == {tok} \ {None}
           G == IF enters(e) THEN Tail(granted) ELSE granted
           O == Plain!Without(out, p)
<1>1. None \notin Prod
  BY DepAssumption DEF Prod
<1>2. /\ granted \in Seq(Prod) /\ tok \in Prod \cup {None} /\ out \in Seq(Prod)
      /\ Distinct(granted) /\ Distinct(out)
  BY DEF IInv, UseKinds, Apart
<1>3. G \in Seq(Prod) /\ Distinct(G) /\ Plain!Listed(G) = Queued \ E /\ E \subseteq Queued
      /\ E \subseteq Prod
  <2>1. CASE enters(e)
    <3>1. granted # <<>> /\ e.tag = granted[1]
      BY <2>1, EntersGranted
    <3>2. /\ Tail(granted) \in Seq(Prod) /\ Distinct(Tail(granted))
          /\ Plain!Listed(Tail(granted)) = Plain!Listed(granted) \ {granted[1]}
          /\ granted[1] \in Plain!Listed(granted) /\ granted[1] \in Prod
      BY <1>2, <3>1, TailListed
    <3> QED
      BY <2>1, <3>1, <3>2 DEF Queued
  <2>2. CASE ~enters(e)
    BY <1>2, <2>2 DEF Queued
  <2> QED
    BY <2>1, <2>2
<1>4. /\ O \in Seq(Prod) /\ Distinct(O) /\ Plain!Listed(O) = Away \ {p}
  BY <1>2, WithoutListed DEF Away
<1>5. completable = Away
  BY <1>2 DEF completable, Away, Plain!Listed
<1> HIDE DEF G, O
<1>6. Distinct(granted') /\ Queued' = (Queued \ E) \cup T
  <2>1. granted' = G \o (IF tok = None THEN <<>> ELSE <<tok>>)
    BY DEF Edge, G
  <2>2. CASE tok = None
    <3>1. granted' = G
      BY <1>3, <2>1, <2>2
    <3> QED
      BY <1>3, <2>2, <3>1 DEF Queued
  <2>3. CASE tok # None
    <3>1. granted' = G \o <<tok>>
      BY <2>1, <2>3
    <3>2. tok \in Prod /\ tok \notin Plain!Listed(G)
      BY <1>2, <1>3, <2>3 DEF Apart
    <3>3. Distinct(G \o <<tok>>) /\ Plain!Listed(G \o <<tok>>) = Plain!Listed(G) \cup {tok}
      BY <1>3, <3>2, AddListed
    <3> QED
      BY <1>3, <2>3, <3>1, <3>3 DEF Queued
  <2> QED
    BY <2>2, <2>3
<1>7. out' \in Seq(Prod) /\ Distinct(out') /\ Away' = (Away \ {p}) \cup E
  <2>1. out' = O \o (IF enters(e) THEN <<e.tag>> ELSE <<>>)
    BY DEF Edge, O
  <2>2. CASE ~enters(e)
    <3>1. out' = O
      BY <1>4, <2>1, <2>2
    <3> QED
      BY <1>4, <2>2, <3>1 DEF Away
  <2>3. CASE enters(e)
    <3>1. out' = O \o <<e.tag>>
      BY <2>1, <2>3
    <3>2. e.tag \in Prod /\ e.tag \notin Plain!Listed(O)
      BY <1>3, <1>4, <2>3 DEF Apart
    <3>3. /\ O \o <<e.tag>> \in Seq(Prod) /\ Distinct(O \o <<e.tag>>)
          /\ Plain!Listed(O \o <<e.tag>>) = Plain!Listed(O) \cup {e.tag}
      BY <1>4, <3>2, AddListed
    <3> QED
      BY <1>4, <2>3, <3>1, <3>3 DEF Away
  <2> QED
    BY <2>2, <2>3
<1>8. /\ tok' \in Prod \cup {None} /\ tok' \notin m_held \ {None}
      /\ m_held' = (m_held \ {rel}) \cup ({tok'} \ {None})
  <2>1. CASE taken(req)
    <3>1. oh \in Prod \ m_held
      BY <2>1, GrantsAToken
    <3>2. tok' = oh /\ m_held' = (m_held \ {rel}) \cup {oh}
      BY <2>1 DEF Edge, PoolStep, held, grant
    <3> QED
      BY <1>1, <3>1, <3>2
  <2>2. CASE ~taken(req)
    BY <2>2 DEF Edge, PoolStep, held, grant
  <2> QED
    BY <2>1, <2>2
<1>9. done' = (done \cup ({p} \ {None})) \ {back} /\ rel' = back
      /\ (back # None => back = p \/ back \in done)
  BY DEF Edge
<1>10. Away \subseteq Prod /\ Queued \subseteq Prod
  BY <1>2 DEF Away, Queued, Plain!Listed
<1> HIDE DEF E, T
<1>11. done' \subseteq Prod /\ rel' \in Prod \cup {None}
  BY <1>5, <1>9, <1>10 DEF Apart
<1> QED
  BY <1>1, <1>3, <1>5, <1>6, <1>7, <1>8, <1>9, <1>10, <1>11 DEF Apart, T

\* At every edge the tracker's list becomes what had entered and not completed.
LEMMA OrderIsOut ==
  ASSUME IInv, OnTheirWay, DepStep(ent, ret)
  PROVE  order' = out
<1>1. order' = Plain!Entered(ent, ret)
  BY DEF DepStep
<1>2. CASE enters(ent)
  BY <1>1, <1>2 DEF OnTheirWay, enters, Plain!Entered, Plain!Enters
<1>3. CASE ~enters(ent)
  <2>1. order' = Plain!Left(ret)
    BY <1>1, <1>3 DEF enters, Plain!Entered, Plain!Enters
  <2>2. Plain!Left(ret) \in Seq(Prod)
    BY AfterRetire DEF IInv
  <2> QED
    BY <1>3, <2>1, <2>2 DEF OnTheirWay
<1> QED
  BY <1>2, <1>3

LEMMA OnTheirWayStep ==
  ASSUME IInv, IInv', Apart, OnTheirWay, NEW ask, NEW e \in enterable \cup {None},
         NEW p \in completable \cup {None}, NEW back, NEW go, Edge(ask, e, p, back, go)
  PROVE  OnTheirWay'
<1>1. order' = out
  BY OrderIsOut DEF Edge
<1>2. ent' = e /\ ret' = p
  BY DEF Edge
<1>3. Plain!Left(ret)' = Plain!Without(out, p)
  BY <1>1, <1>2 DEF Plain!Left
<1>4. out' = Plain!Without(out, p) \o (IF enters(e) THEN <<e.tag>> ELSE <<>>)
  BY DEF Edge
<1>5. ASSUME enters(e) PROVE e.tag \notin Plain!Listed(Plain!Without(out, p))
  <2>1. granted # <<>> /\ e.tag = granted[1]
    BY <1>5, EntersGranted
  <2>2. e.tag \in Queued
    <3>1. 1 \in 1 .. Len(granted)
      BY <2>1 DEF IInv, UseKinds
    <3> QED
      BY <2>1, <3>1 DEF Queued, Plain!Listed
  <2>3. Plain!Listed(Plain!Without(out, p)) = Away \ {p}
    BY WithoutListed DEF Apart, Away
  <2> QED
    BY <2>2, <2>3 DEF Apart
<1>6. ASSUME p # None PROVE p \in m_live'
  <2>1. p \in {out[i] : i \in 1 .. Len(out)}
    BY <1>6 DEF completable, Apart
  <2>2. m_live' = {order'[i] : i \in 1 .. Len(order')}
    BY DEF IInv, DepInv, ListIsOrder, Links
  <2> QED
    BY <1>1, <2>1, <2>2
<1> QED
  BY <1>2, <1>3, <1>4, <1>5, <1>6 DEF OnTheirWay, enters

LEMMA WaitsStepBehind ==
  ASSUME IInv, OnTheirWay, WaitsAreBehind, NEW ask, NEW e \in enterable \cup {None},
         NEW p, NEW back, NEW go, Edge(ask, e, p, back, go)
  PROVE  WaitsAreBehind'
<1>1. order' = out
  BY OrderIsOut DEF Edge
<1>2. ent' = e /\ ret' = p
  BY DEF Edge
<1>3. \A d \in Dep : waits'[d] = behind[d]
  <2>1. Plain!Cycle(ent, ret)
    BY StepIsCycle DEF Edge, IInv, UseKinds
  <2> QED
    BY <2>1 DEF Plain!Cycle, Plain!Dep, Dep, WaitsAreBehind
<1>4. ASSUME NEW d \in Dep
      PROVE  d \in asks(e) <=> e # None /\ e.kind = "dependent" /\ e.tag = d
  <2>1. CASE e = None
    BY <2>1, DepAssumption DEF asks
  <2>2. CASE e # None
    <3>1. CASE \E x : e = Producer(x)
      BY <3>1 DEF asks, Producer, Dependent
    <3>2. CASE \E x \in Dep : e = Dependent(x)
      BY <2>2, <3>2 DEF asks, Dependent
    <3> QED
      BY <2>2, <3>1, <3>2 DEF enterable
  <2> QED
    BY <2>1, <2>2
<1>5. Plain!Youngest' = youngest
  BY <1>1 DEF Plain!Youngest, youngest
<1>6. ASSUME NEW d \in Dep
      PROVE  behind'[d] = IF Plain!Recorded(ent, d)' = ret' THEN None
                          ELSE Plain!Recorded(ent, d)'
  <2>1. Plain!Recorded(ent, d)' = IF d \in asks(e) THEN youngest ELSE behind[d]
    BY <1>2, <1>3, <1>4, <1>5 DEF Plain!Recorded
  <2>2. behind'[d] = left_behind(e, p, d)
    BY DEF Edge
  <2> QED
    BY <1>2, <2>1, <2>2 DEF left_behind
<1>7. asked' \subseteq Dep
  BY DEF Edge, asks, WaitsAreBehind
<1> QED
  BY <1>6, <1>7 DEF WaitsAreBehind

LEMMA UseInit == Init => UseInv
<1> SUFFICES ASSUME Init PROVE UseInv
  OBVIOUS
<1>1. IInv
  BY InitHolds
<1>2. Apart
  <2>1. Queued = {} /\ Away = {}
    BY DEF Init, Queued, Away, Plain!Listed
  <2> QED
    BY <2>1 DEF Init, PoolInit, Apart, Distinct
<1>3. OnTheirWay
  <2>1. Plain!Left(ret) = <<>>
    BY DEF Init, DepInit, Plain!Left, Plain!Without, Plain!Listed
  <2> QED
    BY <2>1 DEF Init, OnTheirWay, enters
<1>4. WaitsAreBehind
  BY DEF Init, DepInit, WaitsAreBehind, waits, Plain!Recorded
<1> QED
  BY <1>1, <1>2, <1>3, <1>4 DEF UseInv

LEMMA UseNext == UseInv /\ [Next]_vars => UseInv'
<1> SUFFICES ASSUME UseInv, [Next]_vars PROVE UseInv'
  OBVIOUS
<1>1. IInv'
  BY NextKeeps DEF UseInv
<1>2. CASE Next
  <2>1. PICK ask \in BOOLEAN, e \in enterable \cup {None}, p \in completable \cup {None},
             back \in done \cup completable \cup {None},
             go \in SUBSET {d \in Dep : told(d)} :
          Edge(ask, e, p, back, go)
    BY <1>2 DEF Next
  <2>2. Apart'
    BY <2>1, ApartStep DEF UseInv
  <2>3. OnTheirWay'
    BY <1>1, <2>1, OnTheirWayStep DEF UseInv
  <2>4. WaitsAreBehind'
    BY <2>1, WaitsStepBehind DEF UseInv
  <2> QED
    BY <1>1, <2>2, <2>3, <2>4 DEF UseInv
<1>3. CASE UNCHANGED vars
  <2> USE <1>3 DEF vars, depvars, usevars
  <2>1. Apart'
    BY DEF UseInv, Apart, Queued, Away
  <2>2. OnTheirWay'
    BY DEF UseInv, OnTheirWay, Plain!Left
  <2>3. WaitsAreBehind'
    <3>1. waits' = waits /\ Plain!Youngest' = Plain!Youngest
      BY DEF waits, Plain!Youngest
    <3>2. \A d \in Dep : Plain!Recorded(ent, d)' = Plain!Recorded(ent, d)
      BY <3>1 DEF Plain!Recorded
    <3> QED
      BY <3>2 DEF UseInv, WaitsAreBehind
  <2> QED
    BY <1>1, <2>1, <2>2, <2>3 DEF UseInv
<1> QED
  BY <1>2, <1>3

\* What is in different places adds up.
LEMMA PlacesAddUp ==
  ASSUME UseInv
  PROVE  HeldOnce
<1> DEFINE T == {tok} \ {None}
           R == {rel} \ {None}
<1>1. /\ IsFiniteSet(Queued) /\ Cardinality(Queued) = Len(granted)
      /\ IsFiniteSet(Away) /\ Cardinality(Away) = Len(out)
  BY ListedCount DEF UseInv, IInv, UseKinds, Apart, Queued, Away
<1>2. IsFiniteSet(T) /\ IsFiniteSet(R)
  <2>1. IsFiniteSet({tok}) /\ IsFiniteSet({rel})
    BY FS_Singleton
  <2> QED
    BY <2>1, FS_RemoveElement
<1>3. IsFiniteSet(done)
  <2>1. \A t \in Prod : t \in Nat /\ t <= N
    BY DepAssumption DEF Prod
  <2>2. done \in SUBSET Nat /\ N \in Nat /\ \A t \in done : t <= N
    BY <2>1, DepAssumption DEF UseInv, Apart
  <2> QED
    BY <2>2, FS_BoundedSetOfNaturals
<1> HIDE DEF T, R
<1>4. /\ m_held = ((T \cup Queued) \cup Away) \cup (done \cup R)
      /\ T \cap Queued = {} /\ (T \cup Queued) \cap Away = {} /\ done \cap R = {}
      /\ ((T \cup Queued) \cup Away) \cap (done \cup R) = {}
  BY DEF UseInv, Apart, T, R
<1>5. ASSUME NEW A, NEW B, IsFiniteSet(A), IsFiniteSet(B), A \cap B = {}
      PROVE  IsFiniteSet(A \cup B) /\ Cardinality(A \cup B) = Cardinality(A) + Cardinality(B)
  <2>1. Cardinality(A) \in Nat /\ Cardinality(B) \in Nat
    BY <1>5, FS_CardinalityType
  <2>2. /\ IsFiniteSet(A \cup B)
        /\ Cardinality(A \cup B) = Cardinality(A) + Cardinality(B) - Cardinality(A \cap B)
    BY <1>5, FS_Union
  <2>3. Cardinality(A \cap B) = 0
    BY <1>5, FS_EmptySet
  <2> QED
    BY <2>1, <2>2, <2>3
<1>6. IsFiniteSet(T \cup Queued) /\ Cardinality(T \cup Queued) = Cardinality(T) + Len(granted)
  BY <1>1, <1>2, <1>4, <1>5
<1>7. /\ IsFiniteSet((T \cup Queued) \cup Away)
      /\ Cardinality((T \cup Queued) \cup Away) = Cardinality(T) + Len(granted) + Len(out)
  <2> DEFINE A == T \cup Queued
  <2>1. /\ IsFiniteSet(A) /\ Cardinality(A) = Cardinality(T) + Len(granted)
        /\ IsFiniteSet(Away) /\ A \cap Away = {}
    BY <1>1, <1>4, <1>6
  <2> HIDE DEF A
  <2>2. IsFiniteSet(A \cup Away) /\ Cardinality(A \cup Away) = Cardinality(A) + Cardinality(Away)
    BY <1>5, <2>1
  <2> QED
    BY <1>1, <2>1, <2>2 DEF A
<1>8. IsFiniteSet(done \cup R) /\ Cardinality(done \cup R) = Cardinality(done) + Cardinality(R)
  BY <1>2, <1>3, <1>4, <1>5
<1>9. Cardinality(m_held) = (Cardinality(T) + Len(granted) + Len(out)) + (Cardinality(done) + Cardinality(R))
  BY <1>4, <1>5, <1>7, <1>8
<1>10. /\ Cardinality(T) \in Nat /\ Cardinality(R) \in Nat /\ Cardinality(done) \in Nat
       /\ Len(granted) \in Nat /\ Len(out) \in Nat
  BY <1>1, <1>2, <1>3, FS_CardinalityType
<1>11. Queued = {granted[i] : i \in DOMAIN granted} /\ Away = completable
  BY DEF UseInv, IInv, UseKinds, Apart, Queued, Away, completable, Plain!Listed
<1>12. Cardinality(m_held) = Cardinality(T) + Len(granted) + Len(out) + Cardinality(done) + Cardinality(R)
  BY <1>9, <1>10
<1> QED
  BY <1>4, <1>11, <1>12 DEF HeldOnce, T, R

\* For every number of tokens and dependents, and whatever order the completions
\* come in, the tracker's links from m_top down are the live producers in the
\* order they entered.
THEOREM LinksAreOrder == Spec => []ListIsOrder
<1>1. IInv => ListIsOrder
  BY DEF IInv, DepInv
<1> QED
  BY <1>1, InitHolds, NextKeeps, PTL DEF Spec

\* fw_dep_tracker's masks and links implement DepOrder: at every edge the list and
\* each dependent's producer change as the plain list's do.
THEOREM TrackerImplements == Spec => TrackerSpec
<1>1. IInv /\ [Next]_vars => IInv' /\ [Plain!Cycle(ent, ret)]_<<ent, ret, order, waits>>
  BY NextKeeps
<1> QED
  BY <1>1, InitHolds, PTL DEF Spec, TrackerSpec
\* For every number of tokens: a token has one owner, a producer never enters with
\* the tag of one that is still live, and a retire finds its producer live, however
\* the pool's grants and releases meet the tracker's entries and retires.
THEOREM TokensNameOne == Spec => []TagsNameOne
<1>1. ASSUME UseInv PROVE TagsNameOne
  <2>1. HeldOnce
    BY <1>1, PlacesAddUp
  <2>2. ASSUME ent # None, ent.kind = "producer" PROVE ent.tag \notin m_live \ {ret}
    <3>1. order \in Seq(Prod) /\ Distinct(order) /\ m_live = Plain!Listed(order)
      BY <1>1 DEF UseInv, IInv, DepInv, DepKinds, ListIsOrder, Links, Distinct, Plain!Listed
    <3>2. Plain!Listed(Plain!Left(ret)) = m_live \ {ret}
      BY <3>1, WithoutListed DEF Plain!Left
    <3> QED
      BY <1>1, <2>2, <3>2 DEF UseInv, OnTheirWay, enters
  <2> QED
    BY <1>1, <2>1, <2>2 DEF UseInv, OnTheirWay, TagsNameOne
<1> QED
  BY <1>1, UseInit, UseNext, PTL DEF Spec

\* For every number of tokens and dependents: a dependent goes on only when the
\* youngest producer that entered before it has completed, and waits no longer
\* than that producer's retire is on its way.
THEOREM DependentsWait == Spec => []WaitsForYoungest
<1>1. ASSUME UseInv PROVE WaitsForYoungest
  <2> SUFFICES ASSUME NEW d \in asked, ent # Dependent(d)
               PROVE  /\ d \in ok => behind[d] = None
                      /\ d \notin ok /\ behind[d] = None => ret # None /\ m_on[d] = ret
    BY DEF WaitsForYoungest
  <2>1. d \in Dep
    BY <1>1 DEF UseInv, WaitsAreBehind
  <2>2. Plain!Recorded(ent, d) = IF d \in m_wait THEN m_on[d] ELSE None
    <3>1. ~(ent # None /\ ent.kind = "dependent" /\ ent.tag = d)
      BY <1>1 DEF UseInv, IInv, UseKinds, Entries, Producer, Dependent
    <3> QED
      BY <2>1, <3>1 DEF Plain!Recorded, waits
  <2>3. behind[d] = IF Plain!Recorded(ent, d) = ret THEN None ELSE Plain!Recorded(ent, d)
    BY <1>1, <2>1 DEF UseInv, WaitsAreBehind
  <2>4. m_on[d] \in Prod /\ None \notin Prod
    BY <1>1, <2>1, DepAssumption DEF UseInv, IInv, DepInv, DepKinds, Prod
  <2> QED
    BY <2>1, <2>2, <2>3, <2>4 DEF ok
<1> QED
  BY <1>1, UseInit, UseNext, PTL DEF Spec
===============================================================================
