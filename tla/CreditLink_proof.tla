--------------------------- MODULE CreditLink_proof --------------------------
(***************************************************************************)
(* Proofs about CreditLink, for every number of VCs, every credit count,   *)
(* reserve, cost of a value and policy.                                    *)
(*                                                                         *)
(* The inductive invariant.  A sum over the VCs is kept as the running     *)
(* sums of the reserves; they are monotone, so each reserve is at most the *)
(* last of them, which is what bounds a send by Conservation.  ReserveKept *)
(* is inductive: a credit goes to the pool only when its VC's reserve is   *)
(* full.  InOrder is, once it is known that a single VC has no hold.       *)
(***************************************************************************)
EXTENDS CreditLink, SequenceTheorems, FiniteSetTheorems, TLAPS

Kinds ==
  /\ m_pool \in Nat
  /\ m_res \in [VC -> Nat]
  /\ m_hold \in [VC -> Data \cup {None}]
  /\ m_last \in VC
  /\ link \in Seq(VC \X Data)
  /\ crq \in Seq(VC) /\ owed \in Seq(VC)
  /\ sums \in [0 .. NVC -> Nat]
  /\ nin \in [VC -> Data]
  /\ n_violations \in BOOLEAN

SumsGrow == \A j, k \in 0 .. NVC : j <= k => sums[j] <= sums[k]

\* InOrder, and with one VC no hold.
Ordered ==
  /\ InOrder
  /\ nout \in [VC -> Data]
  /\ NVC = 1 => \A v \in VC : m_hold[v] = None

IInv == /\ Kinds /\ SumsOK /\ SumsGrow /\ Conservation /\ NoViolation
        /\ ReserveKept /\ Ordered

\* Products of credits, which the linear arithmetic of the provers needs help with.
LEMMA Times ==
  ASSUME NEW c \in Nat, NEW n \in Nat
  PROVE  c * n \in Nat /\ c * (n + 1) = c * n + c /\ (n + 1) * c = n * c + c /\ n * c = c * n
  OBVIOUS

LEMMA TimesGrows ==
  ASSUME NEW c \in Nat, NEW m \in Nat, NEW n \in Nat, m <= n
  PROVE  m * c <= n * c
<1>1. PICK k \in Nat : n = m + k
  <2>1. n - m \in Nat /\ n = m + (n - m)
    OBVIOUS
  <2>2. QED
    BY <2>1
<1>2. n * c = m * c + k * c
  BY <1>1
<1>3. k * c \in Nat /\ m * c \in Nat
  BY Times
<1>4. QED
  BY <1>2, <1>3

------------------------------------------------------------------------------
\* A send takes CHECK credits, none of them from where there are none.
LEMMA SendTakes ==
  ASSUME Kinds, NEW offer, NEW g \in VC \cup {None}, Sends(offer, g)
  PROVE  /\ FromPool(g) \in Nat /\ FromPool(g) <= m_pool
         /\ FromRes(g) \in Nat
         /\ g = None => FromPool(g) = 0 /\ FromRes(g) = 0
         /\ g # None => /\ g \in VC /\ Covered(g)
                        /\ FromRes(g) <= m_res[g]
                        /\ FromPool(g) + FromRes(g) = CHECK
<1> USE CreditAssumption
<1>1. CASE g = None
  BY <1>1 DEF FromPool, FromRes, Kinds
<1>2. CASE g # None
  <2>1. g \in VC /\ Covered(g)
    BY <1>2 DEF Sends, Sendable
  <2>2. m_pool \in Nat /\ m_res[g] \in Nat /\ CHECK \in Nat /\ m_pool + m_res[g] >= CHECK
    BY <2>1 DEF Kinds, Covered
  <2>3. QED
    BY <1>2, <2>1, <2>2 DEF FromPool, FromRes, min_c
<1>3. QED
  BY <1>1, <1>2

\* Each reserve is at most the sum of them all.
LEMMA ResBound ==
  ASSUME Kinds, SumsOK, SumsGrow, NEW v \in VC
  PROVE  m_res[v] <= sums[NVC]
<1> USE CreditAssumption
<1>1. v + 1 \in 0 .. NVC /\ v \in 0 .. NVC /\ NVC \in 0 .. NVC /\ v + 1 <= NVC
  BY DEF VC
<1>2. sums[v + 1] <= sums[NVC] /\ sums[v + 1] = sums[v] + m_res[v]
  BY <1>1 DEF SumsGrow, SumsOK
<1>3. sums[v] \in Nat /\ m_res[v] \in Nat /\ sums[NVC] \in Nat /\ sums[v + 1] \in Nat
  BY <1>1 DEF Kinds
<1>4. QED
  BY <1>2, <1>3

\* What one edge does, unpacked: g sends and r comes back.
Offer(asking) == [v \in VC |-> IF v \in asking THEN nin[v] ELSE None]
Back == IF crq = <<>> THEN None ELSE Head(crq)

EdgeBy(asking, take, give, g) ==
  /\ take => link # <<>>
  /\ give = 0 \/ (give \in 1 .. Len(Owed(take)) /\ Len(crq) < CRDEPTH)
  /\ TxStep(Offer(asking), g, Back)
  /\ link' = (IF take THEN Tail(link) ELSE link)
             \o (IF g = None THEN <<>> ELSE <<<<g, Sent(Offer(asking), g)>>>>)
  /\ n_violations' = (n_violations \/ (g # None /\ Len(link) >= DEPTH))
  /\ sums' = [k \in 0 .. NVC |->
       (sums[k] - (IF g # None /\ g < k THEN FromRes(g) ELSE 0))
       + (IF Back # None /\ Back < k /\ ToRes(g, Back) THEN 1 ELSE 0)]
  /\ nin' = [v \in VC |-> IF v \in Takes(Offer(asking), g) THEN After(nin[v]) ELSE nin[v]]
  /\ crq' = (IF crq = <<>> THEN <<>> ELSE Tail(crq))
            \o (IF give = 0 THEN <<>> ELSE <<Owed(take)[give]>>)
  /\ owed' = IF give = 0 THEN Owed(take) ELSE Without(Owed(take), give)
  /\ nout' = [v \in VC |-> IF take /\ Head(link)[1] = v THEN After(nout[v]) ELSE nout[v]]

LEMMA EdgeUnpacked ==
  ASSUME NEW asking, NEW take, NEW give, Edge(asking, take, give)
  PROVE  \E g \in VC \cup {None} : EdgeBy(asking, take, give, g)
  BY DEF Edge, EdgeBy, Offer, Back

\* Sequences: dropping the head or not, dropping one place, n copies.
LEMMA DropHead ==
  ASSUME NEW S, NEW seq \in Seq(S), NEW b \in BOOLEAN, b => seq # <<>>
  PROVE  /\ (IF b THEN Tail(seq) ELSE seq) \in Seq(S)
         /\ Len(IF b THEN Tail(seq) ELSE seq) = Len(seq) - (IF b THEN 1 ELSE 0)
         /\ b => Len(seq) > 0 /\ Head(seq) \in S
  BY HeadTailProperties, EmptySeq

LEMMA DropOne ==
  ASSUME NEW S, NEW seq \in Seq(S), NEW i \in 1 .. Len(seq)
  PROVE  /\ Without(seq, i) \in Seq(S)
         /\ Len(Without(seq, i)) = Len(seq) - 1
         /\ seq[i] \in S
<1> DEFINE left == SubSeq(seq, 1, i - 1)
           right == SubSeq(seq, i + 1, Len(seq))
<1>1. Len(seq) \in Nat /\ i \in Nat /\ 1 <= i /\ i <= Len(seq) /\ seq[i] \in S
  OBVIOUS
<1>2. left \in Seq(S) /\ Len(left) = i - 1
  BY <1>1, SubSeqProperties
<1>3. right \in Seq(S) /\ Len(right) = Len(seq) - i
  BY <1>1, SubSeqProperties
<1>4. Without(seq, i) = left \o right
  BY DEF Without
<1> HIDE DEF left, right
<1>5. QED
  BY <1>1, <1>2, <1>3, <1>4, ConcatProperties

LEMMA Copies ==
  ASSUME NEW S, NEW n \in Nat, NEW e \in S
  PROVE  [i \in 1 .. n |-> e] \in Seq(S) /\ Len([i \in 1 .. n |-> e]) = n
  OBVIOUS

LEMMA Joined ==
  ASSUME NEW S, NEW a \in Seq(S), NEW b \in Seq(S)
  PROVE  a \o b \in Seq(S) /\ Len(a \o b) = Len(a) + Len(b) /\ Len(a) \in Nat /\ Len(b) \in Nat
  BY ConcatProperties, LenProperties

LEMMA OwedIs ==
  ASSUME NEW take \in BOOLEAN, take => link # <<>>,
         link \in Seq(VC \X Data), owed \in Seq(VC)
  PROVE  /\ Owed(take) \in Seq(VC)
         /\ Len(Owed(take)) = Len(owed) + (IF take THEN CHECK ELSE 0)
<1>1. CASE take
  <2> DEFINE vc == Head(link)[1]
  <2>1. vc \in VC /\ CHECK \in Nat
    <3>1. Head(link) \in VC \X Data
      BY <1>1, DropHead
    <3>2. QED
      BY <3>1, CreditAssumption
  <2>2. Owed(take) = owed \o [i \in 1 .. CHECK |-> vc]
    BY <1>1 DEF Owed
  <2> HIDE DEF vc
  <2> DEFINE more == [i \in 1 .. CHECK |-> vc]
  <2>3. more \in Seq(VC) /\ Len(more) = CHECK
    BY <2>1, Copies
  <2> HIDE DEF more
  <2>4. owed \o more \in Seq(VC) /\ Len(owed \o more) = Len(owed) + CHECK
    BY <2>3, Joined
  <2>5. QED
    BY <1>1, <2>2, <2>4 DEF more
<1>2. CASE ~take
  BY <1>2 DEF Owed
<1>3. QED
  BY <1>1, <1>2

\* What g sends is a value.
LEMMA SentIsData ==
  ASSUME Kinds, NEW asking, NEW g \in VC, g \in Sendable(Offer(asking))
  PROVE  Sent(Offer(asking), g) \in Data
  BY DEF Kinds, Sendable, Sent, Offer

\* The sequences of an edge: their kinds and lengths.
LEMMA EdgeSequences ==
  ASSUME Kinds, NEW asking \in SUBSET VC, NEW take \in BOOLEAN, NEW give \in Nat,
         NEW g \in VC \cup {None}, EdgeBy(asking, take, give, g)
  PROVE  /\ link' \in Seq(VC \X Data) /\ crq' \in Seq(VC) /\ owed' \in Seq(VC)
         /\ Len(link') = (Len(link) - (IF take THEN 1 ELSE 0)) + (IF g = None THEN 0 ELSE 1)
         /\ Len(owed') = (Len(owed) + (IF take THEN CHECK ELSE 0)) - (IF give = 0 THEN 0 ELSE 1)
         /\ Len(crq') = (Len(crq) - (IF Back = None THEN 0 ELSE 1)) + (IF give = 0 THEN 0 ELSE 1)
         /\ take => Len(link) > 0
         /\ Back \in VC \cup {None}
<1>1. /\ link \in Seq(VC \X Data) /\ crq \in Seq(VC) /\ owed \in Seq(VC)
      /\ take => link # <<>>
      /\ give # 0 => give \in 1 .. Len(Owed(take))
  BY DEF Kinds, EdgeBy
<1>2. Back \in VC \cup {None} /\ ((Back = None) <=> (crq = <<>>))
  BY <1>1, CreditAssumption, HeadTailProperties DEF Back, VC
<1>3. take => Len(link) > 0
  BY <1>1, DropHead
<1>4. link' \in Seq(VC \X Data) /\
      Len(link') = (Len(link) - (IF take THEN 1 ELSE 0)) + (IF g = None THEN 0 ELSE 1)
  <2> DEFINE rest == IF take THEN Tail(link) ELSE link
             new  == IF g = None THEN <<>> ELSE <<<<g, Sent(Offer(asking), g)>>>>
  <2>1. rest \in Seq(VC \X Data) /\ Len(rest) = Len(link) - (IF take THEN 1 ELSE 0)
    BY <1>1, DropHead
  <2>2. new \in Seq(VC \X Data) /\ Len(new) = IF g = None THEN 0 ELSE 1
    <3>1. CASE g = None
      BY <3>1, EmptySeq
    <3>2. CASE g # None
      <4>1. g \in VC /\ Sent(Offer(asking), g) \in Data
        BY <3>2, SentIsData DEF EdgeBy, TxStep, Sends
      <4>2. <<g, Sent(Offer(asking), g)>> \in VC \X Data
        BY <4>1
      <4>3. QED
        BY <3>2, <4>2
    <3>3. QED
      BY <3>1, <3>2
  <2>3. link' = rest \o new
    BY DEF EdgeBy
  <2> HIDE DEF rest, new
  <2>4. rest \o new \in Seq(VC \X Data) /\ Len(rest \o new) = Len(rest) + Len(new)
    BY <2>1, <2>2, Joined
  <2>5. QED
    BY <2>1, <2>2, <2>3, <2>4
<1>5. Owed(take) \in Seq(VC) /\ Len(Owed(take)) = Len(owed) + (IF take THEN CHECK ELSE 0)
  BY <1>1, OwedIs
<1>6. give # 0 => /\ Without(Owed(take), give) \in Seq(VC)
                  /\ Len(Without(Owed(take), give)) = Len(Owed(take)) - 1
                  /\ Owed(take)[give] \in VC
  BY <1>1, <1>5, DropOne
<1>7. owed' \in Seq(VC) /\
      Len(owed') = (Len(owed) + (IF take THEN CHECK ELSE 0)) - (IF give = 0 THEN 0 ELSE 1)
  <2>1. owed' = IF give = 0 THEN Owed(take) ELSE Without(Owed(take), give)
    BY DEF EdgeBy
  <2>2. Len(owed) \in Nat /\ CHECK \in Nat
    BY <1>1, CreditAssumption, LenProperties
  <2>3. CASE give = 0
    BY <1>5, <2>1, <2>2, <2>3
  <2>4. CASE give # 0
    BY <1>5, <1>6, <2>1, <2>2, <2>4
  <2>5. QED
    BY <2>3, <2>4
<1>8. crq' \in Seq(VC) /\
      Len(crq') = (Len(crq) - (IF Back = None THEN 0 ELSE 1)) + (IF give = 0 THEN 0 ELSE 1)
  <2> DEFINE rest == IF crq = <<>> THEN <<>> ELSE Tail(crq)
             new  == IF give = 0 THEN <<>> ELSE <<Owed(take)[give]>>
  <2>1. rest \in Seq(VC) /\ Len(rest) = Len(crq) - (IF Back = None THEN 0 ELSE 1)
    <3>1. CASE crq = <<>>
      BY <1>2, <3>1, EmptySeq
    <3>2. CASE crq # <<>>
      BY <1>1, <1>2, <3>2, HeadTailProperties
    <3>3. QED
      BY <3>1, <3>2
  <2>2. new \in Seq(VC) /\ Len(new) = IF give = 0 THEN 0 ELSE 1
    <3>1. CASE give = 0
      BY <3>1, EmptySeq
    <3>2. CASE give # 0
      BY <1>6, <3>2
    <3>3. QED
      BY <3>1, <3>2
  <2>3. crq' = rest \o new
    BY DEF EdgeBy
  <2> HIDE DEF rest, new
  <2>4. rest \o new \in Seq(VC) /\ Len(rest \o new) = Len(rest) + Len(new)
    BY <2>1, <2>2, Joined
  <2>5. QED
    BY <2>1, <2>2, <2>3, <2>4
<1>9. QED
  BY <1>2, <1>3, <1>4, <1>7, <1>8

------------------------------------------------------------------------------
\* Counting the places of an entry: they are finitely many.
LEMMA CountIsNat ==
  ASSUME NEW S, NEW seq \in Seq(S), NEW e
  PROVE  IsFiniteSet(At(seq, e)) /\ Count(seq, e) \in Nat
<1>1. IsFiniteSet(1 .. Len(seq))
  BY FS_Interval, LenProperties
<1>2. At(seq, e) \in SUBSET (1 .. Len(seq))
  BY DEF At
<1>3. IsFiniteSet(At(seq, e))
  BY <1>1, <1>2, FS_Subset
<1>4. QED
  BY <1>3, FS_CardinalityType DEF Count

LEMMA CountEmpty == \A e : Count(<<>>, e) = 0
<1>1. \A e : At(<<>>, e) = {}
  BY DEF At
<1>2. QED
  BY <1>1, FS_EmptySet DEF Count

LEMMA CountOne ==
  ASSUME NEW S, NEW x \in S, NEW e
  PROVE  Count(<<x>>, e) = IF x = e THEN 1 ELSE 0
<1>1. At(<<x>>, e) = IF x = e THEN {1} ELSE {}
  BY DEF At
<1>2. QED
  BY <1>1, FS_EmptySet, FS_Singleton DEF Count

\* The places of t in s \o t are as many as in t.
LEMMA CountConcat ==
  ASSUME NEW S, NEW s \in Seq(S), NEW t \in Seq(S), NEW e
  PROVE  Count(s \o t, e) = Count(s, e) + Count(t, e)
<1> DEFINE n == Len(s)
           right == {i \in At(s \o t, e) : i > n}
           move == [j \in At(t, e) |-> n + j]
<1>1. /\ n \in Nat /\ Len(t) \in Nat /\ Len(s \o t) = n + Len(t)
      /\ \A i \in 1 .. n + Len(t) : (s \o t)[i] = IF i <= n THEN s[i] ELSE t[i - n]
  BY LenProperties, ConcatProperties
<1>2. At(s \o t, e) = At(s, e) \cup right
  <2>1. ASSUME NEW i, i <= n PROVE i \in At(s \o t, e) <=> i \in At(s, e)
    BY <1>1, <2>1 DEF At
  <2>2. \A i \in At(s \o t, e) : i <= n \/ i > n
    BY <1>1 DEF At
  <2>3. \A i \in At(s, e) : i <= n
    BY <1>1 DEF At
  <2>4. QED
    BY <2>1, <2>2, <2>3
<1>3. At(s, e) \cap right = {}
  BY <1>1 DEF At
<1>4. move \in Bijection(At(t, e), right)
  <2>1. ASSUME NEW j \in At(t, e) PROVE n + j \in right
    BY <1>1 DEF At
  <2>2. ASSUME NEW i \in right PROVE i - n \in At(t, e) /\ i = n + (i - n)
    BY <1>1 DEF At
  <2>3. \A j, k \in At(t, e) : n + j = n + k => j = k
    BY <1>1 DEF At
  <2>4. move \in [At(t, e) -> right]
    BY <2>1
  <2>5. \A i \in right : \E j \in At(t, e) : move[j] = i
    BY <2>2
  <2>6. \A j, k \in At(t, e) : move[j] = move[k] => j = k
    BY <2>3
  <2>7. QED
    BY <2>4, <2>5, <2>6 DEF Bijection, Injection, Surjection, IsInjective
<1>5. /\ IsFiniteSet(At(t, e)) /\ IsFiniteSet(At(s, e))
      /\ Count(s, e) \in Nat /\ Count(t, e) \in Nat
  BY CountIsNat
<1>6. IsFiniteSet(right) /\ Cardinality(right) = Count(t, e)
  BY <1>4, <1>5, FS_Bijection DEF ExistsBijection, Count
<1> HIDE DEF right, move
<1>7. Cardinality(At(s, e) \cup right)
        = Cardinality(At(s, e)) + Cardinality(right) - Cardinality(At(s, e) \cap right)
  BY <1>5, <1>6, FS_Union
<1>8. Count(s \o t, e) = Cardinality(At(s, e) \cup right)
  BY <1>2 DEF Count
<1>9. Cardinality(At(s, e) \cap right) = 0
  BY <1>3, FS_EmptySet
<1>10. Cardinality(At(s, e)) = Count(s, e)
  BY DEF Count
<1>11. QED
  BY <1>5, <1>6, <1>7, <1>8, <1>9, <1>10

LEMMA CountTail ==
  ASSUME NEW S, NEW seq \in Seq(S), seq # <<>>, NEW e
  PROVE  /\ Tail(seq) \in Seq(S)
         /\ Count(seq, e) = (IF Head(seq) = e THEN 1 ELSE 0) + Count(Tail(seq), e)
<1>1. Head(seq) \in S /\ Tail(seq) \in Seq(S) /\ seq = <<Head(seq)>> \o Tail(seq)
  BY HeadTailProperties, ConcatProperties
<1>2. <<Head(seq)>> \in Seq(S) /\ Count(<<Head(seq)>>, e) = IF Head(seq) = e THEN 1 ELSE 0
  BY <1>1, CountOne
<1>3. Count(<<Head(seq)>> \o Tail(seq), e) = Count(<<Head(seq)>>, e) + Count(Tail(seq), e)
  BY <1>1, <1>2, CountConcat
<1>4. QED
  BY <1>1, <1>2, <1>3

LEMMA CountWithout ==
  ASSUME NEW S, NEW seq \in Seq(S), NEW i \in 1 .. Len(seq), NEW e
  PROVE  Count(seq, e) = Count(Without(seq, i), e) + (IF seq[i] = e THEN 1 ELSE 0)
<1> DEFINE left == SubSeq(seq, 1, i - 1)
           right == SubSeq(seq, i + 1, Len(seq))
<1>1. Len(seq) \in Nat /\ i \in Nat /\ 1 <= i /\ i <= Len(seq) /\ seq[i] \in S
  OBVIOUS
<1>2. /\ left \in Seq(S) /\ Len(left) = i - 1
      /\ \A k \in 1 .. i - 1 : left[k] = seq[k]
  BY <1>1, SubSeqProperties
<1>3. /\ right \in Seq(S) /\ Len(right) = Len(seq) - i
      /\ \A k \in 1 .. Len(seq) - i : right[k] = seq[i + k]
  BY <1>1, SubSeqProperties
<1>4. Without(seq, i) = left \o right
  BY DEF Without
<1> HIDE DEF left, right
<1> DEFINE one == <<seq[i]>>
           most == left \o one
<1>5. /\ one \in Seq(S) /\ Len(one) = 1 /\ one[1] = seq[i]
      /\ Count(one, e) = IF seq[i] = e THEN 1 ELSE 0
  BY <1>1, CountOne
<1> HIDE DEF one
<1>6. /\ most \in Seq(S) /\ Len(most) = i
      /\ \A k \in 1 .. i : most[k] = seq[k]
  <2>1. most \in Seq(S) /\ Len(most) = Len(left) + Len(one)
        /\ \A k \in 1 .. Len(left) + Len(one) :
             most[k] = IF k <= Len(left) THEN left[k] ELSE one[k - Len(left)]
    BY <1>2, <1>5, ConcatProperties
  <2>2. Len(most) = i
    BY <1>1, <1>2, <1>5, <2>1
  <2>3. ASSUME NEW k \in 1 .. i PROVE most[k] = seq[k]
    <3>1. CASE k <= i - 1
      <4>1. k \in 1 .. i - 1
        BY <1>1, <3>1
      <4>2. QED
        BY <1>1, <1>2, <1>5, <2>1, <4>1
    <3>2. CASE k = i
      <4>1. k - Len(left) = 1 /\ ~(k <= Len(left)) /\ k \in 1 .. Len(left) + Len(one)
        BY <1>1, <1>2, <1>5, <3>2
      <4>2. QED
        BY <1>5, <2>1, <3>2, <4>1
    <3>3. k <= i - 1 \/ k = i
      BY <1>1
    <3>4. QED
      BY <3>1, <3>2, <3>3
  <2>4. QED
    BY <2>1, <2>2, <2>3
<1>7. Count(most, e) = Count(left, e) + (IF seq[i] = e THEN 1 ELSE 0)
  BY <1>2, <1>5, CountConcat
<1> HIDE DEF most
<1>8. seq = most \o right
  <2>1. /\ most \o right \in Seq(S) /\ Len(most \o right) = Len(seq)
        /\ \A k \in 1 .. Len(seq) : (most \o right)[k] = IF k <= i THEN most[k] ELSE right[k - i]
    <3>1. Len(most) + Len(right) = Len(seq)
      BY <1>1, <1>3, <1>6
    <3>2. Len(most \o right) = Len(most) + Len(right)
      BY <1>3, <1>6, ConcatProperties
    <3>3. QED
      BY <1>3, <1>6, <3>1, <3>2, ConcatProperties
  <2>2. \A k \in 1 .. Len(seq) : (most \o right)[k] = seq[k]
    <3>1. ASSUME NEW k \in 1 .. Len(seq), k > i PROVE right[k - i] = seq[k]
      <4>1. k - i \in 1 .. Len(seq) - i /\ i + (k - i) = k
        BY <1>1, <3>1
      <4>2. QED
        BY <1>3, <4>1
    <3>2. QED
      <4>1. ASSUME NEW k \in 1 .. Len(seq), k <= i PROVE k \in 1 .. i
        BY <1>1, <4>1
      <4>2. QED
        BY <1>6, <2>1, <3>1, <4>1
  <2>3. QED
    BY <2>1, <2>2, SeqEqual
<1>9. Count(left \o right, e) = Count(left, e) + Count(right, e)
  BY <1>2, <1>3, CountConcat
<1>10. Count(most \o right, e) = Count(most, e) + Count(right, e)
  BY <1>3, <1>6, CountConcat
<1>11. Count(left, e) \in Nat /\ Count(right, e) \in Nat
  BY <1>2, <1>3, CountIsNat
<1>12. QED
  BY <1>4, <1>7, <1>8, <1>9, <1>10, <1>11

LEMMA CountCopies ==
  ASSUME NEW S, NEW seq \in Seq(S), NEW x, \A i \in 1 .. Len(seq) : seq[i] = x, NEW e
  PROVE  Count(seq, e) = IF x = e THEN Len(seq) ELSE 0
<1>1. At(seq, e) = IF x = e THEN 1 .. Len(seq) ELSE {}
  <2>1. \A i \in 1 .. Len(seq) : seq[i] = e <=> x = e
    OBVIOUS
  <2>2. QED
    BY <2>1 DEF At
<1>2. Cardinality(1 .. Len(seq)) = Len(seq)
  <2>1. ASSUME NEW n \in Nat PROVE Cardinality(1 .. n) = n
    BY FS_Interval
  <2>2. QED
    BY <2>1, LenProperties
<1>3. Cardinality({}) = 0
  BY FS_EmptySet
<1>4. QED
  BY <1>1, <1>2, <1>3 DEF Count

------------------------------------------------------------------------------
\* What an edge does to the pool and to each reserve.
LEMMA EdgeCredits ==
  ASSUME Kinds, NEW asking \in SUBSET VC, NEW take \in BOOLEAN, NEW give \in Nat,
         NEW g \in VC \cup {None}, EdgeBy(asking, take, give, g)
  PROVE  /\ m_pool' \in Nat
         /\ m_pool' = (m_pool - FromPool(g)) + (IF ToPool(g, Back) THEN 1 ELSE 0)
         /\ m_res' \in [VC -> Nat]
         /\ \A v \in VC : m_res'[v] = (m_res[v] - (IF v = g THEN FromRes(g) ELSE 0))
                                      + (IF v = Back /\ ToRes(g, Back) THEN 1 ELSE 0)
<1>1. Sends(Offer(asking), g)
  BY DEF EdgeBy, TxStep
<1>2. m_pool \in Nat /\ \A v \in VC : m_res[v] \in Nat
  BY DEF Kinds
<1>3. /\ m_pool' = (m_pool - FromPool(g)) + (IF ToPool(g, Back) THEN 1 ELSE 0)
      /\ m_res' = [v \in VC |-> ResAfterSend(g)[v]
                               + (IF v = Back /\ ToRes(g, Back) THEN 1 ELSE 0)]
  BY DEF EdgeBy, TxStep
<1>4. FromPool(g) \in Nat /\ FromPool(g) <= m_pool /\ FromRes(g) \in Nat
  BY <1>1, SendTakes
<1>5. \A v \in VC : v = g => FromRes(g) <= m_res[v]
  BY <1>1, SendTakes, CreditAssumption DEF VC
<1>6. m_pool' \in Nat
  <2>1. m_pool - FromPool(g) \in Nat
    BY <1>2, <1>4
  <2>2. QED
    BY <2>1, <1>3
<1>7. ASSUME NEW v \in VC
      PROVE  /\ m_res'[v] = (m_res[v] - (IF v = g THEN FromRes(g) ELSE 0))
                            + (IF v = Back /\ ToRes(g, Back) THEN 1 ELSE 0)
             /\ m_res'[v] \in Nat
  <2>1. m_res'[v] = ResAfterSend(g)[v] + (IF v = Back /\ ToRes(g, Back) THEN 1 ELSE 0)
    BY <1>3
  <2>2. ResAfterSend(g)[v] = m_res[v] - (IF v = g THEN FromRes(g) ELSE 0)
    BY <1>2 DEF ResAfterSend
  <2>3. m_res[v] - (IF v = g THEN FromRes(g) ELSE 0) \in Nat
    BY <1>2, <1>4, <1>5
  <2>4. QED
    BY <2>1, <2>2, <2>3
<1>8. m_res' \in [VC -> Nat]
  BY <1>3, <1>7
<1>9. QED
  BY <1>3, <1>6, <1>7, <1>8

\* A returned credit goes to the reserve or to the pool, and to one of them.
LEMMA OnePlace ==
  ASSUME NEW g, Back \in VC \cup {None}
  PROVE  /\ (IF ToPool(g, Back) THEN 1 ELSE 0) + (IF ToRes(g, Back) THEN 1 ELSE 0)
              = IF Back = None THEN 0 ELSE 1
         /\ ToRes(g, Back) => Back \in VC
<1>1. None \notin VC
  BY CreditAssumption DEF VC
<1>2. ToRes(g, Back) => Back \in VC
  BY DEF ToRes
<1>3. CASE Back = None
  BY <1>1, <1>3 DEF ToPool, ToRes
<1>4. CASE Back # None
  <2>1. ToPool(g, Back) <=> ~ToRes(g, Back)
    BY <1>4 DEF ToPool
  <2>2. QED
    BY <2>1, <1>2, <1>4
<1>5. QED
  BY <1>3, <1>4, <1>2

\* The running sums follow the reserves, and stay in order.
LEMMA EdgeSums ==
  ASSUME Kinds, SumsOK, SumsGrow,
         NEW asking \in SUBSET VC, NEW take \in BOOLEAN, NEW give \in Nat,
         NEW g \in VC \cup {None}, EdgeBy(asking, take, give, g)
  PROVE  /\ sums' \in [0 .. NVC -> Nat]
         /\ SumsOK' /\ SumsGrow'
         /\ sums'[NVC] = (sums[NVC] - FromRes(g)) + (IF ToRes(g, Back) THEN 1 ELSE 0)
<1> DEFINE down(k) == IF g # None /\ g < k THEN FromRes(g) ELSE 0
           up(k)   == IF Back # None /\ Back < k /\ ToRes(g, Back) THEN 1 ELSE 0
<1>1. /\ NVC \in Nat \ {0} /\ None \notin VC /\ VC = 0 .. NVC - 1
      /\ \A k \in 0 .. NVC : sums[k] \in Nat
      /\ \A v \in VC : m_res[v] \in Nat
  BY CreditAssumption DEF Kinds, VC
<1>2. Sends(Offer(asking), g)
  BY DEF EdgeBy, TxStep
<1>3. /\ FromRes(g) \in Nat
      /\ g = None => FromRes(g) = 0
      /\ g # None => g \in VC /\ FromRes(g) <= m_res[g]
  BY <1>2, SendTakes
<1>4. Back \in VC \cup {None}
  BY EdgeSequences
<1>5. ToRes(g, Back) => Back \in VC
  BY <1>4, OnePlace
<1>6. \A v \in VC : /\ v \in 0 .. NVC /\ v + 1 \in 0 .. NVC
                    /\ sums[v + 1] = sums[v] + m_res[v]
  BY <1>1 DEF SumsOK
<1>7. \A k \in 0 .. NVC : sums'[k] = (sums[k] - down(k)) + up(k)
  BY DEF EdgeBy
<1>8. \A k \in 0 .. NVC : down(k) \in Nat /\ up(k) \in Nat
  BY <1>3
\* What the send takes from sums[k] it takes above sums[j], if g is between them.
<1>9. ASSUME NEW j \in 0 .. NVC, NEW k \in 0 .. NVC, j <= k
      PROVE  /\ sums[j] - down(j) <= sums[k] - down(k)
             /\ up(j) <= up(k)
  <2>1. CASE g # None /\ g < k /\ ~(g < j)
    <3>1. g \in VC /\ g + 1 <= k /\ j <= g /\ g \in 0 .. NVC /\ g + 1 \in 0 .. NVC
      BY <1>1, <1>3, <2>1
    <3>2. sums[j] <= sums[g] /\ sums[g + 1] <= sums[k] /\ sums[g + 1] = sums[g] + m_res[g]
      BY <1>6, <3>1 DEF SumsGrow
    <3>3. down(j) = 0 /\ down(k) = FromRes(g)
      BY <2>1
    <3>4. sums[j] \in Nat /\ sums[k] \in Nat /\ sums[g] \in Nat /\ sums[g + 1] \in Nat
          /\ m_res[g] \in Nat
      BY <1>1, <3>1
    <3>5. sums[j] - down(j) <= sums[k] - down(k)
      BY <1>3, <2>1, <3>2, <3>3, <3>4
    <3>6. up(j) <= up(k)
      BY <1>1, <1>5, <1>9
    <3>7. QED
      BY <3>5, <3>6
  <2>2. CASE ~(g # None /\ g < k /\ ~(g < j))
    <3>1. down(j) = down(k)
      BY <1>1, <1>3, <1>9, <2>2
    <3>2. sums[j] <= sums[k] /\ sums[j] \in Nat /\ sums[k] \in Nat
      BY <1>1, <1>9 DEF SumsGrow
    <3>3. down(j) \in Nat /\ down(k) \in Nat
      BY <1>8
    <3>4. sums[j] - down(j) <= sums[k] - down(k)
      BY <3>1, <3>2, <3>3
    <3>5. up(j) <= up(k)
      BY <1>1, <1>5, <1>9
    <3>6. QED
      BY <3>4, <3>5
  <2>3. QED
    BY <2>1, <2>2
<1>10. down(0) = 0 /\ up(0) = 0 /\ sums[0] = 0 /\ 0 \in 0 .. NVC
  BY <1>1, <1>3, <1>5 DEF SumsOK
<1>11. down(NVC) = FromRes(g) /\ up(NVC) = IF ToRes(g, Back) THEN 1 ELSE 0
  BY <1>1, <1>3, <1>5
<1>12. \A v \in VC : /\ down(v + 1) = down(v) + (IF v = g THEN FromRes(g) ELSE 0)
                     /\ up(v + 1) = up(v) + (IF v = Back /\ ToRes(g, Back) THEN 1 ELSE 0)
  BY <1>1, <1>3, <1>5
<1> HIDE DEF down, up
<1>13. ASSUME NEW k \in 0 .. NVC PROVE sums'[k] \in Nat
  <2>1. sums[0] - down(0) <= sums[k] - down(k)
    BY <1>1, <1>9
  <2>2. QED
    BY <1>1, <1>7, <1>8, <1>10, <2>1
<1>14. sums' \in [0 .. NVC -> Nat]
  BY <1>13 DEF EdgeBy
<1>15. SumsOK'
  <2>1. sums'[0] = 0
    BY <1>7, <1>10
  <2>2. ASSUME NEW v \in VC PROVE sums'[v + 1] = sums'[v] + m_res'[v]
    <3>1. /\ sums'[v + 1] = (sums[v + 1] - down(v + 1)) + up(v + 1)
          /\ sums'[v] = (sums[v] - down(v)) + up(v)
      BY <1>6, <1>7
    <3>2. m_res'[v] = (m_res[v] - (IF v = g THEN FromRes(g) ELSE 0))
                      + (IF v = Back /\ ToRes(g, Back) THEN 1 ELSE 0)
      BY EdgeCredits
    <3>3. sums[v] \in Nat /\ down(v) \in Nat /\ up(v) \in Nat /\ m_res[v] \in Nat
      BY <1>1, <1>6, <1>8
    <3>4. QED
      BY <1>3, <1>6, <1>12, <3>1, <3>2, <3>3
  <2>3. QED
    BY <2>1, <2>2 DEF SumsOK, VC
<1>16. SumsGrow'
  <2>1. ASSUME NEW j \in 0 .. NVC, NEW k \in 0 .. NVC, j <= k PROVE sums'[j] <= sums'[k]
    <3>1. sums[j] - down(j) <= sums[k] - down(k) /\ up(j) <= up(k)
      BY <1>9, <2>1
    <3>2. /\ sums'[j] = (sums[j] - down(j)) + up(j)
          /\ sums'[k] = (sums[k] - down(k)) + up(k)
      BY <1>7
    <3>3. /\ sums[j] \in Nat /\ sums[k] \in Nat /\ down(j) \in Nat /\ down(k) \in Nat
          /\ up(j) \in Nat /\ up(k) \in Nat
      BY <1>1, <1>8
    <3>4. QED
      BY <3>1, <3>2, <3>3
  <2>2. QED
    BY <2>1 DEF SumsGrow
<1>17. sums'[NVC] = (sums[NVC] - FromRes(g)) + (IF ToRes(g, Back) THEN 1 ELSE 0)
  BY <1>1, <1>7, <1>11
<1>18. QED
  BY <1>14, <1>15, <1>16, <1>17

\* The other fields keep their kinds.
LEMMA EdgeKinds ==
  ASSUME Kinds, SumsOK, SumsGrow,
         NEW asking \in SUBSET VC, NEW take \in BOOLEAN, NEW give \in Nat,
         NEW g \in VC \cup {None}, EdgeBy(asking, take, give, g)
  PROVE  Kinds'
<1>1. m_pool' \in Nat /\ m_res' \in [VC -> Nat]
  BY EdgeCredits
<1>2. sums' \in [0 .. NVC -> Nat]
  BY EdgeSums
<1>3. link' \in Seq(VC \X Data) /\ crq' \in Seq(VC) /\ owed' \in Seq(VC)
  BY EdgeSequences
<1>4. Offer(asking) \in [VC -> Data \cup {None}]
  BY DEF Offer, Kinds
<1>5. m_hold' \in [VC -> Data \cup {None}] /\ m_last' \in VC
  BY <1>4, CreditAssumption DEF EdgeBy, TxStep, Kinds, VC
<1>6. nin' \in [VC -> Data]
  BY CreditAssumption DEF EdgeBy, Kinds, After
<1>7. n_violations' \in BOOLEAN
  BY DEF EdgeBy, Kinds
<1>8. QED
  BY <1>1, <1>2, <1>3, <1>5, <1>6, <1>7 DEF Kinds

\* What a value takes with it is what the link and the receiver hold for it.
LEMMA EdgeConserves ==
  ASSUME Kinds, SumsOK, SumsGrow, Conservation,
         NEW asking \in SUBSET VC, NEW take \in BOOLEAN, NEW give \in Nat,
         NEW g \in VC \cup {None}, EdgeBy(asking, take, give, g)
  PROVE  Conservation'
<1> DEFINE toPool == IF ToPool(g, Back) THEN 1 ELSE 0
           toRes  == IF ToRes(g, Back) THEN 1 ELSE 0
           back   == IF Back = None THEN 0 ELSE 1
           given  == IF give = 0 THEN 0 ELSE 1
           sent   == IF g = None THEN 0 ELSE 1
           took   == IF take THEN 1 ELSE 0
           cost   == IF take THEN CHECK ELSE 0
           spent  == IF g = None THEN 0 ELSE CHECK
           n      == Len(link)
<1>1. /\ m_pool' = (m_pool - FromPool(g)) + toPool
      /\ m_pool \in Nat /\ sums[NVC] \in Nat /\ CHECK \in Nat
      /\ m_pool' \in Nat /\ sums'[NVC] \in Nat
  <2>1. NVC \in 0 .. NVC /\ CHECK \in Nat
    BY CreditAssumption
  <2>2. m_pool \in Nat /\ sums[NVC] \in Nat
    BY <2>1 DEF Kinds
  <2>3. m_pool' = (m_pool - FromPool(g)) + toPool /\ m_pool' \in Nat
    BY EdgeCredits
  <2>4. sums'[NVC] \in Nat
    BY <2>1, EdgeSums
  <2>5. QED
    BY <2>1, <2>2, <2>3, <2>4
<1>2. sums'[NVC] = (sums[NVC] - FromRes(g)) + toRes
  BY EdgeSums
<1>3. /\ Len(link') = (n - took) + sent
      /\ Len(owed') = (Len(owed) + cost) - given
      /\ Len(crq') = (Len(crq) - back) + given
      /\ take => n > 0
      /\ Back \in VC \cup {None}
  BY EdgeSequences
<1>4. n \in Nat /\ Len(owed) \in Nat /\ Len(crq) \in Nat
  BY LenProperties DEF Kinds
<1>5. toPool + toRes = back
  BY <1>3, OnePlace
<1>6. FromPool(g) \in Nat /\ FromRes(g) \in Nat /\ FromPool(g) + FromRes(g) = spent
  BY SendTakes DEF EdgeBy, TxStep
<1>7. CHECK * Len(link') = (CHECK * n - cost) + spent
  <2>1. ASSUME NEW m \in Nat PROVE CHECK * (m + 1) = CHECK * m + CHECK /\ CHECK * m \in Nat
    BY <1>1, Times
  <2>2. CASE take
    <3>1. PICK m \in Nat : n = m + 1
      <4>1. n - 1 \in Nat /\ n = (n - 1) + 1
        BY <1>3, <1>4, <2>2
      <4>2. QED
        BY <4>1
    <3>2. CHECK * n = CHECK * m + CHECK /\ CHECK * m \in Nat
      BY <2>1, <3>1
    <3>3. CASE g = None
      <4>1. Len(link') = m
        BY <1>3, <2>2, <3>1, <3>3
      <4>2. QED
        BY <1>1, <2>2, <3>2, <3>3, <4>1
    <3>4. CASE g # None
      <4>1. Len(link') = m + 1
        BY <1>3, <2>2, <3>1, <3>4
      <4>2. QED
        BY <1>1, <2>1, <2>2, <3>2, <3>4, <4>1
    <3>5. QED
      BY <3>3, <3>4
  <2>3. CASE ~take
    <3>1. CHECK * n \in Nat
      BY <1>4, <2>1
    <3>2. CASE g = None
      <4>1. Len(link') = n
        BY <1>3, <1>4, <2>3, <3>2
      <4>2. QED
        BY <2>3, <3>1, <3>2, <4>1
    <3>3. CASE g # None
      <4>1. Len(link') = n + 1
        BY <1>3, <1>4, <2>3, <3>3
      <4>2. QED
        BY <1>1, <1>4, <2>1, <2>3, <3>1, <3>3, <4>1
    <3>4. QED
      BY <3>2, <3>3
  <2>4. QED
    BY <2>2, <2>3
<1>8. m_pool + sums[NVC] + CHECK * n + Len(owed) + Len(crq) = CREDITS
  BY DEF Conservation
<1>9. /\ CHECK * n \in Nat /\ toPool \in Nat /\ toRes \in Nat /\ back \in Nat
      /\ given \in Nat /\ cost \in Nat /\ spent \in Nat
  BY <1>1, <1>4, Times
<1> HIDE DEF toPool, toRes, back, given, sent, took, cost, spent, n
<1>10. m_pool' + sums'[NVC] + CHECK * Len(link') + Len(owed') + Len(crq') = CREDITS
  <2>1. m_pool' + sums'[NVC] = (m_pool + sums[NVC] - spent) + back
    BY <1>1, <1>2, <1>5, <1>6, <1>9
  <2>2. Len(owed') + Len(crq') = (Len(owed) + Len(crq) + cost) - back
    BY <1>3, <1>4, <1>9
  <2>3. Len(owed') \in Nat /\ Len(crq') \in Nat
    BY EdgeSequences, LenProperties
  <2> DEFINE before == CHECK * n
             after  == CHECK * Len(link')
  <2>4. /\ before \in Nat /\ after = (before - cost) + spent
        /\ m_pool + sums[NVC] + before + Len(owed) + Len(crq) = CREDITS
    BY <1>7, <1>8, <1>9
  <2> HIDE DEF before, after
  <2>5. back \in Nat /\ cost \in Nat /\ spent \in Nat
    BY <1>9
  <2>6. m_pool' + sums'[NVC] + after + Len(owed') + Len(crq') = CREDITS
    <3> DEFINE pool == m_pool
               res == sums[NVC]
               o == Len(owed)
               c == Len(crq)
               pool1 == m_pool'
               res1 == sums'[NVC]
               o1 == Len(owed')
               c1 == Len(crq')
    <3>1. /\ pool \in Nat /\ res \in Nat /\ o \in Nat /\ c \in Nat
          /\ pool1 \in Nat /\ res1 \in Nat /\ o1 \in Nat /\ c1 \in Nat
      BY <1>1, <1>4, <2>3
    <3>2. /\ pool1 + res1 = (pool + res - spent) + back
          /\ o1 + c1 = (o + c + cost) - back
          /\ after = (before - cost) + spent
          /\ pool + res + before + o + c = CREDITS
      BY <2>1, <2>2, <2>4
    <3>3. before \in Nat
      BY <2>4
    <3> HIDE DEF pool, res, o, c, pool1, res1, o1, c1
    <3>4. pool1 + res1 + after + o1 + c1 = CREDITS
      BY <2>5, <3>1, <3>2, <3>3
    <3>5. QED
      BY <3>4 DEF pool1, res1, o1, c1
  <2>7. QED
    BY <2>6 DEF after
<1>11. QED
  BY <1>10 DEF Conservation

\* A value is sent only when the receiver has room for it.
LEMMA EdgeFits ==
  ASSUME IInv, NEW asking \in SUBSET VC, NEW take \in BOOLEAN, NEW give \in Nat,
         NEW g \in VC \cup {None}, EdgeBy(asking, take, give, g)
  PROVE  NoViolation'
<1> DEFINE n == Len(link)
<1>1. Kinds /\ SumsOK /\ SumsGrow /\ Conservation /\ NoViolation
  BY DEF IInv
<1>2. n \in Nat /\ Len(owed) \in Nat /\ Len(crq) \in Nat
  BY <1>1, LenProperties DEF Kinds
<1>3. ASSUME g # None PROVE n < DEPTH
  <2>1. g \in VC /\ Covered(g)
    BY <1>1, <1>3, SendTakes DEF EdgeBy, TxStep
  <2>2. m_res[g] <= sums[NVC]
    BY <1>1, <2>1, ResBound
  <2>3. /\ m_pool \in Nat /\ m_res[g] \in Nat /\ sums[NVC] \in Nat /\ CHECK \in Nat
        /\ CREDITS \in Nat
    BY <1>1, <2>1, CreditAssumption DEF Kinds
  <2>4. /\ n * CHECK \in Nat /\ CHECK * n = n * CHECK
        /\ (n + 1) * CHECK = n * CHECK + CHECK
    BY <1>2, <2>3, Times
  <2>5. m_pool + m_res[g] >= CHECK
    BY <2>1 DEF Covered
  <2>6. m_pool + sums[NVC] + n * CHECK + Len(owed) + Len(crq) = CREDITS
    BY <1>1, <2>4 DEF Conservation
  <2> HIDE DEF n
  <2>7. n * CHECK + CHECK <= CREDITS
    BY <1>2, <2>2, <2>3, <2>4, <2>5, <2>6
  <2>8. ASSUME DEPTH <= n PROVE FALSE
    <3>1. DEPTH \in Nat /\ DEPTH + 1 \in Nat /\ n + 1 \in Nat /\ DEPTH + 1 <= n + 1
      BY <1>2, <2>8, LinkAssumption
    <3>2. (DEPTH + 1) * CHECK <= (n + 1) * CHECK
      BY <2>3, <3>1, TimesGrows
    <3>3. (DEPTH + 1) * CHECK \in Nat /\ CREDITS < (DEPTH + 1) * CHECK
      BY <2>3, <3>1, Times, LinkAssumption
    <3>4. QED
      BY <2>3, <2>4, <2>7, <3>2, <3>3
  <2>9. QED
    BY <1>2, <2>8, LinkAssumption
<1>4. ~(g # None /\ Len(link) >= DEPTH)
  BY <1>2, <1>3, LinkAssumption
<1>5. QED
  BY <1>1, <1>4 DEF EdgeBy, NoViolation

------------------------------------------------------------------------------
\* The VCs of a link's values: of one more value at its end, of one less at its head.
LEMMA LanesOf ==
  ASSUME NEW l \in Seq(VC \X Data)
  PROVE  /\ Lanes(l) \in Seq(VC) /\ Len(Lanes(l)) = Len(l)
         /\ \A i \in 1 .. Len(l) : Lanes(l)[i] = l[i][1] /\ l[i] \in VC \X Data
<1>1. Len(l) \in Nat /\ \A i \in 1 .. Len(l) : l[i] \in VC \X Data
  BY LenProperties, ElementOfSeq
<1>2. \A i \in 1 .. Len(l) : l[i][1] \in VC
  BY <1>1
<1>3. QED
  BY <1>1, <1>2 DEF Lanes

LEMMA LanesTail ==
  ASSUME NEW l \in Seq(VC \X Data), l # <<>>
  PROVE  /\ Lanes(l) # <<>> /\ Head(Lanes(l)) = Head(l)[1] /\ Head(l) \in VC \X Data
         /\ Tail(l) \in Seq(VC \X Data) /\ Lanes(Tail(l)) = Tail(Lanes(l))
<1>1. /\ Head(l) \in VC \X Data /\ Head(l) = l[1] /\ Len(l) \in Nat /\ Len(l) > 0
      /\ Tail(l) \in Seq(VC \X Data) /\ Len(Tail(l)) = Len(l) - 1
      /\ \A i \in 1 .. Len(Tail(l)) : Tail(l)[i] = l[i + 1]
  BY HeadTailProperties, EmptySeq, LenProperties
<1>2. /\ Lanes(l) \in Seq(VC) /\ Len(Lanes(l)) = Len(l)
      /\ \A i \in 1 .. Len(l) : Lanes(l)[i] = l[i][1]
  BY LanesOf
<1>3. /\ Lanes(l) # <<>> /\ Head(Lanes(l)) = Lanes(l)[1]
      /\ Tail(Lanes(l)) \in Seq(VC) /\ Len(Tail(Lanes(l))) = Len(l) - 1
      /\ \A i \in 1 .. Len(l) - 1 : Tail(Lanes(l))[i] = Lanes(l)[i + 1]
  BY <1>1, <1>2, HeadTailProperties, EmptySeq
<1>4. /\ Lanes(Tail(l)) \in Seq(VC) /\ Len(Lanes(Tail(l))) = Len(l) - 1
      /\ \A i \in 1 .. Len(l) - 1 : Lanes(Tail(l))[i] = Tail(l)[i][1]
  BY <1>1, LanesOf
<1>5. ASSUME NEW i \in 1 .. Len(l) - 1 PROVE Lanes(Tail(l))[i] = Tail(Lanes(l))[i]
  <2>1. i + 1 \in 1 .. Len(l)
    BY <1>1
  <2>2. QED
    BY <1>1, <1>2, <1>3, <1>4, <2>1
<1>6. Lanes(Tail(l)) = Tail(Lanes(l))
  BY <1>3, <1>4, <1>5, SeqEqual
<1>7. QED
  BY <1>1, <1>2, <1>3, <1>6

LEMMA LanesPut ==
  ASSUME NEW l \in Seq(VC \X Data), NEW x \in VC \X Data
  PROVE  /\ l \o <<x>> \in Seq(VC \X Data) /\ Len(l \o <<x>>) = Len(l) + 1
         /\ (l \o <<x>>)[Len(l) + 1] = x
         /\ \A i \in 1 .. Len(l) : (l \o <<x>>)[i] = l[i]
         /\ Lanes(l \o <<x>>) = Lanes(l) \o <<x[1]>>
<1> DEFINE all == l \o <<x>>
           lanes == Lanes(l) \o <<x[1]>>
<1>1. /\ all \in Seq(VC \X Data) /\ Len(all) = Len(l) + 1 /\ Len(l) \in Nat
      /\ all[Len(l) + 1] = x
      /\ \A i \in 1 .. Len(l) : all[i] = l[i]
  BY AppendProperties, AppendIsConcat, LenProperties
<1>2. /\ Lanes(l) \in Seq(VC) /\ Len(Lanes(l)) = Len(l)
      /\ \A i \in 1 .. Len(l) : Lanes(l)[i] = l[i][1]
  BY LanesOf
<1>3. x[1] \in VC
  OBVIOUS
<1>4. /\ lanes \in Seq(VC) /\ Len(lanes) = Len(l) + 1 /\ lanes[Len(l) + 1] = x[1]
      /\ \A i \in 1 .. Len(l) : lanes[i] = Lanes(l)[i]
  BY <1>2, <1>3, AppendProperties, AppendIsConcat
<1> HIDE DEF all, lanes
<1>5. /\ Lanes(all) \in Seq(VC) /\ Len(Lanes(all)) = Len(l) + 1
      /\ \A i \in 1 .. Len(l) + 1 : Lanes(all)[i] = all[i][1]
  BY <1>1, LanesOf
<1>6. ASSUME NEW i \in 1 .. Len(l) + 1 PROVE Lanes(all)[i] = lanes[i]
  <2>1. i \in 1 .. Len(l) \/ i = Len(l) + 1
    BY <1>1
  <2>2. QED
    BY <1>1, <1>2, <1>4, <1>5, <2>1
<1>7. Lanes(all) = lanes
  BY <1>4, <1>5, <1>6, SeqEqual
<1>8. QED
  BY <1>1, <1>7 DEF all, lanes

\* Out after an edge.
OutNext(v) == CHECK * Count(Lanes(link'), v) + Count(owed', v) + Count(crq', v)

\* What an edge does to the credits of v that are out: a send puts CHECK of them
\* in the link, and one may come back.
LEMMA EdgeOut ==
  ASSUME Kinds, NEW asking \in SUBSET VC, NEW take \in BOOLEAN, NEW give \in Nat,
         NEW g \in VC \cup {None}, NEW v \in VC, EdgeBy(asking, take, give, g)
  PROVE  /\ Out(v) \in Nat /\ OutNext(v) \in Nat
         /\ OutNext(v) = (Out(v) + (IF v = g THEN CHECK ELSE 0)) - (IF v = Back THEN 1 ELSE 0)
<1> DEFINE took == IF take /\ Head(link)[1] = v THEN 1 ELSE 0
           cost == IF take /\ Head(link)[1] = v THEN CHECK ELSE 0
           sent == IF v = g THEN 1 ELSE 0
           gave == IF give # 0 /\ Owed(take)[give] = v THEN 1 ELSE 0
           back == IF v = Back THEN 1 ELSE 0
           spent == IF v = g THEN CHECK ELSE 0
           inlink == Count(Lanes(link), v)
           inlink1 == Count(Lanes(link'), v)
           inowed == Count(owed, v)
           inowed1 == Count(owed', v)
           incrq == Count(crq, v)
           incrq1 == Count(crq', v)
<1>1. /\ link \in Seq(VC \X Data) /\ crq \in Seq(VC) /\ owed \in Seq(VC)
      /\ take => link # <<>>
      /\ give # 0 => give \in 1 .. Len(Owed(take))
      /\ CHECK \in Nat /\ None \notin VC
  BY CreditAssumption DEF Kinds, EdgeBy, VC
<1>2. /\ link' \in Seq(VC \X Data) /\ crq' \in Seq(VC) /\ owed' \in Seq(VC)
  BY EdgeSequences
<1>3. /\ inlink \in Nat /\ inlink1 \in Nat /\ inowed \in Nat /\ inowed1 \in Nat
      /\ incrq \in Nat /\ incrq1 \in Nat
  BY <1>1, <1>2, LanesOf, CountIsNat
<1>4. took <= inlink /\ inlink1 = (inlink - took) + sent
  <2> DEFINE rest == IF take THEN Tail(link) ELSE link
             new  == IF g = None THEN <<>> ELSE <<<<g, Sent(Offer(asking), g)>>>>
  <2>1. rest \in Seq(VC \X Data) /\ Lanes(rest) \in Seq(VC)
    BY <1>1, LanesTail, LanesOf
  <2>2. Count(Lanes(rest), v) \in Nat
    BY <2>1, CountIsNat
  <2>3. inlink = took + Count(Lanes(rest), v)
    <3>1. CASE take
      <4>1. /\ Lanes(link) # <<>> /\ Head(Lanes(link)) = Head(link)[1]
            /\ Lanes(Tail(link)) = Tail(Lanes(link)) /\ Lanes(link) \in Seq(VC)
        BY <1>1, <3>1, LanesTail, LanesOf
      <4>2. inlink = (IF Head(link)[1] = v THEN 1 ELSE 0) + Count(Tail(Lanes(link)), v)
        BY <4>1, CountTail
      <4>3. QED
        BY <3>1, <4>1, <4>2
    <3>2. CASE ~take
      BY <1>3, <3>2
    <3>3. QED
      BY <3>1, <3>2
  <2>4. inlink1 = Count(Lanes(rest), v) + sent
    <3>1. link' = rest \o new
      BY DEF EdgeBy
    <3> HIDE DEF rest
    <3>2. CASE g = None
      <4>1. link' = rest
        BY <2>1, <3>1, <3>2, ConcatEmptySeq
      <4>2. sent = 0
        BY <1>1, <3>2
      <4>3. QED
        BY <2>2, <4>1, <4>2
    <3>3. CASE g # None
      <4>1. g \in VC /\ Sent(Offer(asking), g) \in Data
        BY <3>3, SentIsData DEF EdgeBy, TxStep, Sends
      <4> DEFINE x == <<g, Sent(Offer(asking), g)>>
      <4>2. x \in VC \X Data /\ x[1] = g
        BY <4>1
      <4>3. link' = rest \o <<x>>
        BY <3>1, <3>3
      <4> HIDE DEF x
      <4>4. Lanes(link') = Lanes(rest) \o <<g>>
        BY <2>1, <4>2, <4>3, LanesPut
      <4>5. <<g>> \in Seq(VC) /\ Count(<<g>>, v) = sent
        BY <4>1, CountOne
      <4>6. Count(Lanes(rest) \o <<g>>, v) = Count(Lanes(rest), v) + Count(<<g>>, v)
        BY <2>1, <4>5, CountConcat
      <4>7. QED
        BY <4>4, <4>5, <4>6
    <3>4. QED
      BY <3>2, <3>3
  <2> HIDE DEF rest
  <2>5. QED
    BY <1>3, <2>2, <2>3, <2>4
<1>5. Owed(take) \in Seq(VC) /\ Count(Owed(take), v) = inowed + cost
  <2>1. Owed(take) \in Seq(VC)
    BY <1>1, OwedIs
  <2>2. CASE take
    <3> DEFINE u == Head(link)[1]
               more == [i \in 1 .. CHECK |-> u]
    <3>1. u \in VC
      BY <1>1, <2>2, LanesTail
    <3> HIDE DEF u
    <3>2. more \in Seq(VC) /\ Len(more) = CHECK
      BY <1>1, <3>1, Copies
    <3>3. Count(more, v) = IF u = v THEN CHECK ELSE 0
      BY <3>2, CountCopies
    <3>4. Owed(take) = owed \o more
      BY <2>2 DEF Owed, u
    <3> HIDE DEF more
    <3>5. Count(Owed(take), v) = inowed + (IF u = v THEN CHECK ELSE 0)
      BY <1>1, <3>2, <3>3, <3>4, CountConcat
    <3>6. QED
      BY <2>1, <2>2, <3>5 DEF u
  <2>3. CASE ~take
    BY <1>3, <2>1, <2>3 DEF Owed
  <2>4. QED
    BY <2>2, <2>3
<1>6. inowed1 = (inowed + cost) - gave
  <2>1. owed' = IF give = 0 THEN Owed(take) ELSE Without(Owed(take), give)
    BY DEF EdgeBy
  <2>2. CASE give = 0
    BY <1>1, <1>3, <1>5, <2>1, <2>2
  <2>3. CASE give # 0
    <3>1. Count(Owed(take), v) = inowed1 + gave
      BY <1>1, <1>5, <2>1, <2>3, CountWithout
    <3>2. cost \in Nat /\ gave \in Nat
      BY <1>1
    <3> HIDE DEF cost, gave, inowed, inowed1
    <3>3. QED
      BY <1>3, <1>5, <3>1, <3>2
  <2>4. QED
    BY <2>2, <2>3
<1>7. incrq1 = (incrq - back) + gave
  <2> DEFINE rest == IF crq = <<>> THEN <<>> ELSE Tail(crq)
             new  == IF give = 0 THEN <<>> ELSE <<Owed(take)[give]>>
  <2>1. rest \in Seq(VC)
    BY <1>1, HeadTailProperties, EmptySeq
  <2>2. Count(rest, v) \in Nat
    BY <2>1, CountIsNat
  <2>3. incrq = back + Count(rest, v)
    <3>1. CASE crq = <<>>
      BY <1>1, <3>1, CountEmpty DEF Back
    <3>2. CASE crq # <<>>
      <4>1. incrq = (IF Head(crq) = v THEN 1 ELSE 0) + Count(Tail(crq), v)
        BY <1>1, <3>2, CountTail
      <4>2. QED
        BY <3>2, <4>1 DEF Back
    <3>3. QED
      BY <3>1, <3>2
  <2>4. new \in Seq(VC) /\ Count(new, v) = gave
    <3>1. CASE give = 0
      BY <3>1, CountEmpty, EmptySeq
    <3>2. CASE give # 0
      <4>1. Owed(take)[give] \in VC
        BY <1>1, <1>5, <3>2, DropOne
      <4>2. QED
        BY <3>2, <4>1, CountOne
    <3>3. QED
      BY <3>1, <3>2
  <2>5. crq' = rest \o new
    BY DEF EdgeBy
  <2> HIDE DEF rest, new
  <2>6. incrq1 = Count(rest, v) + Count(new, v)
    BY <2>1, <2>4, <2>5, CountConcat
  <2> HIDE DEF back, gave
  <2>7. back \in Nat /\ gave \in Nat
    BY DEF back, gave
  <2>8. QED
    BY <1>3, <2>2, <2>3, <2>4, <2>6, <2>7
<1>8. CHECK * inlink1 = (CHECK * inlink - cost) + spent
  <2>1. ASSUME NEW m \in Nat PROVE CHECK * (m + 1) = CHECK * m + CHECK /\ CHECK * m \in Nat
    BY <1>1, Times
  <2>2. /\ (took = 1 /\ cost = CHECK) \/ (took = 0 /\ cost = 0)
        /\ (sent = 1 /\ spent = CHECK) \/ (sent = 0 /\ spent = 0)
    OBVIOUS
  <2> HIDE DEF took, cost, sent, spent, inlink, inlink1
  <2>3. PICK m \in Nat : inlink = m + took /\ inlink1 = m + sent
    <3>1. inlink - took \in Nat /\ inlink = (inlink - took) + took
          /\ inlink1 = (inlink - took) + sent
      BY <1>3, <1>4, <2>2
    <3>2. QED
      BY <3>1
  <2> DEFINE some == m + 1
  <2>4. CHECK * some = CHECK * m + CHECK /\ CHECK * m \in Nat
    BY <2>1
  <2>5. /\ (inlink = some /\ cost = CHECK) \/ (inlink = m /\ cost = 0)
        /\ (inlink1 = some /\ spent = CHECK) \/ (inlink1 = m /\ spent = 0)
    BY <2>2, <2>3
  <2> HIDE DEF some
  <2> DEFINE base == CHECK * m
  <2>6. /\ CHECK * inlink = base + cost /\ CHECK * inlink1 = base + spent
        /\ base \in Nat /\ cost \in Nat /\ spent \in Nat
    BY <1>1, <2>4, <2>5
  <2> HIDE DEF base
  <2>7. \A a, b, c \in Nat : a + c = ((a + b) - b) + c
    OBVIOUS
  <2>8. QED
    BY <2>6, <2>7
<1>9. /\ Out(v) = CHECK * inlink + inowed + incrq
      /\ OutNext(v) = CHECK * inlink1 + inowed1 + incrq1
  BY DEF Out, OutNext
<1>10. CHECK * inlink \in Nat /\ CHECK * inlink1 \in Nat
  BY <1>1, <1>3, Times
<1>11. cost \in Nat /\ gave \in Nat /\ back \in Nat /\ spent \in Nat
  BY <1>1
<1>12. Out(v) \in Nat /\ OutNext(v) \in Nat
  BY <1>3, <1>9, <1>10
<1> DEFINE a == CHECK * inlink
           b == CHECK * inlink1
<1>13. a \in Nat /\ b = (a - cost) + spent
  BY <1>8, <1>10
<1> HIDE DEF a, b, cost, gave, back, spent, inlink, inlink1, inowed, inowed1, incrq, incrq1
<1>14. b + inowed1 + incrq1 = (a + inowed + incrq + spent) - back
  BY <1>3, <1>6, <1>7, <1>11, <1>13
<1>15. QED
  BY <1>9, <1>12, <1>14 DEF a, b, spent, back

\* A credit leaves a reserve for a value of its own VC, and comes back to the
\* reserve while that is below RESERVE: only then to the pool.
LEMMA EdgeReserve ==
  ASSUME Kinds, ReserveKept,
         NEW asking \in SUBSET VC, NEW take \in BOOLEAN, NEW give \in Nat,
         NEW g \in VC \cup {None}, EdgeBy(asking, take, give, g)
  PROVE  ReserveKept'
<1> SUFFICES ASSUME NEW v \in VC PROVE m_res'[v] + OutNext(v) >= InitRes(v)
  BY DEF ReserveKept, InitRes, Out, OutNext
<1> DEFINE charged == IF v = g THEN FromRes(g) ELSE 0
           spent   == IF v = g THEN CHECK ELSE 0
           home    == IF v = Back /\ ToRes(g, Back) THEN 1 ELSE 0
           back    == IF v = Back THEN 1 ELSE 0
<1>1. /\ Out(v) \in Nat /\ OutNext(v) \in Nat
      /\ OutNext(v) = (Out(v) + (IF v = g THEN CHECK ELSE 0)) - (IF v = Back THEN 1 ELSE 0)
  BY EdgeOut
<1>2. /\ m_res' \in [VC -> Nat]
      /\ m_res'[v] = (m_res[v] - (IF v = g THEN FromRes(g) ELSE 0))
                     + (IF v = Back /\ ToRes(g, Back) THEN 1 ELSE 0)
  BY EdgeCredits
<1>3. /\ m_res'[v] \in Nat /\ m_res'[v] = (m_res[v] - charged) + home
      /\ OutNext(v) = (Out(v) + spent) - back
  BY <1>1, <1>2
<1>4. m_res[v] \in Nat /\ m_res[v] + Out(v) >= InitRes(v)
  BY DEF Kinds, ReserveKept
<1>5. InitRes(v) \in Nat /\ InitRes(v) <= RESERVE /\ RESERVE \in Nat
  <2>1. v * RESERVE \in Nat /\ RESERVE \in Nat /\ CREDITS \in Nat
    BY CreditAssumption, Times DEF VC
  <2>2. QED
    BY <2>1 DEF InitRes, min_c
<1>6. charged \in Nat /\ charged <= spent /\ spent \in Nat
  <2>1. ASSUME v = g PROVE FromRes(g) \in Nat /\ FromRes(g) <= CHECK
    <3>1. g # None /\ Sends(Offer(asking), g)
      BY <2>1, CreditAssumption DEF VC, EdgeBy, TxStep
    <3>2. FromPool(g) \in Nat /\ FromRes(g) \in Nat /\ FromPool(g) + FromRes(g) = CHECK
      BY <3>1, SendTakes
    <3>3. QED
      BY <3>2
  <2>2. CHECK \in Nat
    BY CreditAssumption
  <2>3. QED
    BY <2>1, <2>2
<1>7. CASE v = Back /\ ~ToRes(g, Back)
  <2>1. ResAfterSend(g)[v] = m_res[v] - charged
    BY <1>4 DEF ResAfterSend
  <2>2. ~(ResAfterSend(g)[v] < RESERVE)
    BY <1>7 DEF ToRes
  <2>3. home = 0
    BY <1>7
  <2> HIDE DEF charged, home
  <2>4. m_res'[v] >= RESERVE
    BY <1>3, <1>4, <1>5, <1>6, <2>1, <2>2, <2>3
  <2>5. QED
    BY <1>1, <1>3, <1>5, <2>4
<1>8. CASE ~(v = Back /\ ~ToRes(g, Back))
  <2>1. home = back /\ back \in Nat
    BY <1>8
  <2> HIDE DEF charged, spent, home, back
  <2>2. m_res'[v] + OutNext(v) >= m_res[v] + Out(v)
    BY <1>1, <1>3, <1>4, <1>6, <2>1
  <2>3. QED
    BY <1>1, <1>3, <1>4, <1>5, <2>2
<1>9. QED
  BY <1>7, <1>8

------------------------------------------------------------------------------
\* The places of v's values in l.
LEMMA PlacesOf ==
  ASSUME NEW l \in Seq(VC \X Data), NEW v
  PROVE  LET mine == At(Lanes(l), v)
         IN  /\ \A i : i \in mine <=> i \in 1 .. Len(l) /\ l[i][1] = v
             /\ mine \in SUBSET Nat
<1>1. /\ Lanes(l) \in Seq(VC) /\ Len(Lanes(l)) = Len(l)
      /\ \A i \in 1 .. Len(l) : Lanes(l)[i] = l[i][1]
  BY LanesOf
<1>2. QED
  BY <1>1 DEF At

\* The values of v after the head of the link was taken.
LEMMA RunsTail ==
  ASSUME NEW l \in Seq(VC \X Data), l # <<>>, NEW v, NEW first, NEW next,
         Runs(l, v, first, next)
  PROVE  Runs(Tail(l), v, IF Head(l)[1] = v THEN After(first) ELSE first, next)
<1> DEFINE mine == At(Lanes(l), v)
           rest == At(Lanes(Tail(l)), v)
           then == IF Head(l)[1] = v THEN After(first) ELSE first
<1>1. /\ Tail(l) \in Seq(VC \X Data) /\ Head(l) = l[1] /\ Len(l) \in Nat /\ Len(l) > 0
      /\ Len(Tail(l)) = Len(l) - 1
      /\ \A i \in 1 .. Len(Tail(l)) : Tail(l)[i] = l[i + 1]
  BY HeadTailProperties, EmptySeq, LenProperties
<1>2. /\ \A i : i \in mine <=> i \in 1 .. Len(l) /\ l[i][1] = v
      /\ \A i : i \in rest <=> i \in 1 .. Len(Tail(l)) /\ Tail(l)[i][1] = v
      /\ mine \in SUBSET Nat /\ rest \in SUBSET Nat
  BY <1>1, PlacesOf
<1>3. /\ mine = {} => next = first
      /\ \A i \in mine :
           /\ (\A j \in mine : i <= j) => l[i][2] = first
           /\ (\A j \in mine : j <= i) => next = After(l[i][2])
           /\ \A j \in mine : i < j /\ (\A k \in mine : k <= i \/ j <= k)
                                => l[j][2] = After(l[i][2])
  BY DEF Runs
<1> HIDE DEF mine, rest
\* A place of the tail is the one after it in l, and 1 is the head's.
<1>4. /\ \A i \in rest : i + 1 \in mine /\ Tail(l)[i] = l[i + 1] /\ i \in Nat /\ i >= 1
      /\ \A i \in mine : i = 1 \/ i - 1 \in rest
      /\ 1 \in mine <=> Head(l)[1] = v
  <2>1. ASSUME NEW i \in rest PROVE i + 1 \in mine /\ Tail(l)[i] = l[i + 1] /\ i \in Nat /\ i >= 1
    <3>1. i \in 1 .. Len(Tail(l)) /\ Tail(l)[i][1] = v
      BY <1>2
    <3>2. i + 1 \in 1 .. Len(l) /\ Tail(l)[i] = l[i + 1] /\ i \in Nat /\ i >= 1
      BY <1>1, <3>1
    <3>3. QED
      BY <1>2, <3>1, <3>2
  <2>2. ASSUME NEW i \in mine, i # 1 PROVE i - 1 \in rest
    <3>1. i \in 1 .. Len(l) /\ l[i][1] = v
      BY <1>2
    <3>2. i - 1 \in 1 .. Len(Tail(l)) /\ (i - 1) + 1 = i
      BY <1>1, <2>2, <3>1
    <3>3. QED
      BY <1>1, <1>2, <3>1, <3>2
  <2>3. 1 \in mine <=> Head(l)[1] = v
    BY <1>1, <1>2
  <2>4. QED
    BY <2>1, <2>2, <2>3
<1>5. ASSUME rest = {} PROVE next = then
  <2>1. \A i \in mine : i = 1
    BY <1>4, <1>5
  <2>2. CASE Head(l)[1] = v
    <3>1. 1 \in mine /\ \A i \in mine : i <= 1 /\ 1 <= i
      BY <1>4, <2>1, <2>2
    <3>2. l[1][2] = first /\ next = After(l[1][2])
      BY <1>3, <3>1
    <3>3. QED
      BY <2>2, <3>2
  <2>3. CASE Head(l)[1] # v
    <3>1. mine = {}
      BY <1>4, <2>1, <2>3
    <3>2. QED
      BY <1>3, <2>3, <3>1
  <2>4. QED
    BY <2>2, <2>3
<1>6. ASSUME NEW i \in rest PROVE
        /\ (\A j \in rest : i <= j) => Tail(l)[i][2] = then
        /\ (\A j \in rest : j <= i) => next = After(Tail(l)[i][2])
        /\ \A j \in rest : i < j /\ (\A k \in rest : k <= i \/ j <= k)
                             => Tail(l)[j][2] = After(Tail(l)[i][2])
  <2>1. i + 1 \in mine /\ Tail(l)[i] = l[i + 1] /\ i \in Nat /\ i >= 1
    BY <1>4
  <2>2. ASSUME \A j \in rest : i <= j PROVE Tail(l)[i][2] = then
    <3>1. \A k \in mine : k = 1 \/ i + 1 <= k
      BY <1>2, <1>4, <2>1, <2>2
    <3>2. CASE Head(l)[1] = v
      <4>1. 1 \in mine /\ (\A k \in mine : 1 <= k) /\ (\A k \in mine : k <= 1 \/ i + 1 <= k)
            /\ 1 < i + 1
        <5>1. \A k \in mine : k = 1 \/ (i + 1 <= k /\ k \in Nat)
          BY <1>2, <3>1
        <5>2. QED
          BY <1>4, <2>1, <3>2, <5>1
      <4>2. l[1][2] = first /\ l[i + 1][2] = After(l[1][2])
        BY <1>3, <2>1, <4>1
      <4>3. QED
        BY <2>1, <3>2, <4>2
    <3>3. CASE Head(l)[1] # v
      <4>1. \A k \in mine : i + 1 <= k
        BY <1>4, <3>1, <3>3
      <4>2. l[i + 1][2] = first
        BY <1>3, <2>1, <4>1
      <4>3. QED
        BY <2>1, <3>3, <4>2
    <3>4. QED
      BY <3>2, <3>3
  <2>3. ASSUME \A j \in rest : j <= i PROVE next = After(Tail(l)[i][2])
    <3>1. \A k \in mine : k <= i + 1
      BY <1>2, <1>4, <2>1, <2>3
    <3>2. QED
      BY <1>3, <2>1, <3>1
  <2>4. ASSUME NEW j \in rest, i < j, \A k \in rest : k <= i \/ j <= k
        PROVE  Tail(l)[j][2] = After(Tail(l)[i][2])
    <3>1. j + 1 \in mine /\ Tail(l)[j] = l[j + 1] /\ j \in Nat
      BY <1>4
    <3>2. i + 1 < j + 1 /\ \A k \in mine : k <= i + 1 \/ j + 1 <= k
      BY <1>2, <1>4, <2>1, <2>4, <3>1
    <3>3. QED
      BY <1>3, <2>1, <3>1, <3>2
  <2>5. QED
    BY <2>2, <2>3, <2>4
<1>7. QED
  BY <1>5, <1>6 DEF Runs, rest

\* The values of v after one more value was put.
LEMMA RunsPut ==
  ASSUME NEW l \in Seq(VC \X Data), NEW x \in VC \X Data, NEW v, NEW first, NEW next,
         Runs(l, v, first, next), x[1] = v => x[2] = next
  PROVE  Runs(l \o <<x>>, v, first, IF x[1] = v THEN After(next) ELSE next)
<1> DEFINE all  == l \o <<x>>
           mine == At(Lanes(l), v)
           more == At(Lanes(all), v)
           end  == Len(l) + 1
           then == IF x[1] = v THEN After(next) ELSE next
<1>1. /\ all \in Seq(VC \X Data) /\ Len(all) = end /\ all[end] = x /\ Len(l) \in Nat
      /\ \A i \in 1 .. Len(l) : all[i] = l[i]
  BY LanesPut, LenProperties
<1> HIDE DEF all
<1>2. /\ \A i : i \in mine <=> i \in 1 .. Len(l) /\ l[i][1] = v
      /\ \A i : i \in more <=> i \in 1 .. end /\ all[i][1] = v
      /\ mine \in SUBSET Nat /\ more \in SUBSET Nat
  <2>1. /\ \A i : i \in mine <=> i \in 1 .. Len(l) /\ l[i][1] = v
        /\ mine \in SUBSET Nat
    BY PlacesOf
  <2>2. /\ \A i : i \in more <=> i \in 1 .. Len(all) /\ all[i][1] = v
        /\ more \in SUBSET Nat
    BY <1>1, PlacesOf
  <2>3. QED
    BY <1>1, <2>1, <2>2
<1>3. /\ mine = {} => next = first
      /\ \A i \in mine :
           /\ (\A j \in mine : i <= j) => l[i][2] = first
           /\ (\A j \in mine : j <= i) => next = After(l[i][2])
           /\ \A j \in mine : i < j /\ (\A k \in mine : k <= i \/ j <= k)
                                => l[j][2] = After(l[i][2])
  BY DEF Runs
<1> HIDE DEF mine, more
<1>4. /\ \A i \in mine : i \in more /\ all[i] = l[i] /\ i < end
      /\ \A i \in more : i \in mine \/ (i = end /\ x[1] = v)
      /\ x[1] = v => end \in more
  <2>1. ASSUME NEW i \in mine PROVE i \in more /\ all[i] = l[i] /\ i < end
    <3>1. i \in 1 .. Len(l) /\ l[i][1] = v
      BY <1>2
    <3>2. i \in 1 .. end /\ i < end /\ all[i] = l[i]
      BY <1>1, <3>1
    <3>3. QED
      BY <1>2, <3>1, <3>2
  <2>2. ASSUME NEW i \in more PROVE i \in mine \/ (i = end /\ x[1] = v)
    <3>1. i \in 1 .. end /\ all[i][1] = v
      BY <1>2
    <3>2. i = end \/ i \in 1 .. Len(l)
      BY <1>1, <3>1
    <3>3. QED
      BY <1>1, <1>2, <3>1, <3>2
  <2>3. x[1] = v => end \in more
    <3>1. end \in 1 .. end
      BY <1>1
    <3>2. QED
      BY <1>1, <1>2, <3>1
  <2>4. QED
    BY <2>1, <2>2, <2>3
<1>5. ASSUME more = {} PROVE then = first
  BY <1>3, <1>4, <1>5
<1>6. ASSUME NEW i \in more PROVE
        /\ (\A j \in more : i <= j) => all[i][2] = first
        /\ (\A j \in more : j <= i) => then = After(all[i][2])
        /\ \A j \in more : i < j /\ (\A k \in more : k <= i \/ j <= k)
                             => all[j][2] = After(all[i][2])
  <2>1. CASE i \in mine
    <3>1. all[i] = l[i] /\ i < end /\ i \in Nat /\ end \in Nat
      BY <1>1, <1>2, <1>4, <2>1
    <3>2. ASSUME \A j \in more : i <= j PROVE all[i][2] = first
      BY <1>3, <1>4, <2>1, <3>1, <3>2
    <3>3. ASSUME \A j \in more : j <= i PROVE then = After(all[i][2])
      <4>1. x[1] # v
        BY <1>4, <3>1, <3>3
      <4>2. next = After(l[i][2])
        BY <1>3, <1>4, <2>1, <3>3
      <4>3. QED
        BY <3>1, <4>1, <4>2
    <3>4. ASSUME NEW j \in more, i < j, \A k \in more : k <= i \/ j <= k
          PROVE  all[j][2] = After(all[i][2])
      <4>1. CASE j \in mine
        BY <1>3, <1>4, <2>1, <3>1, <3>4, <4>1
      <4>2. CASE j = end /\ x[1] = v
        <5>1. \A k \in mine : k <= i
          <6>1. ASSUME NEW k \in mine PROVE k <= i
            <7>1. k \in more /\ k < end /\ k \in Nat
              BY <1>2, <1>4
            <7>2. QED
              BY <3>1, <3>4, <4>2, <7>1
          <6>2. QED
            BY <6>1
        <5>2. next = After(l[i][2]) /\ all[j] = x /\ x[2] = next
          BY <1>1, <1>3, <2>1, <4>2, <5>1
        <5>3. QED
          BY <3>1, <5>2
      <4>3. QED
        BY <1>4, <4>1, <4>2
    <3>5. QED
      BY <3>2, <3>3, <3>4
  <2>2. CASE i = end /\ x[1] = v
    <3>1. all[i] = x /\ x[2] = next /\ then = After(next)
      BY <1>1, <2>2
    <3>2. ASSUME \A j \in more : i <= j PROVE all[i][2] = first
      <4>1. mine = {}
        <5>1. ASSUME NEW j \in mine PROVE FALSE
          <6>1. j \in more /\ j < end /\ j \in Nat /\ end \in Nat
            BY <1>1, <1>2, <1>4
          <6>2. QED
            BY <2>2, <3>2, <6>1
        <5>2. QED
          BY <5>1
      <4>2. QED
        BY <1>3, <3>1, <4>1
    <3>3. \A j \in more : ~(i < j)
      BY <1>1, <1>2, <2>2
    <3>4. QED
      BY <3>1, <3>2, <3>3
  <2>3. QED
    BY <1>4, <2>1, <2>2
<1>7. QED
  BY <1>5, <1>6 DEF Runs, more, all

\* The value v's next one to go is: what its hold has, or what it is offered.
Waits(v) == IF m_hold[v] = None THEN nin[v] ELSE m_hold[v]

\* An edge takes a value off the front of a VC's run, puts its next one at the
\* end, or leaves it as it is.
LEMMA EdgeOrders ==
  ASSUME Kinds, Ordered,
         NEW asking \in SUBSET VC, NEW take \in BOOLEAN, NEW give \in Nat,
         NEW g \in VC \cup {None}, EdgeBy(asking, take, give, g)
  PROVE  Ordered'
<1> DEFINE offer == Offer(asking)
           rest  == IF take THEN Tail(link) ELSE link
           new   == IF g = None THEN <<>> ELSE <<<<g, Sent(offer, g)>>>>
<1>1. /\ link \in Seq(VC \X Data) /\ (take => link # <<>>)
      /\ m_hold \in [VC -> Data \cup {None}] /\ nin \in [VC -> Data]
      /\ nout \in [VC -> Data]
      /\ None \notin Data /\ None \notin VC
  BY CreditAssumption DEF Kinds, Ordered, EdgeBy, VC
<1>2. /\ link' = rest \o new
      /\ nout' = [v \in VC |-> IF take /\ Head(link)[1] = v THEN After(nout[v]) ELSE nout[v]]
      /\ nin' = [v \in VC |-> IF v \in Takes(offer, g) THEN After(nin[v]) ELSE nin[v]]
      /\ Sends(offer, g)
      /\ IF NVC = 1 THEN m_hold' = m_hold
         ELSE m_hold' = [v \in VC |-> IF fills(v, g) THEN offer[v] ELSE m_hold[v]]
  BY DEF EdgeBy, TxStep
<1>3. \A v \in VC : offer[v] = IF v \in asking THEN nin[v] ELSE None
  BY DEF Offer
<1>4. g # None => g \in VC /\ g \in Sendable(offer) /\ <<g, Sent(offer, g)>> \in VC \X Data
  BY <1>2, SentIsData DEF Sends
<1>5. rest \in Seq(VC \X Data)
  BY <1>1, HeadTailProperties
<1> HIDE DEF offer, rest
<1>6. ASSUME NEW v \in VC
      PROVE  /\ Runs(rest, v, nout'[v], Waits(v))
             /\ v = g => Sent(offer, g) = Waits(v)
             /\ m_hold[v] # None => nin[v] = After(m_hold[v])
  <2>1. Runs(link, v, nout[v], Waits(v)) /\ (m_hold[v] # None => nin[v] = After(m_hold[v]))
    BY DEF Ordered, InOrder, Waits
  <2>2. Runs(rest, v, nout'[v], Waits(v))
    <3>1. CASE take
      BY <1>1, <1>2, <2>1, <3>1, RunsTail DEF rest
    <3>2. CASE ~take
      BY <1>2, <2>1, <3>2 DEF rest
    <3>3. QED
      BY <3>1, <3>2
  <2>3. ASSUME v = g PROVE Sent(offer, g) = Waits(v)
    <3>1. g \in VC /\ g \in Sendable(offer)
      BY <1>1, <1>4, <2>3
    <3>2. CASE NVC = 1
      <4>1. m_hold[v] = None /\ offer[v] # None
        BY <2>3, <3>1, <3>2 DEF Ordered, Sendable
      <4>2. QED
        BY <1>3, <2>3, <3>2, <4>1 DEF Sent, Waits
    <3>3. CASE NVC # 1
      BY <2>3, <3>1, <3>3 DEF Sendable, Sent, Waits
    <3>4. QED
      BY <3>2, <3>3
  <2>4. QED
    BY <2>1, <2>2, <2>3
<1>7. ASSUME NEW v \in VC
      PROVE  Runs(link', v, nout'[v], IF v = g THEN After(Waits(v)) ELSE Waits(v))
  <2>1. CASE g = None
    <3>1. link' = rest
      BY <1>2, <1>5, <2>1, ConcatEmptySeq
    <3>2. v # g
      BY <1>1, <2>1
    <3>3. QED
      BY <1>6, <3>1, <3>2
  <2>2. CASE g # None
    <3> DEFINE x == <<g, Sent(offer, g)>>
    <3>1. x \in VC \X Data /\ x[1] = g /\ x[2] = Sent(offer, g) /\ link' = rest \o <<x>>
      BY <1>2, <1>4, <2>2
    <3> HIDE DEF x
    <3>2. Runs(rest, v, nout'[v], Waits(v)) /\ (x[1] = v => x[2] = Waits(v))
      BY <1>6, <3>1
    <3>3. Runs(rest \o <<x>>, v, nout'[v], IF x[1] = v THEN After(Waits(v)) ELSE Waits(v))
      BY <1>5, <3>1, <3>2, RunsPut
    <3>4. QED
      BY <3>1, <3>3
  <2>3. QED
    BY <2>1, <2>2
<1>8. ASSUME NEW v \in VC
      PROVE  /\ (IF m_hold'[v] = None THEN nin'[v] ELSE m_hold'[v])
                   = IF v = g THEN After(Waits(v)) ELSE Waits(v)
             /\ m_hold'[v] # None => nin'[v] = After(m_hold'[v])
             /\ NVC = 1 => m_hold'[v] = None
  <2>1. nin'[v] = IF v \in Takes(offer, g) THEN After(nin[v]) ELSE nin[v]
    BY <1>2
  <2>2. nin[v] \in Data /\ nin[v] # None
    BY <1>1
  <2>3. v = g => g # None /\ g \in VC /\ g \in Sendable(offer)
    BY <1>1, <1>4
  <2>4. CASE NVC = 1
    <3>1. m_hold'[v] = None /\ m_hold[v] = None
      BY <1>2, <2>4 DEF Ordered
    <3>2. v \in Takes(offer, g) <=> v = g /\ offer[v] # None
      BY <2>4 DEF Takes
    <3>3. v = g => offer[v] # None
      BY <2>3, <2>4 DEF Sendable
    <3>4. QED
      BY <2>1, <3>1, <3>2, <3>3 DEF Waits
  <2>5. CASE NVC # 1
    <3>1. m_hold'[v] = IF fills(v, g) THEN offer[v] ELSE m_hold[v]
      BY <1>2, <2>5
    <3>2. v \in Takes(offer, g) <=> offer[v] # None /\ fills(v, g)
      BY <2>5 DEF Takes
    <3>3. v = g => m_hold[v] # None
      BY <2>3, <2>5 DEF Sendable
    <3>4. m_hold[v] # None => nin[v] = After(m_hold[v])
      BY <1>6
    <3>5. fills(v, g) <=> m_hold[v] = None \/ v = g
      BY DEF fills
    <3>6. CASE offer[v] = None
      BY <2>1, <2>5, <3>1, <3>2, <3>3, <3>4, <3>5, <3>6 DEF Waits
    <3>7. CASE offer[v] # None
      <4>1. offer[v] = nin[v]
        BY <1>3, <3>7
      <4>2. QED
        BY <2>1, <2>2, <2>5, <3>1, <3>2, <3>3, <3>4, <3>5, <3>7, <4>1 DEF Waits
    <3>8. QED
      BY <3>6, <3>7
  <2>6. QED
    BY <2>4, <2>5
<1>9. InOrder'
  <2>1. \A v \in VC :
          /\ Runs(link', v, nout'[v], IF m_hold'[v] = None THEN nin'[v] ELSE m_hold'[v])
          /\ m_hold'[v] # None => nin'[v] = After(m_hold'[v])
    BY <1>7, <1>8
  <2>2. QED
    BY <2>1 DEF InOrder
<1>10. nout' \in [VC -> Data]
  BY <1>1, <1>2, CreditAssumption DEF After
<1>11. QED
  BY <1>8, <1>9, <1>10 DEF Ordered

------------------------------------------------------------------------------
\* The reserves at reset are what the running sums say, and the pool the rest.
LEMMA InitInv == Init => IInv
<1> SUFFICES ASSUME Init PROVE IInv
  OBVIOUS
<1> USE CreditAssumption DEF VC
<1>1. \A v \in 0 .. NVC : v * RESERVE \in Nat
  BY Times
<1>2. \A v \in VC : v + 1 \in 0 .. NVC /\ (v + 1) * RESERVE = v * RESERVE + RESERVE
  BY Times
<1>3. \A v \in VC : InitRes(v) \in Nat
  BY <1>1, <1>2 DEF InitRes, min_c
<1>4. Kinds
  <2>1. InitPool \in Nat
    BY <1>1 DEF InitPool
  <2>2. \A k \in 0 .. NVC : min_c(CREDITS, k * RESERVE) \in Nat
    BY <1>1 DEF min_c
  <2>3. m_pool \in Nat /\ m_res \in [VC -> Nat] /\ sums \in [0 .. NVC -> Nat]
    BY <1>3, <2>1, <2>2 DEF Init, TxInit
  <2>4. m_hold \in [VC -> Data \cup {None}] /\ m_last \in VC
    BY DEF Init, TxInit
  <2>5. link \in Seq(VC \X Data) /\ crq \in Seq(VC) /\ owed \in Seq(VC)
    BY DEF Init
  <2>6. nin \in [VC -> Data]
    BY DEF Init
  <2>7. n_violations \in BOOLEAN
    BY DEF Init
  <2>8. QED
    BY <2>3, <2>4, <2>5, <2>6, <2>7 DEF Kinds
<1>5. SumsOK
  <2>1. sums[0] = 0
    BY <1>1 DEF Init, min_c
  <2>2. ASSUME NEW v \in VC PROVE sums[v + 1] = sums[v] + m_res[v]
    BY <1>1, <1>2 DEF Init, TxInit, min_c, InitRes
  <2>3. QED
    BY <2>1, <2>2 DEF SumsOK
<1>6. SumsGrow
  <2>1. ASSUME NEW j \in 0 .. NVC, NEW k \in 0 .. NVC, j <= k
        PROVE  sums[j] <= sums[k]
    <3>1. j * RESERVE <= k * RESERVE
      BY <2>1, TimesGrows
    <3>2. /\ sums[j] = min_c(CREDITS, j * RESERVE)
          /\ sums[k] = min_c(CREDITS, k * RESERVE)
      BY <2>1 DEF Init
    <3>3. CREDITS \in Int /\ j * RESERVE \in Int /\ k * RESERVE \in Int
      BY <1>1
    <3>4. QED
      BY <3>1, <3>2, <3>3 DEF min_c
  <2>2. QED
    BY <2>1 DEF SumsGrow
<1>7. Conservation
  <2>1. InitPool + min_c(CREDITS, NVC * RESERVE) = CREDITS
    BY <1>1 DEF InitPool, min_c
  <2>2. CHECK * Len(link) = 0 /\ Len(owed) = 0 /\ Len(crq) = 0
    BY DEF Init
  <2>3. sums[NVC] = min_c(CREDITS, NVC * RESERVE) /\ m_pool = InitPool
    BY DEF Init, TxInit
  <2>4. sums[NVC] \in Nat /\ m_pool \in Nat
    BY <1>4 DEF Kinds
  <2>5. QED
    BY <2>1, <2>2, <2>3, <2>4 DEF Conservation
<1>8. NoViolation
  BY DEF Init, NoViolation
<1>9. ReserveKept
  <2>1. Lanes(<<>>) = <<>>
    BY DEF Lanes
  <2>2. ASSUME NEW v \in VC PROVE Out(v) = 0
    <3>1. Count(Lanes(link), v) = 0 /\ Count(owed, v) = 0 /\ Count(crq, v) = 0
      BY <2>1, CountEmpty DEF Init
    <3>2. QED
      BY <3>1 DEF Out
  <2>3. \A v \in VC : m_res[v] = InitRes(v) /\ InitRes(v) \in Nat
    BY <1>3 DEF Init, TxInit
  <2>4. QED
    BY <2>2, <2>3 DEF ReserveKept
<1>10. Ordered
  <2>1. \A v \in VC : At(Lanes(<<>>), v) = {}
    BY DEF At, Lanes
  <2>2. \A v \in VC : m_hold[v] = None /\ nin[v] = 0 /\ nout[v] = 0 /\ link = <<>>
    BY DEF Init, TxInit
  <2>3. \A v \in VC : Runs(link, v, nout[v], nin[v])
    BY <2>1, <2>2 DEF Runs
  <2>4. nout \in [VC -> Data]
    BY DEF Init
  <2>5. QED
    BY <2>2, <2>3, <2>4 DEF Ordered, InOrder
<1>11. QED
  BY <1>4, <1>5, <1>6, <1>7, <1>8, <1>9, <1>10 DEF IInv

\* IInv is inductive: an edge keeps each of its parts.
LEMMA NextInv == IInv /\ [Next]_vars => IInv'
<1> SUFFICES ASSUME IInv, [Next]_vars PROVE IInv'
  OBVIOUS
<1>1. CASE Next
  <2>1. PICK asking \in SUBSET VC, take \in BOOLEAN, give \in 0 .. Len(owed) + CHECK :
          Edge(asking, take, give)
    BY <1>1 DEF Next
  <2>2. PICK g \in VC \cup {None} : EdgeBy(asking, take, give, g)
    BY <2>1, EdgeUnpacked
  <2>3. give \in Nat
    BY <2>1
  <2>4. Kinds /\ SumsOK /\ SumsGrow /\ Conservation
    BY DEF IInv
  <2>5. Kinds' /\ SumsOK' /\ SumsGrow'
    BY <2>2, <2>3, <2>4, EdgeKinds, EdgeSums
  <2>6. Conservation'
    BY <2>2, <2>3, <2>4, EdgeConserves
  <2>7. NoViolation'
    BY <2>2, <2>3, EdgeFits
  <2>8. ReserveKept'
    BY <2>2, <2>3, <2>4, EdgeReserve DEF IInv
  <2>9. Ordered'
    BY <2>2, <2>3, <2>4, EdgeOrders DEF IInv
  <2>10. QED
    BY <2>5, <2>6, <2>7, <2>8, <2>9 DEF IInv
<1>2. CASE UNCHANGED vars
  <2>1. (Kinds /\ SumsOK /\ SumsGrow /\ Conservation /\ NoViolation)'
    BY <1>2 DEF vars, txvars, IInv, Kinds, SumsOK, SumsGrow, Conservation, NoViolation
  <2>2. ReserveKept' /\ Ordered'
    BY <1>2 DEF vars, txvars, IInv, ReserveKept, Out, Ordered, InOrder
  <2>3. QED
    BY <2>1, <2>2 DEF IInv
<1>3. QED
  BY <1>1, <1>2

LEMMA AlwaysInv == Spec => []IInv
<1>1. QED
  BY InitInv, NextInv, PTL DEF Spec

\* No credit is lost or made, whatever the receiver does: at every edge of
\* fw_credit_tx::step the CREDITS credits are in the pool, in a reserve, spent on
\* a value in the link, owed by the receiver or coming back on `cr`.
THEOREM CreditsAreConserved == Spec => []Conservation
<1>1. IInv => Conservation
  BY DEF IInv
<1>2. QED
  BY <1>1, AlwaysInv, PTL

\* fw_credit_tx never makes its fw_valid_channel report a violation, as long as
\* its credits do not exceed what the receiver can buffer.
THEOREM NeverAViolation == Spec => []NoViolation
<1>1. IInv => NoViolation
  BY DEF IInv
<1>2. QED
  BY <1>1, AlwaysInv, PTL

\* A VC's reserve survives the other VCs' traffic: what a VC misses of its reset
\* reserve is out on its own values (fw_credit_tx::step returns a credit to the
\* reserve of its VC before the pool).
THEOREM ReservesAreKept == Spec => []ReserveKept
<1>1. IInv => ReserveKept
  BY DEF IInv
<1>2. QED
  BY <1>1, AlwaysInv, PTL

\* Each VC's values reach the receiver once each and in order, whatever VCs
\* step() chooses and however the holds fill and empty.
THEOREM ValuesStayInOrder == Spec => []InOrder
<1>1. IInv => InOrder
  BY DEF IInv, Ordered
<1>2. QED
  BY <1>1, AlwaysInv, PTL

\* The fields keep their types; the credit counters stay in 0..CREDITS, so
\* cnt_t, of clog2(CREDITS + 1) bits, never wraps.
THEOREM TypeCorrect == Spec => []TypeOK
<1>1. IInv => TypeOK
  <2> SUFFICES ASSUME IInv PROVE TypeOK
    OBVIOUS
  <2>1. Kinds /\ SumsOK /\ SumsGrow /\ Conservation /\ NoViolation
    BY DEF IInv
  <2>2. /\ m_pool \in Nat /\ sums[NVC] \in Nat /\ CHECK \in Nat /\ CREDITS \in Nat
        /\ Len(link) \in Nat /\ Len(owed) \in Nat /\ Len(crq) \in Nat
    BY <2>1, CreditAssumption, LenProperties DEF Kinds
  <2>3. CHECK * Len(link) \in Nat
    BY <2>2, Times
  <2>4. m_pool + sums[NVC] + CHECK * Len(link) + Len(owed) + Len(crq) = CREDITS
    BY <2>1 DEF Conservation
  <2>5. m_pool \in 0 .. CREDITS /\ sums[NVC] <= CREDITS
    BY <2>2, <2>3, <2>4
  <2>6. ASSUME NEW v \in VC PROVE m_res[v] \in 0 .. CREDITS
    <3>1. m_res[v] \in Nat /\ m_res[v] <= sums[NVC]
      BY <2>1, ResBound DEF Kinds
    <3>2. QED
      BY <2>2, <2>5, <3>1
  <2>7. m_res \in [VC -> 0 .. CREDITS]
    BY <2>1, <2>6 DEF Kinds
  <2>8. n_violations \in BOOLEAN
    BY <2>1 DEF Kinds
  <2>9. QED
    BY <2>1, <2>5, <2>7, <2>8 DEF TypeOK, TxTypeOK, Kinds
<1>2. QED
  BY <1>1, AlwaysInv, PTL
==============================================================================
