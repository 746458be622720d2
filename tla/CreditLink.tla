------------------------------ MODULE CreditLink -----------------------------
(***************************************************************************)
(* fw_credit_tx, the fw_valid_channel `link` it sends on, the receiver     *)
(* behind it and the channel `cr` its credits come back on.  One clock     *)
(* edge per action: every step of the edge acts on what the channels held  *)
(* when the edge began (FwStep shows that it does), so the steps are taken *)
(* together.                                                               *)
(*                                                                         *)
(* The receiver is outside the library.  It takes a value from the link    *)
(* when it likes, and owes the CHECK credits of each value it has taken;   *)
(* it returns them one at a time, in any order, as long as it likes to     *)
(* wait.                                                                   *)
(***************************************************************************)
EXTENDS FwCreditTx, Sequences, FiniteSets

CONSTANTS DEPTH,   (* of the link: the values the receiver can buffer      *)
          CRDEPTH  (* of the credit return channel                         *)

ASSUME LinkAssumption ==
  /\ DEPTH \in Nat \ {0} /\ CRDEPTH \in Nat \ {0}
  /\ CREDITS < (DEPTH + 1) * CHECK     \* the credits do not exceed the buffer

VARIABLES link,          (* fw_valid_channel::m_q: <<vc, value>> entries   *)
          n_violations,  (* a put found the link full (n_violations > 0)   *)
          crq,           (* the credit return channel                      *)
          owed           (* the receiver: credits it will return, as the   *)
                         (* VCs they belong to                             *)

\* For the properties: the running sums of the reserves, the next value each VC
\* is offered and the next its receiver expects.
VARIABLES sums, nin, nout

vars == <<txvars, link, n_violations, crq, owed, sums, nin, nout>>

\* Data is 0 .. Cardinality - 1 in turn: the value after d.
After(d) == IF d + 1 \in Data THEN d + 1 ELSE 0

Init ==
  /\ TxInit
  /\ link = <<>> /\ n_violations = FALSE /\ crq = <<>> /\ owed = <<>>
  /\ sums = [k \in 0 .. NVC |-> min_c(CREDITS, k * RESERVE)]
  /\ nin = [v \in VC |-> 0] /\ nout = [v \in VC |-> 0]

\* What the receiver owes after it took the head of the link, or did not.
Owed(take) ==
  IF take THEN owed \o [i \in 1 .. CHECK |-> Head(link)[1]] ELSE owed

Without(seq, i) == SubSeq(seq, 1, i - 1) \o SubSeq(seq, i + 1, Len(seq))

\* One edge.  asking: the VCs whose producers offer a value.  take: the
\* receiver takes from the link.  give: the position of the credit it returns,
\* or 0 for none.
Edge(asking, take, give) ==
  LET offer == [v \in VC |-> IF v \in asking THEN nin[v] ELSE None]
      r     == IF crq = <<>> THEN None ELSE Head(crq)
  IN
  /\ take => link # <<>>
  /\ give = 0 \/ (give \in 1 .. Len(Owed(take)) /\ Len(crq) < CRDEPTH)
  /\ \E g \in VC \cup {None} :
       /\ TxStep(offer, g, r)
       /\ link' = (IF take THEN Tail(link) ELSE link)
                  \o (IF g = None THEN <<>> ELSE <<<<g, Sent(offer, g)>>>>)
       /\ n_violations' = (n_violations \/ (g # None /\ Len(link) >= DEPTH))
       /\ sums' = [k \in 0 .. NVC |->
            (sums[k] - (IF g # None /\ g < k THEN FromRes(g) ELSE 0))
            + (IF r # None /\ r < k /\ ToRes(g, r) THEN 1 ELSE 0)]
       /\ nin' = [v \in VC |-> IF v \in Takes(offer, g) THEN After(nin[v]) ELSE nin[v]]
  /\ crq' = (IF crq = <<>> THEN <<>> ELSE Tail(crq))
            \o (IF give = 0 THEN <<>> ELSE <<Owed(take)[give]>>)
  /\ owed' = IF give = 0 THEN Owed(take) ELSE Without(Owed(take), give)
  /\ nout' = [v \in VC |-> IF take /\ Head(link)[1] = v THEN After(nout[v]) ELSE nout[v]]

Next ==
  \E asking \in SUBSET VC, take \in BOOLEAN :
    \E give \in 0 .. Len(owed) + CHECK : Edge(asking, take, give)

Spec == Init /\ [][Next]_vars

------------------------------------------------------------------------------
\* The types of the fields: no credit counter leaves 0..CREDITS.
TypeOK ==
  /\ TxTypeOK
  /\ link \in Seq(VC \X Data)
  /\ n_violations \in BOOLEAN
  /\ crq \in Seq(VC) /\ owed \in Seq(VC)

\* The running sums of the reserves: sums[k] is that of the first k.
SumsOK ==
  /\ sums[0] = 0
  /\ \A v \in VC : sums[v + 1] = sums[v] + m_res[v]

\* No credit is lost or made: each is in the pool, in a reserve, spent on a
\* value in the link, owed by the receiver or on its way back.
Conservation ==
  m_pool + sums[NVC] + CHECK * Len(link) + Len(owed) + Len(crq) = CREDITS

\* fw_credit_tx never puts to a full link: "a value is offered only when its
\* credits are held, so the receiver never has to stall it".
NoViolation == ~n_violations

\* The places of seq that hold e, and how many there are.
At(seq, e) == {i \in 1 .. Len(seq) : seq[i] = e}
Count(seq, e) == Cardinality(At(seq, e))

\* The VCs of the link's values.
Lanes(seq) == [i \in 1 .. Len(seq) |-> seq[i][1]]

\* Credits of v spent and not yet taken back: in the link, owed or coming back.
Out(v) == CHECK * Count(Lanes(link), v) + Count(owed, v) + Count(crq, v)

\* Whatever the other VCs spend, a VC that has all its credits back has at least
\* its reset reserve: what is missing from it is out on its own values.
ReserveKept == \A v \in VC : m_res[v] + Out(v) >= InitRes(v)

\* The values of v in seq run from `first` up to before `next`.
Runs(seq, v, first, next) ==
  LET mine == At(Lanes(seq), v)
  IN  /\ mine = {} => next = first
      /\ \A i \in mine :
           /\ (\A j \in mine : i <= j) => seq[i][2] = first
           /\ (\A j \in mine : j <= i) => next = After(seq[i][2])
           /\ \A j \in mine : i < j /\ (\A k \in mine : k <= i \/ j <= k)
                                => seq[j][2] = After(seq[i][2])

\* Each VC's values reach the receiver once each and in order: the link's values
\* of v and then its hold are the ones from nout[v] up to before nin[v].
InOrder ==
  \A v \in VC :
    /\ Runs(link, v, nout[v], IF m_hold[v] = None THEN nin[v] ELSE m_hold[v])
    /\ m_hold[v] # None => nin[v] = After(m_hold[v])

------------------------------------------------------------------------------
(* Liveness.  The clock goes on, the receiver goes on taking from the link *)
(* and gives the credits of VC 0 back in the end; those of the other VCs   *)
(* it may keep.                                                            *)

Taking == \E asking \in SUBSET VC, give \in 0 .. Len(owed) + CHECK :
            Edge(asking, TRUE, give)
Giving(v) == \E asking \in SUBSET VC, take \in BOOLEAN :
               \E give \in 1 .. Len(owed) : owed[give] = v /\ Edge(asking, take, give)

\* An edge at which the receiver does nothing; the sender still acts.  (Fairness
\* of Next would be too much: it would make the receiver give credits back.)
Ticking == \E asking \in SUBSET VC : Edge(asking, FALSE, 0)

FairSpec == Spec /\ WF_vars(Ticking) /\ WF_vars(Taking) /\ SF_vars(Giving(0))

\* A value waiting in VC 0's hold is sent in the end, though the receiver may
\* keep the credits of the other VCs for ever: the reserve is VC 0's own.
\* (Consecutive values differ, Data having two members at least.)
ReserveMakesProgress == \A d \in Data : m_hold[0] = d ~> m_hold[0] # d
==============================================================================
