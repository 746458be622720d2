------------------------------ MODULE FwCreditTx -----------------------------
(***************************************************************************)
(* std/credit/fw_credit_tx.svh: a credit-gated sender over NVC virtual     *)
(* channels.  Its step() as one action on its fields; what it takes, sends *)
(* and is given back at an edge are parameters, for CreditLink to join to  *)
(* the other side.                                                         *)
(*                                                                         *)
(* Credits are cnt_t, clog2(CREDITS + 1) bits, in the code.  CreditLink    *)
(* shows they never leave 0..CREDITS, so nothing below wraps.              *)
(***************************************************************************)
EXTENDS Integers

CONSTANTS NVC,      (* virtual channels, numbered from 0                   *)
          CREDITS,  (* the receiver's buffer                               *)
          RESERVE,  (* credits kept for each VC                            *)
          CHECK,    (* credits a value spends                              *)
          POLICY,   (* "pool_first" or "vc_first"                          *)
          Data,     (* the values sent                                     *)
          None      (* no value, no VC                                     *)

ASSUME CreditAssumption ==
  /\ NVC \in Nat \ {0}
  /\ CREDITS \in Nat \ {0}
  /\ RESERVE \in Nat
  /\ CHECK \in 1 .. CREDITS            \* else nothing is ever sent
  /\ POLICY \in {"pool_first", "vc_first"}
  /\ 0 \in Data /\ None \notin Data /\ None \notin 0 .. NVC - 1

VC == 0 .. NVC - 1

VARIABLES m_pool,   (* credits of the shared pool                          *)
          m_res,    (* per VC: credits of its reserve                      *)
          m_hold,   (* per VC: the value waiting to be sent, or None       *)
          m_last    (* the VC last sent                                    *)

txvars == <<m_pool, m_res, m_hold, m_last>>

min_c(a, b) == IF a < b THEN a ELSE b

\* init_res: reserves are filled in VC order until the credits run out, so VC v
\* finds what v full reserves left over.
InitRes(v) ==
  LET left == CREDITS - v * RESERVE
  IN  IF left <= 0 THEN 0 ELSE min_c(left, RESERVE)
InitPool_All == CREDITS      \* mutant: the reserves are not taken from the pool
InitPool == IF CREDITS > NVC * RESERVE THEN CREDITS - NVC * RESERVE ELSE 0

TxInit ==
  /\ m_pool = InitPool
  /\ m_res = [v \in VC |-> InitRes(v)]
  /\ m_hold = [v \in VC |-> None]
  /\ m_last = NVC - 1

\* pool + reserve[v] cover a value.
Covered(v) == m_pool + m_res[v] >= CHECK

\* How far v is after the VC last sent, going round: the scan's k.
Turn(v) == IF v > m_last THEN v - m_last ELSE (v + NVC) - m_last

\* The VC that sends at this edge, if any (None): with one VC, the value that
\* is offered now; else the first hold in turn whose credits cover it.
Sendable(offer) == {v \in VC : /\ IF NVC = 1 THEN offer[v] # None ELSE m_hold[v] # None
                               /\ Covered(v)}
Sends(offer, g) ==
  LET ready == Sendable(offer)
  IN  IF ready = {} THEN g = None
      ELSE g \in ready /\ \A v \in ready : Turn(g) <= Turn(v)

\* The value that goes when g sends.
Sent(offer, g) == IF NVC = 1 THEN offer[g] ELSE m_hold[g]

\* What g's send takes from the pool and from g's reserve.
FromPool_All(g) == IF g = None THEN 0 ELSE CHECK   \* mutant: the pool pays it all
FromPool(g) == IF g = None THEN 0
               ELSE IF POLICY = "pool_first" THEN min_c(m_pool, CHECK)
               ELSE CHECK - min_c(m_res[g], CHECK)
FromRes(g)  == IF g = None THEN 0 ELSE CHECK - FromPool(g)

ResAfterSend_Free(g) == m_res       \* mutant: the reserve is not charged
ResAfterSend(g) == [v \in VC |-> IF v = g THEN m_res[v] - FromRes(g) ELSE m_res[v]]

\* A returned credit refills its VC's reserve up to RESERVE, then the pool.
ToRes_Never(g, r) == FALSE          \* mutant: every credit goes to the pool
ToRes(g, r) == r \in VC /\ ResAfterSend(g)[r] < RESERVE
ToPool_Too(g, r) == r \in VC        \* mutant: the pool is refilled as well
ToPool(g, r) == r \in VC /\ ~ToRes(g, r)

\* The holds that take their input at this edge: empty before it, or sent.
fills_Always(v, g) == TRUE          \* mutant: over a value that still waits
fills(v, g) == m_hold[v] = None \/ v = g

\* step(): g sends, the holds that are empty then fill from `offer`, and the
\* credit r (None: no return waits) comes back.
TxStep(offer, g, r) ==
  /\ Sends(offer, g)
  /\ m_pool' = (m_pool - FromPool(g)) + (IF ToPool(g, r) THEN 1 ELSE 0)
  /\ m_res' = [v \in VC |-> ResAfterSend(g)[v] + (IF v = r /\ ToRes(g, r) THEN 1 ELSE 0)]
  /\ IF NVC = 1
     THEN UNCHANGED <<m_hold, m_last>>
     ELSE /\ m_hold' = [v \in VC |-> IF fills(v, g) THEN offer[v] ELSE m_hold[v]]
          /\ m_last' = IF g = None THEN m_last ELSE g

\* The VCs whose offered value the step takes.
Takes(offer, g) ==
  {v \in VC : /\ offer[v] # None
              /\ IF NVC = 1 THEN v = g ELSE fills(v, g)}

\* The types of the fields; cnt_t holds 0..CREDITS.
TxTypeOK ==
  /\ m_pool \in 0 .. CREDITS
  /\ m_res \in [VC -> 0 .. CREDITS]
  /\ m_hold \in [VC -> Data \cup {None}]
  /\ m_last \in VC
==============================================================================
