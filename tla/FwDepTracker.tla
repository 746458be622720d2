---------------------------- MODULE FwDepTracker -----------------------------
(***************************************************************************)
(* std/dep/fw_dep_tracker.svh: its step() on an entry e and a retired tag  *)
(* q, None where its ports have none.                                      *)
(***************************************************************************)
EXTENDS Naturals, Sequences

CONSTANTS N, M,   (* producer tags and dependent tags                      *)
          None

Prod  == 0 .. N - 1
Dep   == 0 .. M - 1

Producer(p)  == [kind |-> "producer", tag |-> p]
Dependent(d) == [kind |-> "dependent", tag |-> d]

ASSUME DepAssumption ==
  /\ N \in Nat \ {0} /\ M \in Nat \ {0} /\ None \notin Nat
  /\ \A t \in Prod \cup Dep : None # Producer(t) /\ None # Dependent(t)

VARIABLES
  m_live,        (* the live producers                                     *)
  m_prev, m_pv,  (* the producer that entered before, where still live     *)
  m_top, m_tv,   (* the youngest live producer, if any                     *)
  m_wait, m_on   (* the dependents that wait, and on which producer        *)

\* For the properties: the live producers in the order they entered, kept as
\* DepOrder keeps them.
VARIABLE order

\* The dependents' producers.
waits == [d \in Dep |-> IF d \in m_wait THEN m_on[d] ELSE None]
Plain == INSTANCE DepOrder

depvars == <<m_live, m_prev, m_pv, m_top, m_tv, m_wait, m_on, order>>

DepInit ==
  /\ m_live = {} /\ m_pv = {} /\ m_tv = FALSE /\ m_wait = {}
  /\ m_prev = [i \in Prod |-> 0] /\ m_top = 0 /\ m_on = [d \in Dep |-> 0]
  /\ order = <<>>

rv(q) == q \in m_live

\* Mutant: the later producer's link is not moved past q.
gone_Never(q, i) == FALSE
\* Producer i's link goes to q, which retires.
gone(q, i) == rv(q) /\ i \in m_live /\ i \in m_pv /\ m_prev[i] = q
gone_top(q) == rv(q) /\ m_tv /\ m_top = q

\* The list without q.
prev(q) == [i \in Prod |-> IF gone(q, i) THEN m_prev[q] ELSE m_prev[i]]
pv(q)   == {i \in Prod : IF gone(q, i) THEN q \in m_pv ELSE i \in m_pv}
top(q)  == IF gone_top(q) THEN m_prev[q] ELSE m_top
tv(q)   == IF gone_top(q) THEN q \in m_pv ELSE m_tv

\* The producer that enters, if any: one not live, or retired at this edge.
pm(e, q) == {i \in Prod : e # None /\ e.kind = "producer" /\ e.tag = i
                          /\ i \notin m_live \ {q}}

dm(e, d) == e # None /\ e.kind = "dependent" /\ e.tag = d
on(e, d) == IF dm(e, d) THEN m_top ELSE m_on[d]
\* Mutant: a dependent waits though no producer is live.
waiting_Any(e, d) == dm(e, d) \/ d \in m_wait
waiting(e, d) == IF dm(e, d) THEN m_tv ELSE d \in m_wait

\* Mutant: a dependent is released by a retire only once it is waiting.
released_Late(e, q, d) == rv(q) /\ ~dm(e, d) /\ on(e, d) = q
released(e, q, d) == rv(q) /\ on(e, d) = q

DepStep(e, q) ==
  /\ m_live' = (m_live \ {q}) \cup pm(e, q)
  /\ m_prev' = [i \in Prod |-> IF i \in pm(e, q) THEN top(q) ELSE prev(q)[i]]
  /\ m_pv' = {i \in Prod : IF i \in pm(e, q) THEN tv(q) ELSE i \in pv(q)}
  /\ m_top' = IF pm(e, q) # {} THEN e.tag ELSE top(q)
  /\ m_tv' = (tv(q) \/ pm(e, q) # {})
  /\ m_wait' = {d \in Dep : waiting(e, d) /\ ~released(e, q, d)}
  /\ m_on' = [d \in Dep |-> on(e, d)]
  /\ order' = Plain!Entered(e, q)

\* `ok`, as its readers see it at an edge: a level shows what was set before.
ok == Dep \ m_wait

------------------------------------------------------------------------------
\* The links from m_top down are the live producers, youngest first, in exactly
\* the order they entered, however they retired.
Links(list, live, prv, pvs, tp) ==
  /\ live = {list[i] : i \in 1 .. Len(list)}
  /\ \A i, j \in 1 .. Len(list) : list[i] = list[j] => i = j
  /\ list # <<>> => tp = list[Len(list)] /\ list[1] \notin pvs
  /\ \A i \in 2 .. Len(list) : list[i] \in pvs /\ prv[list[i]] = list[i - 1]

ListIsOrder ==
  Links(order, m_live, m_prev, m_pv, m_top) /\ (m_tv <=> order # <<>>)
==============================================================================
