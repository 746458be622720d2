------------------------------- MODULE DepOrder -------------------------------
(***************************************************************************)
(* What fw_dep_tracker promises: the live producers as a plain list in     *)
(* entry order, and each dependent's producer.  A cycle takes at most one  *)
(* entry e and one retire q, None where there is none.                     *)
(***************************************************************************)
EXTENDS Naturals, Sequences

CONSTANTS N, M,   (* producer tags and dependent tags                      *)
          None

Prod == 0 .. N - 1
Dep  == 0 .. M - 1

VARIABLES order,  (* the live producers, oldest first                      *)
          waits   (* per dependent: the producer it waits on, or None      *)

Youngest == IF order = <<>> THEN None ELSE order[Len(order)]

Listed(list) == {list[i] : i \in 1 .. Len(list)}

\* A list without q, which is on it once at most.
Without(list, q) ==
  IF q \notin Listed(list) THEN list
  ELSE LET k == CHOOSE k \in 1 .. Len(list) : list[k] = q
       IN  [i \in 1 .. Len(list) - 1 |-> list[IF i < k THEN i ELSE i + 1]]

Left(q) == Without(order, q)

\* The list after an edge: a producer enters that is not live, or retires at it.
Enters(e, q) == e # None /\ e.kind = "producer" /\ e.tag \notin Listed(Left(q))
Entered(e, q) == IF Enters(e, q) THEN Append(Left(q), e.tag) ELSE Left(q)

\* What d waits on before the retire: a dependent that enters at this cycle
\* records the youngest producer at its start.
Recorded(e, d) ==
  IF e # None /\ e.kind = "dependent" /\ e.tag = d THEN Youngest ELSE waits[d]

Init == order = <<>> /\ waits = [d \in Dep |-> None]

Cycle(e, q) ==
  /\ order' = Entered(e, q)
  /\ waits' = [d \in Dep |-> IF Recorded(e, d) = q THEN None ELSE Recorded(e, d)]
===============================================================================
