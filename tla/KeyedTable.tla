------------------------------ MODULE KeyedTable -----------------------------
(***************************************************************************)
(* What fw_keyed_table promises: a sequential table of up to N entries,    *)
(* each a key with a slot and a value.  A cycle takes at most one request  *)
(* of each kind and is "the same as lookup, install, write, remove done    *)
(* one after another".                                                     *)
(***************************************************************************)
EXTENDS Naturals

CONSTANTS N,    (* slots                                                   *)
          None  (* no request                                              *)

Slots == 0 .. N - 1

VARIABLE table    (* the live keys, each with its slot and its value       *)

UsedBy(t) == {t[k].slot : k \in DOMAIN t}

\* The lowest slot no key of t has.
Lowest(t) == CHOOSE i \in Slots \ UsedBy(t) : \A j \in Slots \ UsedBy(t) : i <= j

Fits(t, r)   == r.key \notin DOMAIN t /\ Slots \ UsedBy(t) # {}
Refused(t, r) == [ok |-> FALSE, full |-> r.key \notin DOMAIN t, slot |-> 0]

\* One request done on table t: what it answers, and the table it leaves.
LookupSays(t, k) ==
  IF k \in DOMAIN t THEN [hit |-> TRUE, slot |-> t[k].slot, val |-> t[k].val]
  ELSE [hit |-> FALSE, slot |-> 0, val |-> 0]

InstallSays(t, r) ==
  IF Fits(t, r) THEN [ok |-> TRUE, full |-> FALSE, slot |-> Lowest(t)] ELSE Refused(t, r)

Install(t, r) ==
  IF r = None \/ ~Fits(t, r) THEN t
  ELSE [k \in DOMAIN t \cup {r.key} |->
          IF k = r.key THEN [slot |-> Lowest(t), val |-> r.val] ELSE t[k]]

Write(t, r) ==
  IF r = None THEN t
  ELSE [k \in DOMAIN t |-> IF t[k].slot = r.slot THEN [t[k] EXCEPT !.val = r.val] ELSE t[k]]

Remove(t, i) == [k \in {j \in DOMAIN t : t[j].slot # i} |-> t[k]]

Init == table = [k \in {} |-> None]

\* One cycle of requests, None where there is none, with the answers a lookup
\* and an install get.
Cycle(lkp, ins, wr, rm, found, placed) ==
  /\ lkp # None => found = LookupSays(table, lkp)
  /\ ins # None => placed = InstallSays(table, ins)
  /\ table' = Remove(Write(Install(table, ins), wr), rm)
==============================================================================
