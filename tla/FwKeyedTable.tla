----------------------------- MODULE FwKeyedTable ----------------------------
(***************************************************************************)
(* std/table/fw_keyed_table.svh: an all-or-nothing step with two stalling  *)
(* outputs.  Its step() at one edge is the action Step, on the requests    *)
(* that wait at its four ports and the two response channels.              *)
(*                                                                         *)
(* A response whose channel has space goes at once; the other may stall    *)
(* the step, which then takes nothing and changes nothing, and runs again  *)
(* at the next edge without repeating the response that went (FwStep).     *)
(***************************************************************************)
EXTENDS Naturals, Sequences

CONSTANTS N,          (* slots                                             *)
          Key, Val,   (* 0 is a value: the one a miss answers              *)
          None,       (* no entry, no request                              *)
          DEPTH       (* of the two response channels                      *)

ASSUME TableAssumption ==
  /\ N \in Nat \ {0} /\ DEPTH \in Nat \ {0} /\ 0 \in Val
  /\ None \notin Key /\ None \notin Nat
  /\ \A r \in [key : Key, val : Val] : None # r
  /\ \A r \in [slot : 0 .. N - 1, val : Val] : None # r
  /\ \A r \in [hit : BOOLEAN, slot : 0 .. N - 1, val : Val] : None # r
  /\ \A r \in [ok : BOOLEAN, full : BOOLEAN, slot : 0 .. N - 1] : None # r

Slots == 0 .. N - 1

VARIABLES
  entry,             (* per slot: its key and value, or None when not live *)
  lkp, ins, wr, rm,  (* the request waiting at each port, or None          *)
  lkp_rsp, ins_rsp,  (* the response channels                              *)
  lkp_sent, ins_sent (* the response that went before its step committed,  *)
                     (* or None                                            *)

tablevars == <<entry, lkp, ins, wr, rm, lkp_rsp, ins_rsp, lkp_sent, ins_sent>>

live(i)  == entry[i] # None
holds(k) == {i \in Slots : live(i) /\ entry[i].key = k}

\* Mutant: any slot will do for an install.
free_All == Slots
free     == {i \in Slots : ~live(i)}
lowest   == CHOOSE i \in free : \A j \in free : i <= j

\* Mutant: the value read is the one being written at this edge.
read_New(i) == IF wr # None /\ wr.slot = i THEN wr.val ELSE entry[i].val
read(i) == entry[i].val

\* lkp_rsp's {hit, slot, value}.
Found(k) ==
  IF holds(k) = {} THEN [hit |-> FALSE, slot |-> 0, val |-> 0]
  ELSE LET i == CHOOSE i \in holds(k) : TRUE
       IN  [hit |-> TRUE, slot |-> i, val |-> read(i)]

dup_Never(r) == FALSE           \* mutant: live keys are not looked at
dup(r) == holds(r.key) # {}
ok(r)  == ~dup(r) /\ free # {}

\* ins_rsp's {ok, full, slot}.
Placed(r) == [ok |-> ok(r), full |-> ~dup(r) /\ free = {},
              slot |-> IF ok(r) THEN lowest ELSE 0]

TableInit ==
  /\ entry = [i \in Slots |-> None]
  /\ lkp = None /\ ins = None /\ wr = None /\ rm = None
  /\ lkp_rsp = <<>> /\ ins_rsp = <<>>
  /\ lkp_sent = None /\ ins_sent = None

\* put_or_stall of a response: it goes now, or stalls the step.
goes(request, sent, rsp)   == request # None /\ sent = None /\ Len(rsp) < DEPTH
stalls(request, sent, rsp) == request # None /\ sent = None /\ Len(rsp) >= DEPTH

lkp_goes == goes(lkp, lkp_sent, lkp_rsp)
ins_goes == goes(ins, ins_sent, ins_rsp)
stalled  == stalls(lkp, lkp_sent, lkp_rsp) \/ stalls(ins, ins_sent, ins_rsp)

\* The responses of this edge's requests, where they went.
lkp_answer == IF lkp_goes THEN Found(lkp) ELSE lkp_sent
ins_answer == IF ins_goes THEN Placed(ins) ELSE ins_sent

\* The slots install, write and remove change: im, wm and rmm.
installs(i) == ins # None /\ ok(ins) /\ i = lowest
writes(i)   == wr # None /\ live(i) /\ i = wr.slot
removes(i)  == live(i) /\ i = rm

Updated(i) ==
  IF removes(i) THEN None
  ELSE IF installs(i) THEN ins
  ELSE IF writes(i) THEN [entry[i] EXCEPT !.val = wr.val]
  ELSE entry[i]

\* The install's response carries its request, for the users' book.
Step ==
  /\ lkp_rsp' = IF lkp_goes THEN Append(lkp_rsp, [says |-> Found(lkp), of |-> lkp]) ELSE lkp_rsp
  /\ ins_rsp' = IF ins_goes THEN Append(ins_rsp, [says |-> Placed(ins), of |-> ins]) ELSE ins_rsp
  /\ IF stalled
     THEN /\ lkp_sent' = lkp_answer /\ ins_sent' = ins_answer
          /\ UNCHANGED <<entry, lkp, ins, wr, rm>>
     ELSE /\ entry' = [i \in Slots |-> Updated(i)]
          /\ lkp' = None /\ ins' = None /\ wr' = None /\ rm' = None
          /\ lkp_sent' = None /\ ins_sent' = None

\* Keys are unique: no two live slots have the same one, so a lookup matches at
\* most one slot.
UniqueKeys ==
  \A i, j \in Slots : live(i) /\ live(j) /\ entry[i].key = entry[j].key => i = j

\* The entries, by key.
ByKey ==
  [k \in {entry[i].key : i \in {j \in Slots : live(j)}} |->
     LET i == CHOOSE i \in holds(k) : TRUE IN [slot |-> i, val |-> entry[i].val]]
==============================================================================
