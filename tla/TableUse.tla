------------------------------- MODULE TableUse ------------------------------
(***************************************************************************)
(* fw_keyed_table between the processes that use it.  They put requests    *)
(* and take responses one call at a time, at any moment between two edges; *)
(* the table's step is one action.  Request channels are of DEPTH 1.       *)
(*                                                                         *)
(* The users keep a book of the slots that install responses told them     *)
(* they own, and write to and remove no others.  WAITS says when they      *)
(* begin: as soon as they are told, or only when a lookup put after that   *)
(* has found the entry.                                                    *)
(***************************************************************************)
EXTENDS FwKeyedTable

CONSTANT WAITS

ASSUME UseAssumption == WAITS \in BOOLEAN

VARIABLES
  own,    (* per slot: the entry its owner believes it has, or None        *)
  older,  (* per slot: lookups put before its owner was told, whose        *)
          (* responses are still to come                                   *)
  seen    (* the slots a later lookup has found                            *)

vars == <<tablevars, own, older, seen>>

Init ==
  /\ TableInit
  /\ own = [i \in Slots |-> None] /\ older = [i \in Slots |-> 0] /\ seen = {}

TableStep == Step /\ UNCHANGED <<own, older, seen>>

usable(i) == own[i] # None /\ (WAITS => i \in seen)

PutInstall(r) ==
  /\ ins = None /\ ins' = r
  /\ UNCHANGED <<entry, lkp, wr, rm, lkp_rsp, ins_rsp, lkp_sent, ins_sent,
                 own, older, seen>>

PutLookup(k) ==
  /\ lkp = None /\ lkp' = k
  /\ UNCHANGED <<entry, ins, wr, rm, lkp_rsp, ins_rsp, lkp_sent, ins_sent,
                 own, older, seen>>

PutWrite(i, v) ==
  /\ wr = None /\ usable(i)
  /\ wr' = [slot |-> i, val |-> v]
  /\ own' = [own EXCEPT ![i].val = v]
  /\ UNCHANGED <<entry, lkp, ins, rm, lkp_rsp, ins_rsp, lkp_sent, ins_sent,
                 older, seen>>

PutRemove(i) ==
  /\ rm = None /\ usable(i)
  /\ rm' = i
  /\ own' = [own EXCEPT ![i] = None] /\ seen' = seen \ {i}
  /\ UNCHANGED <<entry, lkp, ins, wr, lkp_rsp, ins_rsp, lkp_sent, ins_sent,
                 older>>

\* Lookups whose responses are still to come.
coming == Len(lkp_rsp) + (IF lkp # None /\ lkp_sent = None THEN 1 ELSE 0)

TakeInstalled ==
  /\ ins_rsp # <<>> /\ ins_rsp' = Tail(ins_rsp)
  /\ LET told == Head(ins_rsp)
     IN  IF told.says.ok
         THEN /\ own' = [own EXCEPT ![told.says.slot] = told.of]
              /\ older' = [older EXCEPT ![told.says.slot] = coming]
         ELSE UNCHANGED <<own, older>>
  /\ UNCHANGED <<entry, lkp, ins, wr, rm, lkp_rsp, lkp_sent, ins_sent, seen>>

TakeFound ==
  /\ lkp_rsp # <<>> /\ lkp_rsp' = Tail(lkp_rsp)
  /\ LET r == Head(lkp_rsp)
         i == r.says.slot
     IN  seen' = IF r.says.hit /\ own[i] # None /\ own[i].key = r.of /\ older[i] = 0
                 THEN seen \cup {i} ELSE seen
  /\ older' = [i \in Slots |-> IF older[i] = 0 THEN 0 ELSE older[i] - 1]
  /\ UNCHANGED <<entry, lkp, ins, wr, rm, ins_rsp, lkp_sent, ins_sent, own>>

Next ==
  \/ TableStep
  \/ \E r \in [key : Key, val : Val] : PutInstall(r)
  \/ \E k \in Key : PutLookup(k)
  \/ \E i \in Slots : PutRemove(i) \/ \E v \in Val : PutWrite(i, v)
  \/ TakeInstalled
  \/ TakeFound

Spec == Init /\ [][Next]_vars

------------------------------------------------------------------------------
\* An install of slot i has answered and has not committed.
early(i) == ins_sent # None /\ ins_sent.ok /\ ins_sent.slot = i

\* The table does what its users asked: an owned slot holds its owner's key and
\* the value written last (or a write of it waits), and a live slot is owned, or
\* its owner is yet to be told, or its removal waits.  None leaks.
BookAgrees ==
  \A i \in Slots :
    /\ own[i] # None /\ ~early(i) =>
         /\ live(i) /\ entry[i].key = own[i].key
         /\ entry[i].val = own[i].val \/ (wr # None /\ wr.slot = i)
    /\ live(i) =>
         \/ own[i] # None \/ rm = i
         \/ \E n \in 1 .. Len(ins_rsp) : ins_rsp[n].says.ok /\ ins_rsp[n].says.slot = i

Sequential == INSTANCE KeyedTable WITH table <- ByKey

\* "The cycle is the same as lookup, install, write, remove done one after
\* another": an edge that commits is such a cycle of a sequential table, and the
\* answers that went for it, at this edge or an earlier one, are that cycle's.  No
\* other step changes the table.
SequentialTable ==
  /\ Sequential!Init
  /\ [][IF TableStep /\ ~stalled
        THEN Sequential!Cycle(lkp, ins, wr, rm, lkp_answer, ins_answer)
        ELSE UNCHANGED ByKey]_vars
==============================================================================
