---------------------------- MODULE TableUse_proof ----------------------------
(***************************************************************************)
(* Keys are unique in fw_keyed_table whatever its users ask, for every     *)
(* number of slots, keys and values, every DEPTH of the responses and      *)
(* either value of WAITS: no protocol of the users is needed for it.       *)
(*                                                                         *)
(* Users who wait until a lookup has found their entry (WAITS) keep a book *)
(* that agrees with the table, and see a sequential table.  The invariant, *)
(* Book, follows a slot through its life: free, answered early by an edge  *)
(* that stalls, on its way to its owner, owned, confirmed, about to go.    *)
(***************************************************************************)
EXTENDS TableUse, SequenceTheorems, NaturalsInduction, WellFoundedInduction, TLAPS

Requests == [key : Key, val : Val]

\* The slots, and the ports their contents come from.
Kinds ==
  /\ entry \in [Slots -> Requests \cup {None}]
  /\ ins \in Requests \cup {None}
  /\ wr \in [slot : Slots, val : Val] \cup {None}

IInv == Kinds /\ UniqueKeys

LEMMA InitHolds == Init => IInv
  BY DEF Init, TableInit, IInv, Kinds, UniqueKeys, live

\* An edge that commits keeps keys unique: an install puts its key in one slot, and
\* only if no live slot has it; a write leaves the key alone.
LEMMA CommitKeepsUnique ==
  ASSUME IInv, entry' = [i \in Slots |-> Updated(i)], ins' = None, wr' = None
  PROVE  IInv'
<1> USE DEF IInv
<1>1. \A i \in Slots : Updated(i) \in Requests \cup {None}
  <2> SUFFICES ASSUME NEW i \in Slots PROVE Updated(i) \in Requests \cup {None}
    OBVIOUS
  <2>1. CASE removes(i)
    BY <2>1 DEF Updated
  <2>2. CASE ~removes(i) /\ installs(i)
    BY <2>2 DEF Updated, Kinds
  <2>3. CASE ~removes(i) /\ ~installs(i) /\ writes(i)
    <3>1. entry[i] \in Requests
      BY <2>3 DEF writes, live, Kinds
    <3>2. wr.val \in Val
      BY <2>3 DEF writes, Kinds
    <3> QED
      BY <2>3, <3>1, <3>2 DEF Updated, Requests
  <2>4. CASE ~removes(i) /\ ~installs(i) /\ ~writes(i)
    BY <2>4 DEF Updated, Kinds
  <2> QED
    BY <2>1, <2>2, <2>3, <2>4
<1>2. Kinds'
  BY <1>1 DEF Kinds, Slots
<1>3. \A i \in Slots : live(i)' =>
        \/ installs(i) /\ entry'[i] = ins
        \/ live(i) /\ ~installs(i) /\ entry'[i].key = entry[i].key
  <2> SUFFICES ASSUME NEW i \in Slots, live(i)'
               PROVE  \/ installs(i) /\ entry'[i] = ins
                      \/ live(i) /\ ~installs(i) /\ entry'[i].key = entry[i].key
    OBVIOUS
  <2>1. entry'[i] = Updated(i) /\ Updated(i) # None
    BY DEF live
  <2>2. CASE installs(i)
    BY <2>1, <2>2 DEF Updated
  <2>3. CASE ~installs(i) /\ writes(i)
    <3>1. entry[i] \in Requests
      BY <2>3 DEF writes, live, Kinds
    <3> QED
      BY <2>1, <2>3, <3>1 DEF Updated, Requests, writes
  <2>4. CASE ~installs(i) /\ ~writes(i)
    BY <2>1, <2>4 DEF Updated, live
  <2> QED
    BY <2>2, <2>3, <2>4
<1>4. \A i, j \in Slots : installs(i) /\ live(j) => entry[j].key # ins.key
  BY DEF installs, ok, dup, holds
<1>5. \A i, j \in Slots : installs(i) /\ installs(j) => i = j
  BY DEF installs
<1>6. UniqueKeys'
  <2> SUFFICES ASSUME NEW i \in Slots, NEW j \in Slots, live(i)', live(j)',
                      entry'[i].key = entry'[j].key
               PROVE  i = j
    BY DEF UniqueKeys, Slots
  <2>1. CASE installs(i) /\ installs(j)
    BY <1>5, <2>1
  <2>2. CASE installs(i) /\ ~installs(j)
    BY <1>3, <1>4, <2>2
  <2>3. CASE ~installs(i) /\ installs(j)
    BY <1>3, <1>4, <2>3
  <2>4. CASE ~installs(i) /\ ~installs(j)
    BY <1>3, <2>4 DEF UniqueKeys
  <2> QED
    BY <2>1, <2>2, <2>3, <2>4
<1> QED
  BY <1>2, <1>6

LEMMA NextKeeps == IInv /\ [Next]_vars => IInv'
<1> SUFFICES ASSUME IInv, [Next]_vars PROVE IInv'
  OBVIOUS
<1> USE DEF IInv
<1>1. CASE TableStep
  <2>1. CASE stalled
    BY <1>1, <2>1 DEF TableStep, Step, Kinds, UniqueKeys, live, Slots
  <2>2. CASE ~stalled
    BY <1>1, <2>2, CommitKeepsUnique DEF TableStep, Step
  <2> QED
    BY <2>1, <2>2
<1>2. ASSUME NEW r \in [key : Key, val : Val], PutInstall(r) PROVE IInv'
  BY <1>2 DEF PutInstall, Kinds, Requests, UniqueKeys, live, Slots
<1>3. ASSUME NEW k \in Key, PutLookup(k) PROVE IInv'
  BY <1>3 DEF PutLookup, Kinds, UniqueKeys, live, Slots
<1>4. ASSUME NEW i \in Slots, NEW v \in Val, PutWrite(i, v) PROVE IInv'
  BY <1>4 DEF PutWrite, Kinds, UniqueKeys, live, Slots
<1>5. ASSUME NEW i \in Slots, PutRemove(i) PROVE IInv'
  BY <1>5 DEF PutRemove, Kinds, UniqueKeys, live, Slots
<1>6. CASE TakeInstalled
  BY <1>6 DEF TakeInstalled, Kinds, UniqueKeys, live, Slots
<1>7. CASE TakeFound
  BY <1>7 DEF TakeFound, Kinds, UniqueKeys, live, Slots
<1>8. CASE UNCHANGED vars
  BY <1>8 DEF vars, tablevars, Kinds, UniqueKeys, live, Slots
<1> QED
  BY <1>1, <1>2, <1>3, <1>4, <1>5, <1>6, <1>7, <1>8 DEF Next

\* Whatever the users put, and however the responses stall, two live slots never
\* have the same key, so a lookup matches at most one.
THEOREM KeysStayUnique == Spec => []UniqueKeys
<1>1. Init => IInv
  BY InitHolds
<1>2. IInv /\ [Next]_vars => IInv'
  BY NextKeeps
<1>3. IInv => UniqueKeys
  BY DEF IInv
<1> QED
  BY <1>1, <1>2, <1>3, PTL DEF Spec

------------------------------------------------------------------------------
\* The responses the table gives, and the fields' kinds.
Placements == [ok : BOOLEAN, full : BOOLEAN, slot : Slots]
Findings   == [hit : BOOLEAN, slot : Slots, val : Val]

Ports ==
  /\ lkp \in Key \cup {None} /\ rm \in Slots \cup {None}
  /\ ins_rsp \in Seq([says : Placements, of : Requests])
  /\ lkp_rsp \in Seq([says : Findings, of : Key])
  /\ own \in [Slots -> Requests \cup {None}]
  /\ older \in [Slots -> Nat] /\ seen \in SUBSET Slots

\* The responses that a table of entries e gives.
FreeIn(e)     == {i \in Slots : e[i] = None}
HoldsIn(e, k) == {i \in Slots : e[i] # None /\ e[i].key = k}
LowestIn(e)   == CHOOSE i \in FreeIn(e) : \A j \in FreeIn(e) : i <= j
OkIn(e, r)    == HoldsIn(e, r.key) = {} /\ FreeIn(e) # {}
FoundIn(e, k) ==
  IF HoldsIn(e, k) = {} THEN [hit |-> FALSE, slot |-> 0, val |-> 0]
  ELSE LET i == CHOOSE i \in HoldsIn(e, k) : TRUE
       IN  [hit |-> TRUE, slot |-> i, val |-> e[i].val]
PlacedIn(e, r) == [ok |-> OkIn(e, r), full |-> HoldsIn(e, r.key) = {} /\ FreeIn(e) = {},
                   slot |-> IF OkIn(e, r) THEN LowestIn(e) ELSE 0]

\* A response that went is still the one its request gets: a stalled edge
\* changes no entry.
Sent ==
  /\ lkp_sent # None => lkp # None /\ lkp_sent = FoundIn(entry, lkp)
  /\ ins_sent # None => ins # None /\ ins_sent = PlacedIn(entry, ins)

\* The responses on their way that give slot i to a user.
Told(i) == {n \in 1 .. Len(ins_rsp) : ins_rsp[n].says.ok /\ ins_rsp[n].says.slot = i}

\* A slot is given to one user, by one response, and to nobody else before it
\* is free again.
OneTold ==
  \A i \in Slots : \A n \in Told(i) :
    /\ own[i] = None /\ rm # i /\ Told(i) = {n}
    /\ \/ early(i) /\ ins_rsp[n].of = ins
       \/ live(i) /\ entry[i] = ins_rsp[n].of

\* The owner of a slot that was answered early has not written to it.
EarlyOwn == \A i \in Slots : early(i) => own[i] = ins \/ Told(i) # {}

Owned ==
  \A i \in Slots :
    own[i] # None /\ ~early(i) =>
      /\ live(i) /\ entry[i].key = own[i].key
      /\ entry[i].val = own[i].val \/ (wr # None /\ wr.slot = i)

Writing ==
  wr # None =>
    /\ live(wr.slot)
    /\ rm = wr.slot \/ (own[wr.slot] # None /\ own[wr.slot].val = wr.val)

Removing == rm # None => live(rm) /\ own[rm] = None

NoneLeaks == \A i \in Slots : live(i) => own[i] # None \/ rm = i \/ Told(i) # {}

Confirmed == \A i \in seen : own[i] # None /\ ~early(i)

\* A lookup put after the owner of an early slot was told does not find the slot.
Unfound ==
  \A i \in Slots : early(i) /\ own[i] # None =>
    \A n \in 1 .. Len(lkp_rsp) :
      n > older[i] => ~(lkp_rsp[n].says.hit /\ lkp_rsp[n].says.slot = i)

Book == OneTold /\ EarlyOwn /\ Owned /\ Writing /\ Removing /\ NoneLeaks /\ Confirmed /\ Unfound

------------------------------------------------------------------------------
LEMMA Responses ==
  /\ \A k : holds(k) = HoldsIn(entry, k)
  /\ free = FreeIn(entry)
  /\ lowest = LowestIn(entry)
  /\ \A r : ok(r) <=> OkIn(entry, r)
  /\ \A k : Found(k) = FoundIn(entry, k)
  /\ \A r : Placed(r) = PlacedIn(entry, r)
<1>1. free = FreeIn(entry)
  BY DEF free, FreeIn, live
<1>2. \A k : holds(k) = HoldsIn(entry, k)
  BY DEF holds, HoldsIn, live
<1>3. lowest = LowestIn(entry)
  BY <1>1 DEF lowest, LowestIn
<1>4. \A r : ok(r) <=> OkIn(entry, r)
  BY <1>1, <1>2 DEF ok, dup, OkIn
<1>5. \A k : Found(k) = FoundIn(entry, k)
  BY <1>2 DEF Found, FoundIn, read
<1>6. \A r : Placed(r) = PlacedIn(entry, r)
  BY <1>1, <1>2, <1>3, <1>4 DEF Placed, PlacedIn, dup
<1>7. QED
  BY <1>1, <1>2, <1>3, <1>4, <1>5, <1>6

\* A set of slots has a lowest one.
LEMMA LowestIsFree ==
  ASSUME NEW e, FreeIn(e) # {}
  PROVE  LowestIn(e) \in FreeIn(e)
<1>1. FreeIn(e) \subseteq Nat
  BY TableAssumption DEF FreeIn, Slots
<1>2. PICK i \in FreeIn(e) : \A j \in FreeIn(e) : i <= j
  <2> DEFINE R == OpToRel(<, Nat)
  <2>1. IsWellFoundedOn(R, Nat)
    BY NatLessThanWellFounded
  <2> HIDE DEF R
  <2>2. PICK i \in FreeIn(e) : \A j \in FreeIn(e) : <<j, i>> \notin R
    BY <1>1, <2>1, WFMin
  <2>3. \A j \in FreeIn(e) : ~(j < i)
    BY <1>1, <2>2 DEF R, OpToRel
  <2>4. QED
    BY <1>1, <2>2, <2>3
<1>3. QED
  BY <1>2 DEF LowestIn

\* The responses are of their kinds; an install's slot is free, and a lookup's is
\* live.
LEMMA ResponsesAre ==
  ASSUME Kinds
  PROVE  /\ \A r : PlacedIn(entry, r) \in Placements
         /\ \A r : OkIn(entry, r) => LowestIn(entry) \in Slots /\ ~live(LowestIn(entry))
         /\ \A k : /\ FoundIn(entry, k) \in Findings
                   /\ FoundIn(entry, k).hit => live(FoundIn(entry, k).slot)
<1>1. ASSUME NEW r, OkIn(entry, r) PROVE LowestIn(entry) \in Slots /\ ~live(LowestIn(entry))
  <2>1. LowestIn(entry) \in FreeIn(entry)
    BY <1>1, LowestIsFree DEF OkIn
  <2>2. QED
    BY <2>1 DEF FreeIn, live
<1>2. 0 \in Slots /\ 0 \in Val
  BY TableAssumption DEF Slots
<1>3. ASSUME NEW r PROVE PlacedIn(entry, r) \in Placements
  <2>1. (IF OkIn(entry, r) THEN LowestIn(entry) ELSE 0) \in Slots
    BY <1>1, <1>2
  <2>2. OkIn(entry, r) \in BOOLEAN
    BY DEF OkIn
  <2>3. QED
    BY <2>1, <2>2 DEF PlacedIn, Placements
<1>4. ASSUME NEW k
      PROVE  /\ FoundIn(entry, k) \in Findings
             /\ FoundIn(entry, k).hit => live(FoundIn(entry, k).slot)
  <2>1. CASE HoldsIn(entry, k) = {}
    BY <1>2, <2>1 DEF FoundIn, Findings
  <2>2. CASE HoldsIn(entry, k) # {}
    <3> DEFINE i == CHOOSE i \in HoldsIn(entry, k) : TRUE
    <3>1. i \in HoldsIn(entry, k)
      BY <2>2
    <3>2. FoundIn(entry, k) = [hit |-> TRUE, slot |-> i, val |-> entry[i].val]
      BY <2>2 DEF FoundIn
    <3> HIDE DEF i
    <3>3. i \in Slots /\ live(i) /\ entry[i] \in Requests
      BY <3>1 DEF HoldsIn, live, Kinds
    <3>4. entry[i].val \in Val
      BY <3>3 DEF Requests
    <3>5. QED
      BY <3>2, <3>3, <3>4 DEF Findings
  <2>3. QED
    BY <2>1, <2>2
<1>5. QED
  BY <1>1, <1>3, <1>4

\* An install that was answered early has its slot, and it is still free.
LEMMA EarlyIs ==
  ASSUME Kinds, Sent, NEW i \in Slots, early(i)
  PROVE  /\ ins # None /\ OkIn(entry, ins) /\ i = LowestIn(entry) /\ ~live(i)
         /\ ins_sent = PlacedIn(entry, ins)
<1>1. ins # None /\ ins_sent = PlacedIn(entry, ins) /\ ins_sent.ok /\ ins_sent.slot = i
  BY DEF early, Sent
<1>2. OkIn(entry, ins) /\ i = LowestIn(entry)
  BY <1>1 DEF PlacedIn
<1>3. QED
  BY <1>1, <1>2, ResponsesAre

LEMMA InitBook == Init => Ports /\ Sent /\ Book
<1> SUFFICES ASSUME Init PROVE Ports /\ Sent /\ Book
  OBVIOUS
<1>1. Ports
  BY TableAssumption, EmptySeq DEF Init, TableInit, Ports
<1>2. Sent
  BY DEF Init, TableInit, Sent
<1>3. \A i \in Slots : own[i] = None /\ ~live(i) /\ ~early(i) /\ Told(i) = {}
  BY DEF Init, TableInit, live, early, Told
<1>4. wr = None /\ rm = None /\ seen = {}
  BY DEF Init, TableInit
<1>5. QED
  BY <1>1, <1>2, <1>3, <1>4 DEF Book, OneTold, EarlyOwn, Owned, Writing, Removing,
                                NoneLeaks, Confirmed, Unfound

------------------------------------------------------------------------------
All == IInv /\ Ports /\ Sent /\ Book

\* The users' calls change no entry and no response that went.
LEMMA PutInstallKeeps ==
  ASSUME All, NEW r \in Requests, PutInstall(r)
  PROVE  Ports' /\ Sent' /\ Book'
<1> USE DEF All, IInv
<1>1. /\ ins = None /\ ins' = r /\ ins_sent = None
      /\ entry' = entry /\ lkp' = lkp /\ wr' = wr /\ rm' = rm
      /\ lkp_rsp' = lkp_rsp /\ ins_rsp' = ins_rsp
      /\ lkp_sent' = lkp_sent /\ ins_sent' = ins_sent
      /\ own' = own /\ older' = older /\ seen' = seen
  BY DEF PutInstall, Sent
<1>2. /\ \A i \in Slots : ~early(i) /\ ~early(i)' /\ (live(i)' <=> live(i))
      /\ \A i \in Slots : Told(i)' = Told(i)
  BY <1>1 DEF early, live, Told
<1>3. Ports' /\ Sent'
  BY <1>1 DEF Ports, Sent
<1>4. OneTold' /\ EarlyOwn'
  BY <1>1, <1>2 DEF Book, OneTold, EarlyOwn
<1>5. Owned' /\ Writing' /\ Removing' /\ NoneLeaks' /\ Confirmed' /\ Unfound'
  BY <1>1, <1>2 DEF Book, Owned, Writing, Removing, NoneLeaks, Confirmed, Unfound, live, early
<1>6. QED
  BY <1>3, <1>4, <1>5 DEF Book

\* A lookup waits only when none does, so none has been answered.
LEMMA PutLookupKeeps ==
  ASSUME All, NEW k \in Key, PutLookup(k)
  PROVE  Ports' /\ Sent' /\ Book'
<1> USE DEF All, IInv
<1>1. /\ lkp = None /\ lkp' = k /\ lkp_sent = None
      /\ entry' = entry /\ ins' = ins /\ wr' = wr /\ rm' = rm
      /\ lkp_rsp' = lkp_rsp /\ ins_rsp' = ins_rsp
      /\ lkp_sent' = lkp_sent /\ ins_sent' = ins_sent
      /\ own' = own /\ older' = older /\ seen' = seen
  BY DEF PutLookup, Sent
<1>2. /\ \A i \in Slots : (early(i)' <=> early(i)) /\ (live(i)' <=> live(i))
      /\ \A i \in Slots : Told(i)' = Told(i)
  BY <1>1 DEF early, live, Told
<1>3. Ports' /\ Sent'
  BY <1>1 DEF Ports, Sent
<1>4. OneTold' /\ EarlyOwn'
  BY <1>1, <1>2 DEF Book, OneTold, EarlyOwn
<1>5. Owned' /\ Writing' /\ Removing' /\ NoneLeaks' /\ Confirmed' /\ Unfound'
  BY <1>1, <1>2 DEF Book, Owned, Writing, Removing, NoneLeaks, Confirmed, Unfound, live, early
<1>6. QED
  BY <1>3, <1>4, <1>5 DEF Book

\* A user who waited writes to an entry that is there.
LEMMA PutWriteKeeps ==
  ASSUME WAITS, All, NEW s \in Slots, NEW v \in Val, PutWrite(s, v)
  PROVE  Ports' /\ Sent' /\ Book'
<1> USE DEF All, IInv
<1>1. /\ wr = None /\ wr' = [slot |-> s, val |-> v] /\ own' = [own EXCEPT ![s].val = v]
      /\ own[s] # None /\ s \in seen
      /\ entry' = entry /\ lkp' = lkp /\ ins' = ins /\ rm' = rm
      /\ lkp_rsp' = lkp_rsp /\ ins_rsp' = ins_rsp
      /\ lkp_sent' = lkp_sent /\ ins_sent' = ins_sent
      /\ older' = older /\ seen' = seen
  BY DEF PutWrite, usable
<1>2. ~early(s) /\ live(s) /\ entry[s].key = own[s].key
  BY <1>1 DEF Book, Confirmed, Owned
<1>3. own[s] \in Requests /\ own \in [Slots -> Requests \cup {None}]
  BY <1>1 DEF Ports
<1>4. /\ \A i \in Slots : i # s => own'[i] = own[i]
      /\ own'[s] \in Requests /\ own'[s] # None
      /\ own'[s].key = own[s].key /\ own'[s].val = v
  <2>1. own'[s] = [own[s] EXCEPT !.val = v] /\ \A i \in Slots : i # s => own'[i] = own[i]
    BY <1>1, <1>3
  <2>2. [own[s] EXCEPT !.val = v] \in Requests
    BY <1>3 DEF Requests
  <2>3. [own[s] EXCEPT !.val = v].key = own[s].key /\ [own[s] EXCEPT !.val = v].val = v
    BY <1>3 DEF Requests
  <2>4. None \notin Requests
    BY TableAssumption DEF Requests
  <2>5. QED
    BY <2>1, <2>2, <2>3, <2>4
<1>5. wr' # None /\ wr'.slot = s /\ wr'.val = v
  <2>1. [slot |-> s, val |-> v] \in [slot : 0 .. N - 1, val : Val]
    BY DEF Slots
  <2>2. QED
    BY <1>1, <2>1, TableAssumption
<1>6. /\ \A i \in Slots : (early(i)' <=> early(i)) /\ (live(i)' <=> live(i))
      /\ \A i \in Slots : Told(i)' = Told(i)
  BY <1>1 DEF early, live, Told
<1>7. Ports'
  <2>1. own' \in [Slots -> Requests \cup {None}]
    <3>1. \A i \in Slots : own'[i] \in Requests \cup {None}
      BY <1>3, <1>4
    <3>2. own' = [i \in Slots |-> own'[i]]
      BY <1>1, <1>3
    <3>3. QED
      BY <3>1, <3>2
  <2>2. QED
    BY <1>1, <2>1 DEF Ports
<1>8. Sent'
  BY <1>1 DEF Sent
<1>9. Told(s) = {}
  BY <1>1 DEF Book, OneTold
<1>10. OneTold'
  <2>1. ASSUME NEW i \in Slots, NEW n \in Told(i)
        PROVE  /\ own'[i] = None /\ rm' # i /\ Told(i) = {n}
               /\ \/ early(i) /\ ins_rsp[n].of = ins
                  \/ live(i) /\ entry[i] = ins_rsp[n].of
    BY <1>1, <1>4, <1>9, <2>1 DEF Book, OneTold
  <2>2. QED
    BY <1>1, <1>6, <2>1 DEF OneTold
<1>11. EarlyOwn'
  <2>1. ASSUME NEW i \in Slots, early(i) PROVE own'[i] = ins \/ Told(i) # {}
    BY <1>2, <1>4, <2>1 DEF Book, EarlyOwn
  <2>2. QED
    BY <1>1, <1>6, <2>1 DEF EarlyOwn
<1>12. Owned'
  <2>1. ASSUME NEW i \in Slots, own'[i] # None, ~early(i)
        PROVE  /\ live(i) /\ entry[i].key = own'[i].key
               /\ entry[i].val = own'[i].val \/ wr'.slot = i
    <3>1. CASE i = s
      BY <1>2, <1>4, <1>5, <3>1
    <3>2. CASE i # s
      BY <1>1, <1>4, <2>1, <3>2 DEF Book, Owned
    <3>3. QED
      BY <3>1, <3>2
  <2>2. QED
    BY <1>1, <1>5, <1>6, <2>1 DEF Owned
<1>13. Writing'
  BY <1>1, <1>2, <1>4, <1>5, <1>6 DEF Writing
<1>14. Removing'
  <2>1. ASSUME rm # None PROVE live(rm) /\ own'[rm] = None /\ rm \in Slots
    BY <1>1, <1>4, <2>1 DEF Book, Removing, Ports
  <2>2. QED
    BY <1>1, <1>6, <2>1 DEF Removing
<1>15. NoneLeaks'
  <2>1. ASSUME NEW i \in Slots, live(i) PROVE own'[i] # None \/ rm = i \/ Told(i) # {}
    BY <1>4, <2>1 DEF Book, NoneLeaks
  <2>2. QED
    BY <1>1, <1>6, <2>1 DEF NoneLeaks
<1>16. Confirmed'
  <2>1. ASSUME NEW i \in seen PROVE i \in Slots /\ own'[i] # None /\ ~early(i)
    BY <1>4 DEF Book, Confirmed, Ports
  <2>2. QED
    BY <1>1, <1>6, <2>1 DEF Confirmed
<1>17. Unfound'
  <2>1. ASSUME NEW i \in Slots, early(i), own'[i] # None PROVE own[i] # None
    BY <1>1, <1>4, <2>1
  <2>2. QED
    BY <1>1, <1>6, <2>1 DEF Book, Unfound
<1>18. QED
  BY <1>7, <1>8, <1>10, <1>11, <1>12, <1>13, <1>14, <1>15, <1>16, <1>17 DEF Book

\* A user who waited gives up a slot whose entry is there.
LEMMA PutRemoveKeeps ==
  ASSUME WAITS, All, NEW s \in Slots, PutRemove(s)
  PROVE  Ports' /\ Sent' /\ Book'
<1> USE DEF All, IInv
<1>1. /\ rm = None /\ rm' = s /\ own' = [own EXCEPT ![s] = None] /\ seen' = seen \ {s}
      /\ own[s] # None /\ s \in seen
      /\ entry' = entry /\ lkp' = lkp /\ ins' = ins /\ wr' = wr
      /\ lkp_rsp' = lkp_rsp /\ ins_rsp' = ins_rsp
      /\ lkp_sent' = lkp_sent /\ ins_sent' = ins_sent
      /\ older' = older
  BY DEF PutRemove, usable
<1>2. ~early(s) /\ live(s) /\ Told(s) = {}
  BY <1>1 DEF Book, Confirmed, Owned, OneTold
<1>3. /\ own \in [Slots -> Requests \cup {None}] /\ own'[s] = None
      /\ \A i \in Slots : i # s => own'[i] = own[i]
  BY <1>1 DEF Ports
<1>4. /\ \A i \in Slots : (early(i)' <=> early(i)) /\ (live(i)' <=> live(i))
      /\ \A i \in Slots : Told(i)' = Told(i)
      /\ s # None
  BY <1>1, TableAssumption DEF early, live, Told, Slots
<1>5. Ports' /\ Sent'
  BY <1>1 DEF Ports, Sent
<1>6. OneTold'
  <2>1. ASSUME NEW i \in Slots, NEW n \in Told(i)
        PROVE  /\ own'[i] = None /\ rm' # i /\ Told(i) = {n}
               /\ \/ early(i) /\ ins_rsp[n].of = ins
                  \/ live(i) /\ entry[i] = ins_rsp[n].of
    BY <1>1, <1>2, <1>3, <2>1 DEF Book, OneTold
  <2>2. QED
    BY <1>1, <1>4, <2>1 DEF OneTold
<1>7. EarlyOwn'
  <2>1. ASSUME NEW i \in Slots, early(i) PROVE own'[i] = ins \/ Told(i) # {}
    BY <1>2, <1>3, <2>1 DEF Book, EarlyOwn
  <2>2. QED
    BY <1>1, <1>4, <2>1 DEF EarlyOwn
<1>8. Owned'
  <2>1. ASSUME NEW i \in Slots, own'[i] # None, ~early(i)
        PROVE  /\ live(i) /\ entry[i].key = own'[i].key
               /\ entry[i].val = own'[i].val \/ (wr # None /\ wr.slot = i)
    BY <1>3, <2>1 DEF Book, Owned
  <2>2. QED
    BY <1>1, <1>4, <2>1 DEF Owned
<1>9. Writing'
  <2>1. ASSUME wr # None
        PROVE  /\ wr.slot \in Slots /\ live(wr.slot)
               /\ s = wr.slot \/ (own'[wr.slot] # None /\ own'[wr.slot].val = wr.val)
    <3>1. wr.slot \in Slots
      BY <2>1 DEF Kinds
    <3>2. live(wr.slot) /\ own[wr.slot] # None /\ own[wr.slot].val = wr.val
      BY <1>1, <1>4, <2>1, <3>1, TableAssumption DEF Book, Writing, Slots
    <3>3. QED
      BY <1>3, <3>1, <3>2
  <2>2. QED
    BY <1>1, <1>4, <2>1 DEF Writing
<1>10. Removing'
  BY <1>1, <1>2, <1>3, <1>4 DEF Removing
<1>11. NoneLeaks'
  <2>1. ASSUME NEW i \in Slots, live(i) PROVE own'[i] # None \/ s = i \/ Told(i) # {}
    BY <1>1, <1>3, <1>4, <2>1, TableAssumption DEF Book, NoneLeaks, Slots
  <2>2. QED
    BY <1>1, <1>4, <2>1 DEF NoneLeaks
<1>12. Confirmed'
  <2>1. ASSUME NEW i \in seen \ {s} PROVE i \in Slots /\ own'[i] # None /\ ~early(i)
    BY <1>3 DEF Book, Confirmed, Ports
  <2>2. QED
    BY <1>1, <1>4, <2>1 DEF Confirmed
<1>13. Unfound'
  <2>1. ASSUME NEW i \in Slots, own'[i] # None PROVE own[i] # None
    BY <1>3, <2>1
  <2>2. QED
    BY <1>1, <1>4, <2>1 DEF Book, Unfound
<1>14. QED
  BY <1>5, <1>6, <1>7, <1>8, <1>9, <1>10, <1>11, <1>12, <1>13 DEF Book

\* The head of the responses, and those that stay.
LEMMA Heads ==
  ASSUME NEW S, NEW seq \in Seq(S), seq # <<>>
  PROVE  /\ 1 \in 1 .. Len(seq) /\ Head(seq) = seq[1] /\ Head(seq) \in S
         /\ Tail(seq) \in Seq(S)
         /\ \A n : n \in 1 .. Len(Tail(seq))
                     <=> n \in Nat /\ n >= 1 /\ n + 1 \in 1 .. Len(seq)
         /\ \A n \in 1 .. Len(seq) : n = 1 \/ n - 1 \in 1 .. Len(Tail(seq))
         /\ \A n \in 1 .. Len(Tail(seq)) : Tail(seq)[n] = seq[n + 1]
<1>1. /\ Head(seq) = seq[1] /\ Head(seq) \in S
      /\ Len(seq) \in Nat /\ Len(seq) > 0
      /\ Tail(seq) \in Seq(S) /\ Len(Tail(seq)) = Len(seq) - 1
      /\ \A n \in 1 .. Len(Tail(seq)) : Tail(seq)[n] = seq[n + 1]
  BY HeadTailProperties, EmptySeq, LenProperties
<1>2. QED
  BY <1>1

\* A user who is told owns a slot nobody else does, and it has not found it yet.
LEMMA TakeInstalledKeeps ==
  ASSUME All, TakeInstalled
  PROVE  Ports' /\ Sent' /\ Book'
<1> USE DEF All, IInv
<1> DEFINE told == Head(ins_rsp)
           s    == told.says.slot
           later(i) == {n \in 1 .. Len(Tail(ins_rsp)) :
                          Tail(ins_rsp)[n].says.ok /\ Tail(ins_rsp)[n].says.slot = i}
<1>1. /\ ins_rsp # <<>> /\ ins_rsp' = Tail(ins_rsp)
      /\ IF told.says.ok
         THEN own' = [own EXCEPT ![s] = told.of] /\ older' = [older EXCEPT ![s] = coming]
         ELSE own' = own /\ older' = older
      /\ entry' = entry /\ lkp' = lkp /\ ins' = ins /\ wr' = wr /\ rm' = rm
      /\ lkp_rsp' = lkp_rsp
      /\ lkp_sent' = lkp_sent /\ ins_sent' = ins_sent /\ seen' = seen
  BY DEF TakeInstalled
<1>2. /\ 1 \in 1 .. Len(ins_rsp) /\ told = ins_rsp[1]
      /\ told \in [says : Placements, of : Requests]
      /\ Tail(ins_rsp) \in Seq([says : Placements, of : Requests])
      /\ \A n : n \in 1 .. Len(Tail(ins_rsp))
                  <=> n \in Nat /\ n >= 1 /\ n + 1 \in 1 .. Len(ins_rsp)
      /\ \A n \in 1 .. Len(ins_rsp) : n = 1 \/ n - 1 \in 1 .. Len(Tail(ins_rsp))
      /\ \A n \in 1 .. Len(Tail(ins_rsp)) : Tail(ins_rsp)[n] = ins_rsp[n + 1]
  <2>1. ins_rsp \in Seq([says : Placements, of : Requests])
    BY DEF Ports
  <2>2. QED
    BY <1>1, <2>1, Heads
<1> HIDE DEF told
<1>3. told.of \in Requests /\ s \in Slots /\ told.of # None
  BY <1>2, TableAssumption DEF Placements, Requests
<1>4. /\ \A i \in Slots : (early(i)' <=> early(i)) /\ (live(i)' <=> live(i))
      /\ \A i \in Slots : Told(i)' = later(i)
  BY <1>1 DEF early, live, Told
\* Who is told later: the places move up by one.
<1>5. \A i, n : n \in later(i) <=> n \in Nat /\ n >= 1 /\ n + 1 \in Told(i)
  <2>1. ASSUME NEW i, NEW n
        PROVE  n \in later(i) <=> n \in Nat /\ n >= 1 /\ n + 1 \in Told(i)
    <3>1. n + 1 \in Told(i) <=> /\ n + 1 \in 1 .. Len(ins_rsp)
                                /\ ins_rsp[n + 1].says.ok /\ ins_rsp[n + 1].says.slot = i
      BY DEF Told
    <3>2. QED
      BY <1>2, <3>1
  <2>2. QED
    BY <2>1
<1> HIDE DEF later
<1>6. \A i, n : n \in Told(i) => n = 1 \/ n - 1 \in later(i)
  <2>1. ASSUME NEW i, NEW n \in Told(i), n # 1 PROVE n - 1 \in later(i)
    <3>1. n \in 1 .. Len(ins_rsp)
      BY DEF Told
    <3>2. n - 1 \in Nat /\ n - 1 >= 1 /\ (n - 1) + 1 = n
      BY <1>2, <2>1, <3>1
    <3>3. QED
      BY <1>5, <3>2
  <2>2. QED
    BY <2>1
<1>7. \A i : 1 \in Told(i) <=> told.says.ok /\ s = i
  BY <1>2 DEF Told
<1>8. ASSUME told.says.ok
      PROVE  /\ own[s] = None /\ rm # s /\ later(s) = {}
             /\ \/ early(s) /\ told.of = ins
                \/ live(s) /\ entry[s] = told.of
             /\ own'[s] = told.of /\ \A i \in Slots : i # s => own'[i] = own[i]
             /\ older'[s] = coming /\ \A i \in Slots : i # s => older'[i] = older[i]
  <2>1. /\ own[s] = None /\ rm # s /\ Told(s) = {1}
        /\ \/ early(s) /\ told.of = ins
           \/ live(s) /\ entry[s] = told.of
    BY <1>2, <1>3, <1>7, <1>8 DEF Book, OneTold
  <2>2. later(s) = {}
    <3>1. ASSUME NEW n, n \in later(s) PROVE FALSE
      <4>1. n \in Nat /\ n >= 1 /\ n + 1 \in Told(s)
        BY <1>5, <3>1
      <4>2. n + 1 = 1
        BY <2>1, <4>1
      <4>3. QED
        BY <4>1, <4>2
    <3>2. QED
      BY <3>1
  <2>3. /\ own'[s] = told.of /\ \A i \in Slots : i # s => own'[i] = own[i]
        /\ older'[s] = coming /\ \A i \in Slots : i # s => older'[i] = older[i]
    BY <1>1, <1>3, <1>8 DEF Ports
  <2>4. QED
    BY <2>1, <2>2, <2>3
<1>9. ASSUME NEW i \in Slots, ~(told.says.ok /\ i = s)
      PROVE  /\ own'[i] = own[i] /\ older'[i] = older[i]
             /\ Told(i) # {} <=> later(i) # {}
  <2>1. own'[i] = own[i] /\ older'[i] = older[i]
    BY <1>1, <1>8, <1>9
  <2>2. 1 \notin Told(i)
    BY <1>7, <1>9
  <2>3. QED
    BY <1>5, <1>6, <2>1, <2>2
<1>10. Ports'
  <2>1. coming \in Nat
    BY LenProperties DEF coming, Ports
  <2>2. own' \in [Slots -> Requests \cup {None}] /\ older' \in [Slots -> Nat]
    BY <1>1, <1>3, <2>1 DEF Ports
  <2>3. QED
    BY <1>1, <1>2, <2>2 DEF Ports
<1>11. Sent'
  BY <1>1 DEF Sent
<1>12. OneTold'
  <2>1. ASSUME NEW i \in Slots, NEW n, n \in later(i)
        PROVE  /\ own'[i] = None /\ rm # i /\ later(i) = {n}
               /\ \/ early(i) /\ ins_rsp'[n].of = ins
                  \/ live(i) /\ entry[i] = ins_rsp'[n].of
    <3>1. n \in Nat /\ n >= 1 /\ n + 1 \in Told(i)
      BY <1>5, <2>1
    <3>2. ~(told.says.ok /\ i = s)
      BY <1>8, <2>1
    <3>3. own'[i] = own[i]
      BY <1>9, <3>2
    <3>4. /\ own[i] = None /\ rm # i /\ Told(i) = {n + 1}
          /\ \/ early(i) /\ ins_rsp[n + 1].of = ins
             \/ live(i) /\ entry[i] = ins_rsp[n + 1].of
      BY <3>1 DEF Book, OneTold
    <3>5. ins_rsp'[n] = ins_rsp[n + 1]
      <4>1. n + 1 \in 1 .. Len(ins_rsp)
        BY <3>1 DEF Told
      <4>2. QED
        BY <1>1, <1>2, <3>1, <4>1
    <3>6. later(i) = {n}
      <4>1. ASSUME NEW m, m \in later(i) PROVE m = n
        <5>1. m \in Nat /\ m + 1 = n + 1
          BY <1>5, <3>4, <4>1
        <5>2. QED
          BY <3>1, <5>1
      <4>2. QED
        BY <2>1, <4>1
    <3>7. QED
      BY <3>3, <3>4, <3>5, <3>6
  <2>2. QED
    BY <1>1, <1>4, <2>1 DEF OneTold
<1>13. EarlyOwn'
  <2>1. ASSUME NEW i \in Slots, early(i) PROVE own'[i] = ins \/ later(i) # {}
    <3>1. CASE told.says.ok /\ i = s
      <4>1. ~live(s)
        BY <2>1, <3>1, EarlyIs
      <4>2. QED
        BY <1>8, <3>1, <4>1
    <3>2. CASE ~(told.says.ok /\ i = s)
      BY <1>9, <2>1, <3>2 DEF Book, EarlyOwn
    <3>3. QED
      BY <3>1, <3>2
  <2>2. QED
    BY <1>1, <1>4, <2>1 DEF EarlyOwn
<1>14. Owned'
  <2>1. ASSUME NEW i \in Slots, own'[i] # None, ~early(i)
        PROVE  /\ live(i) /\ entry[i].key = own'[i].key
               /\ entry[i].val = own'[i].val \/ (wr # None /\ wr.slot = i)
    <3>1. CASE told.says.ok /\ i = s
      BY <1>8, <2>1, <3>1
    <3>2. CASE ~(told.says.ok /\ i = s)
      BY <1>9, <2>1, <3>2 DEF Book, Owned
    <3>3. QED
      BY <3>1, <3>2
  <2>2. QED
    BY <1>1, <1>4, <2>1 DEF Owned
<1>15. Writing'
  <2>1. ASSUME wr # None
        PROVE  /\ wr.slot \in Slots /\ live(wr.slot)
               /\ rm = wr.slot \/ (own'[wr.slot] # None /\ own'[wr.slot].val = wr.val)
    <3>1. wr.slot \in Slots
      BY <2>1 DEF Kinds
    <3>2. /\ live(wr.slot)
          /\ rm = wr.slot \/ (own[wr.slot] # None /\ own[wr.slot].val = wr.val)
      BY <2>1 DEF Book, Writing
    <3>3. CASE told.says.ok /\ wr.slot = s
      BY <1>8, <3>2, <3>3
    <3>4. CASE ~(told.says.ok /\ wr.slot = s)
      BY <1>9, <3>1, <3>2, <3>4
    <3>5. QED
      BY <3>1, <3>2, <3>3, <3>4
  <2>2. QED
    BY <1>1, <1>4, <2>1 DEF Writing
<1>16. Removing'
  <2>1. ASSUME rm # None PROVE rm \in Slots /\ live(rm) /\ own'[rm] = None
    <3>1. rm \in Slots /\ live(rm) /\ own[rm] = None
      BY <2>1 DEF Book, Removing, Ports
    <3>2. ~(told.says.ok /\ rm = s)
      BY <1>8
    <3>3. QED
      BY <1>9, <3>1, <3>2
  <2>2. QED
    BY <1>1, <1>4, <2>1 DEF Removing
<1>17. NoneLeaks'
  <2>1. ASSUME NEW i \in Slots, live(i) PROVE own'[i] # None \/ rm = i \/ later(i) # {}
    <3>1. CASE told.says.ok /\ i = s
      BY <1>3, <1>8, <3>1
    <3>2. CASE ~(told.says.ok /\ i = s)
      BY <1>9, <2>1, <3>2 DEF Book, NoneLeaks
    <3>3. QED
      BY <3>1, <3>2
  <2>2. QED
    BY <1>1, <1>4, <2>1 DEF NoneLeaks
<1>18. Confirmed'
  <2>1. ASSUME NEW i \in seen PROVE i \in Slots /\ own'[i] # None /\ ~early(i)
    <3>1. i \in Slots /\ own[i] # None /\ ~early(i)
      BY DEF Book, Confirmed, Ports
    <3>2. ~(told.says.ok /\ i = s)
      BY <1>8, <3>1
    <3>3. QED
      BY <1>9, <3>1, <3>2
  <2>2. QED
    BY <1>1, <1>4, <2>1 DEF Confirmed
<1>19. Unfound'
  <2>1. ASSUME NEW i \in Slots, early(i), own'[i] # None,
               NEW n \in 1 .. Len(lkp_rsp), n > older'[i]
        PROVE  ~(lkp_rsp[n].says.hit /\ lkp_rsp[n].says.slot = i)
    <3>1. CASE told.says.ok /\ i = s
      <4>1. older'[i] = coming
        BY <1>8, <3>1
      <4>2. Len(lkp_rsp) \in Nat /\ coming >= Len(lkp_rsp)
        BY LenProperties DEF coming, Ports
      <4>3. coming \in Int
        BY <4>2 DEF coming
      <4>4. QED
        BY <2>1, <4>1, <4>2, <4>3
    <3>2. CASE ~(told.says.ok /\ i = s)
      BY <1>9, <2>1, <3>2 DEF Book, Unfound
    <3>3. QED
      BY <3>1, <3>2
  <2>2. QED
    BY <1>1, <1>4, <2>1 DEF Unfound
<1>20. QED
  BY <1>10, <1>11, <1>12, <1>13, <1>14, <1>15, <1>16, <1>17, <1>18, <1>19 DEF Book

\* A lookup's response that confirms an owner's slot was given after the slot was
\* live: the answers put before the owner was told have all come.
LEMMA TakeFoundKeeps ==
  ASSUME All, TakeFound
  PROVE  Ports' /\ Sent' /\ Book'
<1> USE DEF All, IInv
<1> DEFINE r == Head(lkp_rsp)
           s == r.says.slot
<1>1. /\ lkp_rsp # <<>> /\ lkp_rsp' = Tail(lkp_rsp)
      /\ seen' = IF r.says.hit /\ own[s] # None /\ own[s].key = r.of /\ older[s] = 0
                 THEN seen \cup {s} ELSE seen
      /\ older' = [i \in Slots |-> IF older[i] = 0 THEN 0 ELSE older[i] - 1]
      /\ entry' = entry /\ lkp' = lkp /\ ins' = ins /\ wr' = wr /\ rm' = rm
      /\ ins_rsp' = ins_rsp /\ own' = own
      /\ lkp_sent' = lkp_sent /\ ins_sent' = ins_sent
  BY DEF TakeFound
<1>2. /\ 1 \in 1 .. Len(lkp_rsp) /\ r = lkp_rsp[1]
      /\ r \in [says : Findings, of : Key]
      /\ Tail(lkp_rsp) \in Seq([says : Findings, of : Key])
      /\ \A n : n \in 1 .. Len(Tail(lkp_rsp))
                  <=> n \in Nat /\ n >= 1 /\ n + 1 \in 1 .. Len(lkp_rsp)
      /\ \A n \in 1 .. Len(Tail(lkp_rsp)) : Tail(lkp_rsp)[n] = lkp_rsp[n + 1]
  <2>1. lkp_rsp \in Seq([says : Findings, of : Key])
    BY DEF Ports
  <2>2. QED
    BY <1>1, <2>1, Heads
<1> HIDE DEF r
<1>3. s \in Slots
  BY <1>2 DEF Findings
<1>4. /\ \A i \in Slots : (early(i)' <=> early(i)) /\ (live(i)' <=> live(i))
      /\ \A i \in Slots : Told(i)' = Told(i)
  BY <1>1 DEF early, live, Told
<1>5. \A i \in Slots : older[i] \in Nat
  BY DEF Ports
<1>6. Ports'
  <2>1. older' \in [Slots -> Nat]
    BY <1>1, <1>5
  <2>2. seen' \in SUBSET Slots
    BY <1>1, <1>3 DEF Ports
  <2>3. QED
    BY <1>1, <1>2, <2>1, <2>2 DEF Ports
<1>7. Sent'
  BY <1>1 DEF Sent
<1>8. OneTold' /\ EarlyOwn'
  BY <1>1, <1>4 DEF Book, OneTold, EarlyOwn
<1>9. Owned' /\ Writing' /\ Removing' /\ NoneLeaks'
  BY <1>1, <1>4 DEF Book, Owned, Writing, Removing, NoneLeaks, live, early
<1>10. Confirmed'
  <2>1. ASSUME r.says.hit, own[s] # None, older[s] = 0 PROVE ~early(s)
    BY <1>2, <1>3, <2>1 DEF Book, Unfound
  <2>2. \A i \in seen' : i \in Slots /\ own[i] # None /\ ~early(i)
    BY <1>1, <1>3, <2>1 DEF Book, Confirmed, Ports
  <2>3. QED
    BY <1>1, <1>4, <2>2 DEF Confirmed
<1>11. Unfound'
  <2>1. ASSUME NEW i \in Slots, early(i), own[i] # None,
               NEW n \in 1 .. Len(lkp_rsp'), n > older'[i]
        PROVE  ~(lkp_rsp'[n].says.hit /\ lkp_rsp'[n].says.slot = i)
    <3>1. n \in Nat /\ n + 1 \in 1 .. Len(lkp_rsp) /\ lkp_rsp'[n] = lkp_rsp[n + 1]
      BY <1>1, <1>2
    <3>2. n + 1 > older[i]
      BY <1>1, <1>5, <2>1, <3>1
    <3>3. QED
      BY <2>1, <3>1, <3>2 DEF Book, Unfound
  <2>2. QED
    BY <1>1, <1>4, <2>1 DEF Unfound
<1>12. QED
  BY <1>6, <1>7, <1>8, <1>9, <1>10, <1>11 DEF Book

------------------------------------------------------------------------------
\* The slot that an install is answered with at this edge.
fresh(i) == ins_goes /\ OkIn(entry, ins) /\ i = LowestIn(entry)

\* Nobody knows a slot before it is given.
LEMMA FreshIs ==
  ASSUME All, NEW i \in Slots, fresh(i)
  PROVE  /\ ~live(i) /\ ~early(i) /\ own[i] = None /\ Told(i) = {} /\ rm # i
         /\ i \notin seen /\ (wr # None => wr.slot # i)
<1> USE DEF All, IInv
<1>1. ~live(i) /\ ~early(i)
  <2>1. ~live(i)
    BY ResponsesAre DEF fresh
  <2>2. ins_sent = None
    BY DEF fresh, ins_goes, goes
  <2>3. QED
    BY <2>1, <2>2 DEF early
<1>2. own[i] = None /\ Told(i) = {}
  <2>1. own[i] = None
    BY <1>1 DEF Book, Owned
  <2>2. \A n \in Told(i) : FALSE
    BY <1>1 DEF Book, OneTold
  <2>3. QED
    BY <2>1, <2>2
<1>3. rm # i
  BY <1>1, TableAssumption DEF Book, Removing, Slots
<1>4. i \notin seen /\ (wr # None => wr.slot # i)
  BY <1>1, <1>2 DEF Book, Confirmed, Writing
<1>5. QED
  BY <1>1, <1>2, <1>3, <1>4

\* Told after an edge.
ToldNext(i) ==
  {n \in 1 .. Len(ins_rsp') : ins_rsp'[n].says.ok /\ ins_rsp'[n].says.slot = i}

\* The responses of an edge come after those on their way.
LEMMA Answers ==
  ASSUME All, Step
  PROVE  /\ ins_rsp' \in Seq([says : Placements, of : Requests])
         /\ lkp_rsp' \in Seq([says : Findings, of : Key])
         /\ \A i \in Slots : \A n \in Told(i) : n \in ToldNext(i) /\ ins_rsp'[n] = ins_rsp[n]
         /\ \A i \in Slots : ~fresh(i) => ToldNext(i) = Told(i)
         /\ \A i \in Slots : fresh(i) => ToldNext(i) = {Len(ins_rsp) + 1}
                                         /\ ins_rsp'[Len(ins_rsp) + 1].of = ins
         /\ \A n \in 1 .. Len(lkp_rsp') :
              \/ n \in 1 .. Len(lkp_rsp) /\ lkp_rsp'[n] = lkp_rsp[n]
              \/ lkp_rsp'[n].says.hit => live(lkp_rsp'[n].says.slot)
<1> USE DEF All, IInv
<1> DEFINE a == [says |-> PlacedIn(entry, ins), of |-> ins]
           b == [says |-> FoundIn(entry, lkp), of |-> lkp]
           last == Len(ins_rsp) + 1
<1>1. /\ ins_rsp' = IF ins_goes THEN Append(ins_rsp, a) ELSE ins_rsp
      /\ lkp_rsp' = IF lkp_goes THEN Append(lkp_rsp, b) ELSE lkp_rsp
  BY Responses DEF Step
<1>2. /\ ins_rsp \in Seq([says : Placements, of : Requests]) /\ Len(ins_rsp) \in Nat
      /\ lkp_rsp \in Seq([says : Findings, of : Key]) /\ Len(lkp_rsp) \in Nat
  BY LenProperties DEF Ports
<1>3. ins_goes => a \in [says : Placements, of : Requests]
  BY ResponsesAre DEF ins_goes, goes, Kinds
<1>4. lkp_goes => b \in [says : Findings, of : Key]
  BY ResponsesAre DEF lkp_goes, goes, Ports
<1>5. b.says.hit => live(b.says.slot)
  BY ResponsesAre
<1>6. a.of = ins /\ a.says.ok = OkIn(entry, ins)
      /\ (OkIn(entry, ins) => a.says.slot = LowestIn(entry))
  BY DEF PlacedIn
<1> HIDE DEF a, b
<1>7. /\ ins_rsp' \in Seq([says : Placements, of : Requests])
      /\ Len(ins_rsp') = IF ins_goes THEN last ELSE Len(ins_rsp)
      /\ \A n \in 1 .. Len(ins_rsp) : ins_rsp'[n] = ins_rsp[n]
      /\ ins_goes => ins_rsp'[last] = a
  <2>1. CASE ins_goes
    BY <1>1, <1>2, <1>3, <2>1, AppendProperties
  <2>2. CASE ~ins_goes
    BY <1>1, <1>2, <2>2
  <2>3. QED
    BY <2>1, <2>2
<1>8. /\ lkp_rsp' \in Seq([says : Findings, of : Key])
      /\ Len(lkp_rsp') = IF lkp_goes THEN Len(lkp_rsp) + 1 ELSE Len(lkp_rsp)
      /\ \A n \in 1 .. Len(lkp_rsp) : lkp_rsp'[n] = lkp_rsp[n]
      /\ lkp_goes => lkp_rsp'[Len(lkp_rsp) + 1] = b
  <2>1. CASE lkp_goes
    BY <1>1, <1>2, <1>4, <2>1, AppendProperties
  <2>2. CASE ~lkp_goes
    BY <1>1, <1>2, <2>2
  <2>3. QED
    BY <2>1, <2>2
<1>9. \A n \in 1 .. Len(lkp_rsp') :
        \/ n \in 1 .. Len(lkp_rsp) /\ lkp_rsp'[n] = lkp_rsp[n]
        \/ lkp_rsp'[n].says.hit => live(lkp_rsp'[n].says.slot)
  <2>1. ASSUME NEW n \in 1 .. Len(lkp_rsp'), n \notin 1 .. Len(lkp_rsp)
        PROVE  lkp_goes /\ n = Len(lkp_rsp) + 1
    BY <1>2, <1>8, <2>1
  <2>2. QED
    BY <1>5, <1>8, <2>1
<1>10. \A n : n \in 1 .. Len(ins_rsp') <=> n \in 1 .. Len(ins_rsp) \/ (ins_goes /\ n = last)
  BY <1>2, <1>7
<1>11. ~(last \in 1 .. Len(ins_rsp))
  BY <1>2
<1> HIDE DEF last
<1>12. \A i, n : n \in ToldNext(i) <=> n \in Told(i) \/ (fresh(i) /\ n = last)
  <2>1. ASSUME NEW i, NEW n PROVE n \in ToldNext(i) <=> n \in Told(i) \/ (fresh(i) /\ n = last)
    <3>1. CASE n \in 1 .. Len(ins_rsp)
      BY <1>7, <1>10, <1>11, <3>1 DEF Told, ToldNext
    <3>2. CASE n = last
      <4>1. n \in ToldNext(i) <=> ins_goes /\ a.says.ok /\ a.says.slot = i
        BY <1>7, <1>10, <1>11, <3>2 DEF ToldNext
      <4>2. n \notin Told(i)
        BY <1>11, <3>2 DEF Told
      <4>3. QED
        BY <1>6, <3>2, <4>1, <4>2 DEF fresh
    <3>3. CASE n \notin 1 .. Len(ins_rsp) /\ n # last
      BY <1>10, <3>3 DEF Told, ToldNext
    <3>4. QED
      BY <3>1, <3>2, <3>3
  <2>2. QED
    BY <2>1
<1>13. \A i \in Slots : \A n \in Told(i) : n \in ToldNext(i) /\ ins_rsp'[n] = ins_rsp[n]
  BY <1>7, <1>12 DEF Told
<1>14. \A i \in Slots : ~fresh(i) => ToldNext(i) = Told(i)
  BY <1>12
<1>15. ASSUME NEW i \in Slots, fresh(i)
       PROVE  ToldNext(i) = {last} /\ ins_rsp'[last].of = ins
  <2>1. Told(i) = {}
    BY <1>15, FreshIs
  <2>2. ToldNext(i) = {last}
    BY <1>12, <1>15, <2>1
  <2>3. QED
    BY <1>6, <1>7, <1>15, <2>2 DEF fresh
<1>16. QED
  BY <1>7, <1>8, <1>9, <1>13, <1>14, <1>15 DEF last

\* An edge that stalls leaves the table and its users as they are; a response
\* that went gives its slot early.
LEMMA StallKeeps ==
  ASSUME All, TableStep, stalled
  PROVE  Ports' /\ Sent' /\ Book'
<1> USE DEF All, IInv
<1>1. /\ entry' = entry /\ lkp' = lkp /\ ins' = ins /\ wr' = wr /\ rm' = rm
      /\ own' = own /\ older' = older /\ seen' = seen
      /\ lkp_sent' = IF lkp_goes THEN FoundIn(entry, lkp) ELSE lkp_sent
      /\ ins_sent' = IF ins_goes THEN PlacedIn(entry, ins) ELSE ins_sent
  BY Responses DEF TableStep, Step, lkp_answer, ins_answer
<1>2. /\ ins_rsp' \in Seq([says : Placements, of : Requests])
      /\ lkp_rsp' \in Seq([says : Findings, of : Key])
      /\ \A i \in Slots : \A n \in Told(i) : n \in ToldNext(i) /\ ins_rsp'[n] = ins_rsp[n]
      /\ \A i \in Slots : ~fresh(i) => ToldNext(i) = Told(i)
      /\ \A i \in Slots : fresh(i) => ToldNext(i) = {Len(ins_rsp) + 1}
                                      /\ ins_rsp'[Len(ins_rsp) + 1].of = ins
      /\ \A n \in 1 .. Len(lkp_rsp') :
           \/ n \in 1 .. Len(lkp_rsp) /\ lkp_rsp'[n] = lkp_rsp[n]
           \/ lkp_rsp'[n].says.hit => live(lkp_rsp'[n].says.slot)
  BY Answers DEF TableStep
<1>3. Ports'
  BY <1>1, <1>2 DEF Ports
<1>4. Sent'
  BY <1>1 DEF Sent, lkp_goes, ins_goes, goes
<1>5. /\ \A i \in Slots : early(i)' <=> early(i) \/ fresh(i)
      /\ \A i \in Slots : (live(i)' <=> live(i)) /\ Told(i)' = ToldNext(i)
  <2>1. ASSUME NEW i \in Slots PROVE early(i)' <=> early(i) \/ fresh(i)
    <3>1. CASE ins_goes
      <4>1. ~early(i)
        BY <3>1 DEF early, ins_goes, goes
      <4>2. PlacedIn(entry, ins) # None
        BY ResponsesAre, TableAssumption DEF Placements, Slots
      <4>3. early(i)' <=> PlacedIn(entry, ins).ok /\ PlacedIn(entry, ins).slot = i
        BY <1>1, <3>1, <4>2 DEF early
      <4>4. QED
        BY <3>1, <4>1, <4>3 DEF PlacedIn, fresh
    <3>2. CASE ~ins_goes
      BY <1>1, <3>2 DEF early, fresh
    <3>3. QED
      BY <3>1, <3>2
  <2>2. \A i \in Slots : (live(i)' <=> live(i)) /\ Told(i)' = ToldNext(i)
    BY <1>1 DEF live, Told, ToldNext
  <2>3. QED
    BY <2>1, <2>2
<1>6. OneTold'
  <2>1. ASSUME NEW i \in Slots, NEW n \in ToldNext(i)
        PROVE  /\ own[i] = None /\ rm # i /\ ToldNext(i) = {n}
               /\ \/ (early(i) \/ fresh(i)) /\ ins_rsp'[n].of = ins
                  \/ live(i) /\ entry[i] = ins_rsp'[n].of
    <3>1. CASE fresh(i)
      BY <1>2, <3>1, FreshIs
    <3>2. CASE ~fresh(i)
      BY <1>2, <3>2 DEF Book, OneTold
    <3>3. QED
      BY <3>1, <3>2
  <2>2. QED
    BY <1>1, <1>5, <2>1 DEF OneTold
<1>7. EarlyOwn'
  <2>1. ASSUME NEW i \in Slots, early(i) \/ fresh(i) PROVE own[i] = ins \/ ToldNext(i) # {}
    BY <1>2, <2>1 DEF Book, EarlyOwn
  <2>2. QED
    BY <1>1, <1>5, <2>1 DEF EarlyOwn
<1>8. Owned' /\ Writing' /\ Removing'
  <2>1. Owned'
    BY <1>1, <1>5 DEF Book, Owned
  <2>2. Writing' /\ Removing'
    BY <1>1 DEF Book, Writing, Removing, live
  <2>3. QED
    BY <2>1, <2>2
<1>9. NoneLeaks'
  <2>1. ASSUME NEW i \in Slots, live(i) PROVE own[i] # None \/ rm = i \/ ToldNext(i) # {}
    BY <1>2, <2>1 DEF Book, NoneLeaks
  <2>2. QED
    BY <1>1, <1>5, <2>1 DEF NoneLeaks
<1>10. Confirmed'
  <2>1. ASSUME NEW i \in seen PROVE i \in Slots /\ own[i] # None /\ ~early(i) /\ ~fresh(i)
    BY FreshIs DEF Book, Confirmed, Ports
  <2>2. QED
    BY <1>1, <1>5, <2>1 DEF Confirmed
<1>11. Unfound'
  <2>1. ASSUME NEW i \in Slots, early(i) \/ fresh(i), own[i] # None,
               NEW n \in 1 .. Len(lkp_rsp'), n > older[i]
        PROVE  ~(lkp_rsp'[n].says.hit /\ lkp_rsp'[n].says.slot = i)
    <3>1. early(i) /\ ~live(i)
      BY <2>1, FreshIs, EarlyIs
    <3>2. QED
      BY <1>2, <2>1, <3>1 DEF Book, Unfound
  <2>2. QED
    BY <1>1, <1>5, <2>1 DEF Unfound
<1>12. QED
  BY <1>3, <1>4, <1>6, <1>7, <1>8, <1>9, <1>10, <1>11 DEF Book

\* An edge that commits does what was asked of each slot: the install fills the slot
\* that was given, the write and the remove find theirs live.
LEMMA CommitKeeps ==
  ASSUME All, TableStep, ~stalled
  PROVE  Ports' /\ Sent' /\ Book'
<1> USE DEF All, IInv
<1>1. /\ entry' = [i \in Slots |-> Updated(i)]
      /\ lkp' = None /\ ins' = None /\ wr' = None /\ rm' = None
      /\ lkp_sent' = None /\ ins_sent' = None
      /\ own' = own /\ older' = older /\ seen' = seen
  BY DEF TableStep, Step
<1>2. /\ ins_rsp' \in Seq([says : Placements, of : Requests])
      /\ lkp_rsp' \in Seq([says : Findings, of : Key])
      /\ \A i \in Slots : \A n \in Told(i) : n \in ToldNext(i) /\ ins_rsp'[n] = ins_rsp[n]
      /\ \A i \in Slots : ~fresh(i) => ToldNext(i) = Told(i)
      /\ \A i \in Slots : fresh(i) => ToldNext(i) = {Len(ins_rsp) + 1}
                                      /\ ins_rsp'[Len(ins_rsp) + 1].of = ins
  BY Answers DEF TableStep
<1>3. Ports'
  BY <1>1, <1>2 DEF Ports
<1>4. Sent'
  BY <1>1 DEF Sent
<1>5. /\ \A i \in Slots : ~early(i)' /\ Told(i)' = ToldNext(i)
      /\ \A i \in Slots : live(i)' <=> Updated(i) # None
  BY <1>1 DEF early, live, Told, ToldNext
\* The slot of an install was given at this edge or an earlier one.
<1>6. \A i \in Slots : installs(i) <=> early(i) \/ fresh(i)
  <2>1. ASSUME NEW i \in Slots, installs(i) PROVE early(i) \/ fresh(i)
    <3>1. ins # None /\ OkIn(entry, ins) /\ i = LowestIn(entry)
      BY <2>1, Responses DEF installs
    <3>2. CASE ins_goes
      BY <3>1, <3>2 DEF fresh
    <3>3. CASE ~ins_goes
      <4>1. ins_sent # None
        BY <3>1, <3>3, LenProperties, TableAssumption
           DEF ins_goes, goes, stalled, stalls, Ports
      <4>2. ins_sent = PlacedIn(entry, ins)
        BY <4>1 DEF Sent
      <4>3. ins_sent.ok /\ ins_sent.slot = i
        BY <3>1, <4>2 DEF PlacedIn
      <4>4. QED
        BY <4>1, <4>3 DEF early
    <3>4. QED
      BY <3>2, <3>3
  <2>2. ASSUME NEW i \in Slots, early(i) \/ fresh(i) PROVE installs(i)
    <3>1. ins # None /\ OkIn(entry, ins) /\ i = LowestIn(entry)
      BY <2>2, EarlyIs DEF fresh, ins_goes, goes
    <3>2. QED
      BY <3>1, Responses DEF installs
  <2>3. QED
    BY <2>1, <2>2
<1>7. \A i \in Slots : installs(i) => ~live(i)
  BY <1>6, EarlyIs, FreshIs
\* What becomes of a slot.
<1>8. ASSUME NEW i \in Slots
      PROVE  /\ removes(i) => Updated(i) = None
             /\ installs(i) => Updated(i) = ins /\ ins \in Requests /\ ins # None
             /\ live(i) /\ rm # i =>
                  /\ Updated(i) # None /\ Updated(i).key = entry[i].key
                  /\ wr # None /\ wr.slot = i => Updated(i).val = wr.val
                  /\ ~(wr # None /\ wr.slot = i) => Updated(i) = entry[i]
             /\ ~live(i) /\ ~installs(i) => Updated(i) = None
  <2>1. None \notin Requests
    BY TableAssumption DEF Requests
  <2>2. removes(i) => Updated(i) = None
    BY DEF Updated
  <2>3. installs(i) => Updated(i) = ins /\ ins \in Requests /\ ins # None
    <3>1. ASSUME installs(i) PROVE ~removes(i) /\ ins # None
      BY <1>7, <3>1 DEF removes, installs
    <3>2. QED
      BY <3>1 DEF Updated, Kinds
  <2>4. ASSUME live(i), rm # i
        PROVE  /\ Updated(i) # None /\ Updated(i).key = entry[i].key
               /\ wr # None /\ wr.slot = i => Updated(i).val = wr.val
               /\ ~(wr # None /\ wr.slot = i) => Updated(i) = entry[i]
    <3>1. ~removes(i) /\ ~installs(i) /\ entry[i] \in Requests
      BY <1>7, <2>4 DEF removes, live, Kinds
    <3>2. CASE wr # None /\ wr.slot = i
      <4>1. Updated(i) = [entry[i] EXCEPT !.val = wr.val]
        BY <2>4, <3>1, <3>2 DEF Updated, writes
      <4>2. wr.val \in Val
        BY <3>2 DEF Kinds
      <4>3. /\ [entry[i] EXCEPT !.val = wr.val] \in Requests
            /\ [entry[i] EXCEPT !.val = wr.val].key = entry[i].key
            /\ [entry[i] EXCEPT !.val = wr.val].val = wr.val
        BY <3>1, <4>2 DEF Requests
      <4>4. QED
        BY <2>1, <3>2, <4>1, <4>3
    <3>3. CASE ~(wr # None /\ wr.slot = i)
      <4>1. Updated(i) = entry[i]
        BY <3>1, <3>3 DEF Updated, writes
      <4>2. QED
        BY <2>1, <3>1, <3>3, <4>1
    <3>4. QED
      BY <3>2, <3>3
  <2>5. ASSUME ~live(i), ~installs(i) PROVE Updated(i) = None
    BY <2>5 DEF Updated, removes, writes, live
  <2>6. QED
    BY <2>2, <2>3, <2>4, <2>5
<1>9. \A i \in Slots : i # None
  BY TableAssumption DEF Slots
<1>10. OneTold'
  <2>1. ASSUME NEW i \in Slots, NEW n \in ToldNext(i)
        PROVE  /\ own[i] = None /\ None # i /\ ToldNext(i) = {n}
               /\ Updated(i) # None /\ Updated(i) = ins_rsp'[n].of
    <3>1. CASE fresh(i)
      <4>1. own[i] = None /\ n = Len(ins_rsp) + 1 /\ ins_rsp'[n].of = ins
        BY <1>2, <3>1, FreshIs
      <4>2. Updated(i) = ins /\ ins # None
        BY <1>6, <1>8, <3>1
      <4>3. QED
        BY <1>2, <1>9, <3>1, <4>1, <4>2
    <3>2. CASE ~fresh(i)
      <4>1. n \in Told(i) /\ ToldNext(i) = Told(i) /\ ins_rsp'[n] = ins_rsp[n]
        BY <1>2, <3>2
      <4>2. /\ own[i] = None /\ rm # i /\ Told(i) = {n}
            /\ \/ early(i) /\ ins_rsp[n].of = ins
               \/ live(i) /\ entry[i] = ins_rsp[n].of
        BY <4>1 DEF Book, OneTold
      <4>3. CASE early(i) /\ ins_rsp[n].of = ins
        <5>1. Updated(i) = ins /\ ins # None
          BY <1>6, <1>8, <4>3
        <5>2. QED
          BY <1>9, <4>1, <4>2, <4>3, <5>1
      <4>4. CASE live(i) /\ entry[i] = ins_rsp[n].of
        <5>1. ~(wr # None /\ wr.slot = i)
          BY <4>2 DEF Book, Writing
        <5>2. Updated(i) = entry[i] /\ Updated(i) # None
          BY <1>8, <4>2, <4>4, <5>1
        <5>3. QED
          BY <1>9, <4>1, <4>2, <4>4, <5>2
      <4>5. QED
        BY <4>2, <4>3, <4>4
    <3>3. QED
      BY <3>1, <3>2
  <2>2. QED
    BY <1>1, <1>5, <2>1 DEF OneTold
<1>11. EarlyOwn'
  BY <1>5 DEF EarlyOwn
<1>12. Owned'
  <2>1. ASSUME NEW i \in Slots, own[i] # None
        PROVE  Updated(i) # None /\ Updated(i).key = own[i].key /\ Updated(i).val = own[i].val
    <3>1. rm # i
      BY <2>1, <1>9 DEF Book, Removing
    <3>2. CASE early(i)
      <4>1. own[i] = ins
        <5>1. ASSUME NEW n \in Told(i) PROVE FALSE
          BY <2>1 DEF Book, OneTold
        <5>2. QED
          BY <3>2, <5>1 DEF Book, EarlyOwn
      <4>2. Updated(i) = ins
        BY <1>6, <1>8, <3>2
      <4>3. QED
        BY <2>1, <4>1, <4>2
    <3>3. CASE ~early(i)
      <4>1. /\ live(i) /\ entry[i].key = own[i].key
            /\ entry[i].val = own[i].val \/ (wr # None /\ wr.slot = i)
        BY <2>1, <3>3 DEF Book, Owned
      <4>2. wr # None /\ wr.slot = i => own[i].val = wr.val
        BY <3>1 DEF Book, Writing
      <4>3. QED
        BY <1>8, <3>1, <4>1, <4>2
    <3>4. QED
      BY <3>2, <3>3
  <2>2. QED
    BY <1>1, <1>5, <2>1 DEF Owned
<1>13. Writing' /\ Removing'
  BY <1>1 DEF Writing, Removing
<1>14. NoneLeaks'
  <2>1. ASSUME NEW i \in Slots, Updated(i) # None PROVE own[i] # None \/ ToldNext(i) # {}
    <3>1. CASE installs(i)
      <4>1. CASE fresh(i)
        BY <1>2, <4>1
      <4>2. CASE early(i) /\ ~fresh(i)
        <5>1. own[i] = ins \/ Told(i) # {}
          BY <4>2 DEF Book, EarlyOwn
        <5>2. ins # None
          BY <3>1 DEF installs
        <5>3. QED
          BY <1>2, <4>2, <5>1, <5>2
      <4>3. QED
        BY <1>6, <3>1, <4>1, <4>2
    <3>2. CASE ~installs(i)
      <4>1. live(i) /\ rm # i
        BY <1>8, <2>1, <3>2 DEF removes
      <4>2. own[i] # None \/ Told(i) # {}
        BY <4>1 DEF Book, NoneLeaks
      <4>3. QED
        BY <1>2, <4>2
    <3>3. QED
      BY <3>1, <3>2
  <2>2. QED
    BY <1>1, <1>5, <2>1 DEF NoneLeaks
<1>15. Confirmed'
  <2>1. ASSUME NEW i \in seen PROVE i \in Slots /\ own[i] # None
    BY DEF Book, Confirmed, Ports
  <2>2. QED
    BY <1>1, <1>5, <2>1 DEF Confirmed
<1>16. Unfound'
  BY <1>5 DEF Unfound
<1>17. QED
  BY <1>3, <1>4, <1>10, <1>11, <1>12, <1>13, <1>14, <1>15, <1>16 DEF Book

------------------------------------------------------------------------------
LEMMA NextBook ==
  ASSUME WAITS
  PROVE  All /\ [Next]_vars => All'
<1> SUFFICES ASSUME All, [Next]_vars PROVE All'
  OBVIOUS
<1>1. IInv'
  BY NextKeeps DEF All
<1>2. Ports' /\ Sent' /\ Book'
  <2>1. CASE TableStep
    BY <2>1, StallKeeps, CommitKeeps
  <2>2. CASE \E r \in Requests : PutInstall(r)
    BY <2>2, PutInstallKeeps
  <2>3. CASE \E k \in Key : PutLookup(k)
    BY <2>3, PutLookupKeeps
  <2>4. CASE \E i \in Slots : PutRemove(i)
    BY WAITS, <2>4, PutRemoveKeeps
  <2>5. CASE \E i \in Slots : \E v \in Val : PutWrite(i, v)
    BY WAITS, <2>5, PutWriteKeeps
  <2>6. CASE TakeInstalled
    BY <2>6, TakeInstalledKeeps
  <2>7. CASE TakeFound
    BY <2>7, TakeFoundKeeps
  <2>8. CASE UNCHANGED vars
    <3>1. /\ entry' = entry /\ lkp' = lkp /\ ins' = ins /\ wr' = wr /\ rm' = rm
          /\ lkp_rsp' = lkp_rsp /\ ins_rsp' = ins_rsp
          /\ lkp_sent' = lkp_sent /\ ins_sent' = ins_sent
          /\ own' = own /\ older' = older /\ seen' = seen
      BY <2>8 DEF vars, tablevars
    <3>2. \A i \in Slots : (live(i)' <=> live(i)) /\ (early(i)' <=> early(i))
                           /\ Told(i)' = Told(i)
      BY <3>1 DEF live, early, Told
    <3>3. Ports' /\ Sent'
      BY <3>1 DEF All, Ports, Sent
    <3>4. Writing'
      BY <3>1 DEF All, Book, Writing, live
    <3>5. Removing'
      BY <3>1 DEF All, Book, Removing, live
    <3>6. OneTold' /\ EarlyOwn' /\ Owned' /\ NoneLeaks'
      BY <3>1, <3>2 DEF All, Book, OneTold, EarlyOwn, Owned, NoneLeaks
    <3>7. Confirmed'
      BY <3>1 DEF All, Book, Confirmed, early
    <3>8. Unfound'
      BY <3>1, <3>2 DEF All, Book, Unfound
    <3>9. QED
      BY <3>3, <3>4, <3>5, <3>6, <3>7, <3>8 DEF Book
  <2>9. QED
    BY <2>1, <2>2, <2>3, <2>4, <2>5, <2>6, <2>7, <2>8 DEF Next, Requests
<1>3. QED
  BY <1>1, <1>2 DEF All

\* Users who wait until a lookup has found their entry keep a book that agrees with
\* the table, whatever the table's size and its responses' depth: an owned slot holds
\* its owner's entry, and a live slot is owned, about to be told or about to go.
THEOREM BookAlwaysAgrees ==
  ASSUME WAITS
  PROVE  Spec => []BookAgrees
<1>1. Init => All
  BY InitHolds, InitBook DEF All
<1>2. All /\ [Next]_vars => All'
  BY WAITS, NextBook
<1>3. All => BookAgrees
  <2> SUFFICES ASSUME All, NEW i \in Slots
               PROVE  /\ own[i] # None /\ ~early(i) =>
                           /\ live(i) /\ entry[i].key = own[i].key
                           /\ entry[i].val = own[i].val \/ (wr # None /\ wr.slot = i)
                      /\ live(i) =>
                           \/ own[i] # None \/ rm = i
                           \/ \E n \in 1 .. Len(ins_rsp) :
                                ins_rsp[n].says.ok /\ ins_rsp[n].says.slot = i
    BY DEF BookAgrees
  <2>1. own[i] # None /\ ~early(i) =>
          /\ live(i) /\ entry[i].key = own[i].key
          /\ entry[i].val = own[i].val \/ (wr # None /\ wr.slot = i)
    BY DEF All, Book, Owned
  <2>2. live(i) => own[i] # None \/ rm = i \/ Told(i) # {}
    BY DEF All, Book, NoneLeaks
  <2>3. QED
    BY <2>1, <2>2 DEF Told
<1>4. QED
  BY <1>1, <1>2, <1>3, PTL DEF Spec

------------------------------------------------------------------------------
\* Entries of the right kinds, no two with the same key; and the table they are, by key.
Good(e) ==
  /\ e \in [Slots -> Requests \cup {None}]
  /\ \A i, j \in Slots : e[i] # None /\ e[j] # None /\ e[i].key = e[j].key => i = j

ByKeyIn(e) ==
  [k \in {e[i].key : i \in {j \in Slots : e[j] # None}} |->
     LET i == CHOOSE i \in HoldsIn(e, k) : TRUE IN [slot |-> i, val |-> e[i].val]]

LEMMA ByKeyIs ==
  ASSUME NEW e, Good(e)
  PROVE  /\ \A k : k \in DOMAIN ByKeyIn(e) <=> \E i \in Slots : e[i] # None /\ e[i].key = k
         /\ \A i \in Slots : e[i] # None =>
              /\ e[i].key \in DOMAIN ByKeyIn(e) /\ ByKeyIn(e)[e[i].key].slot = i
              /\ ByKeyIn(e)[e[i].key] = [slot |-> i, val |-> e[i].val]
<1>1. DOMAIN ByKeyIn(e) = {e[i].key : i \in {j \in Slots : e[j] # None}}
  BY DEF ByKeyIn
<1>2. \A k : k \in DOMAIN ByKeyIn(e) <=> \E i \in Slots : e[i] # None /\ e[i].key = k
  BY <1>1
<1>3. ASSUME NEW i \in Slots, e[i] # None
      PROVE  ByKeyIn(e)[e[i].key] = [slot |-> i, val |-> e[i].val]
  <2> DEFINE k == e[i].key
             c == CHOOSE j \in HoldsIn(e, k) : TRUE
  <2>1. c \in HoldsIn(e, k)
    BY <1>3 DEF HoldsIn
  <2>2. c = i
    BY <1>3, <2>1 DEF HoldsIn, Good
  <2>3. k \in {e[j].key : j \in {j \in Slots : e[j] # None}}
    BY <1>3
  <2>4. ByKeyIn(e)[k] = [slot |-> c, val |-> e[c].val]
    BY <2>3 DEF ByKeyIn
  <2>5. QED
    BY <2>2, <2>4
<1>4. \A i \in Slots : e[i] # None =>
        e[i].key \in DOMAIN ByKeyIn(e) /\ ByKeyIn(e)[e[i].key].slot = i
  <2>1. ASSUME NEW i \in Slots, e[i] # None PROVE e[i].key \in DOMAIN ByKeyIn(e)
    BY <1>2, <2>1
  <2>2. ASSUME NEW i \in Slots, e[i] # None PROVE ByKeyIn(e)[e[i].key].slot = i
    <3>1. ByKeyIn(e)[e[i].key] = [slot |-> i, val |-> e[i].val]
      BY <1>3, <2>2
    <3>2. QED
      BY <3>1
  <2>3. QED
    BY <2>1, <2>2
<1>5. QED
  BY <1>2, <1>3, <1>4

\* And nothing else is that table.
LEMMA IsByKey ==
  ASSUME NEW e, Good(e), NEW t, t = [k \in DOMAIN t |-> t[k]],
         \A k : k \in DOMAIN t <=> \E i \in Slots : e[i] # None /\ e[i].key = k,
         \A i \in Slots : e[i] # None => t[e[i].key] = [slot |-> i, val |-> e[i].val]
  PROVE  t = ByKeyIn(e)
<1>1. ByKeyIn(e) = [k \in DOMAIN ByKeyIn(e) |-> ByKeyIn(e)[k]]
  BY DEF ByKeyIn
<1>2. DOMAIN t = DOMAIN ByKeyIn(e)
  <2>1. \A k : k \in DOMAIN ByKeyIn(e) <=> \E i \in Slots : e[i] # None /\ e[i].key = k
    BY ByKeyIs
  <2>2. QED
    BY <2>1
<1>3. ASSUME NEW k \in DOMAIN t PROVE t[k] = ByKeyIn(e)[k]
  <2>1. PICK i \in Slots : e[i] # None /\ e[i].key = k
    OBVIOUS
  <2>2. ByKeyIn(e)[k] = [slot |-> i, val |-> e[i].val]
    BY <2>1, ByKeyIs
  <2>3. t[k] = [slot |-> i, val |-> e[i].val]
    BY <2>1
  <2>4. QED
    BY <2>2, <2>3
<1>4. QED
  BY <1>1, <1>2, <1>3

\* The slots no key has are the free ones.
LEMMA UsedIs ==
  ASSUME NEW e, Good(e)
  PROVE  /\ Sequential!Slots \ Sequential!UsedBy(ByKeyIn(e)) = FreeIn(e)
         /\ Sequential!Lowest(ByKeyIn(e)) = LowestIn(e)
         /\ \A r : Sequential!Fits(ByKeyIn(e), r) <=> OkIn(e, r)
<1> DEFINE t == ByKeyIn(e)
<1>1. \A i \in Slots : i \in Sequential!UsedBy(t) <=> e[i] # None
  <2>1. ASSUME NEW i \in Slots, e[i] # None PROVE i \in Sequential!UsedBy(t)
    <3>1. e[i].key \in DOMAIN t /\ t[e[i].key].slot = i
      BY <2>1, ByKeyIs
    <3> HIDE DEF t
    <3>2. QED
      BY <3>1 DEF Sequential!UsedBy
  <2>2. ASSUME NEW i \in Slots, i \in Sequential!UsedBy(t) PROVE e[i] # None
    <3>1. PICK k \in DOMAIN t : t[k].slot = i
      BY <2>2 DEF Sequential!UsedBy
    <3>2. PICK j \in Slots : e[j] # None /\ e[j].key = k
      BY <3>1, ByKeyIs
    <3>3. t[k].slot = j
      BY <3>2, ByKeyIs
    <3>4. QED
      BY <3>1, <3>2, <3>3
  <2>3. QED
    BY <2>1, <2>2
<1>2. \A k : k \in DOMAIN t <=> HoldsIn(e, k) # {}
  BY ByKeyIs DEF HoldsIn
<1> HIDE DEF t
<1>3. Sequential!Slots \ Sequential!UsedBy(t) = FreeIn(e)
  BY <1>1 DEF Sequential!Slots, Slots, FreeIn
<1>4. Sequential!Lowest(t) = LowestIn(e)
  BY <1>3 DEF Sequential!Lowest, LowestIn
<1>5. \A r : Sequential!Fits(t, r) <=> OkIn(e, r)
  BY <1>2, <1>3 DEF Sequential!Fits, OkIn
<1>6. QED
  BY <1>3, <1>4, <1>5 DEF t

\* The responses are the sequential table's.
LEMMA SaysTheSame ==
  ASSUME NEW e, Good(e)
  PROVE  /\ \A k : FoundIn(e, k) = Sequential!LookupSays(ByKeyIn(e), k)
         /\ \A r : PlacedIn(e, r) = Sequential!InstallSays(ByKeyIn(e), r)
<1> DEFINE t == ByKeyIn(e)
<1>1. ASSUME NEW k PROVE FoundIn(e, k) = Sequential!LookupSays(t, k)
  <2>1. CASE HoldsIn(e, k) = {}
    <3>1. k \notin DOMAIN t
      BY <2>1, ByKeyIs DEF HoldsIn
    <3>2. QED
      BY <2>1, <3>1 DEF FoundIn, Sequential!LookupSays
  <2>2. CASE HoldsIn(e, k) # {}
    <3> DEFINE i == CHOOSE i \in HoldsIn(e, k) : TRUE
    <3>1. i \in HoldsIn(e, k)
      BY <2>2
    <3>2. FoundIn(e, k) = [hit |-> TRUE, slot |-> i, val |-> e[i].val]
      BY <2>2 DEF FoundIn
    <3> HIDE DEF i
    <3>3. k \in DOMAIN t /\ t[k] = [slot |-> i, val |-> e[i].val]
      BY <3>1, ByKeyIs DEF HoldsIn
    <3> HIDE DEF t
    <3>4. Sequential!LookupSays(t, k) = [hit |-> TRUE, slot |-> t[k].slot, val |-> t[k].val]
      BY <3>3 DEF Sequential!LookupSays
    <3>5. QED
      BY <3>2, <3>3, <3>4
  <2>3. QED
    BY <2>1, <2>2
<1>2. ASSUME NEW r PROVE PlacedIn(e, r) = Sequential!InstallSays(t, r)
  <2>1. /\ Sequential!Fits(t, r) <=> OkIn(e, r)
        /\ Sequential!Lowest(t) = LowestIn(e)
    BY UsedIs
  <2>2. r.key \notin DOMAIN t <=> HoldsIn(e, r.key) = {}
    BY ByKeyIs DEF HoldsIn
  <2> HIDE DEF t
  <2>3. CASE OkIn(e, r)
    BY <2>1, <2>3 DEF PlacedIn, OkIn, Sequential!InstallSays
  <2>4. CASE ~OkIn(e, r)
    <3>1. (HoldsIn(e, r.key) = {} /\ FreeIn(e) = {}) = (HoldsIn(e, r.key) = {})
      BY <2>4 DEF OkIn
    <3>5. OkIn(e, r) = FALSE
      BY <2>4 DEF OkIn
    <3>2. PlacedIn(e, r) = [ok |-> FALSE, full |-> HoldsIn(e, r.key) = {}, slot |-> 0]
      BY <3>5, <3>1 DEF PlacedIn
    <3>3. Sequential!InstallSays(t, r) = [ok |-> FALSE, full |-> r.key \notin DOMAIN t, slot |-> 0]
      BY <2>1, <2>4 DEF Sequential!InstallSays, Sequential!Refused
    <3>4. QED
      BY <2>2, <3>2, <3>3
  <2>5. QED
    BY <2>3, <2>4
<1>3. QED
  BY <1>1, <1>2

\* What a slot holds after each request, and that the table by key follows it.
Installed(e, r) == IF r # None /\ OkIn(e, r) THEN [e EXCEPT ![LowestIn(e)] = r] ELSE e
Written(e, w)   == IF w # None THEN [e EXCEPT ![w.slot] = [e[w.slot] EXCEPT !.val = w.val]] ELSE e
Removed(e, i)   == IF i # None THEN [e EXCEPT ![i] = None] ELSE e

LEMMA InstallIs ==
  ASSUME NEW e, Good(e), NEW r \in Requests \cup {None}
  PROVE  /\ Good(Installed(e, r))
         /\ ByKeyIn(Installed(e, r)) = Sequential!Install(ByKeyIn(e), r)
<1> DEFINE t == ByKeyIn(e)
           s == LowestIn(e)
           f == [e EXCEPT ![s] = r]
<1>1. (Sequential!Fits(t, r) <=> OkIn(e, r)) /\ Sequential!Lowest(t) = s
  BY UsedIs
<1>2. CASE r = None \/ ~OkIn(e, r)
  BY <1>1, <1>2 DEF Installed, Sequential!Install
<1>3. CASE r # None /\ OkIn(e, r)
  <2> DEFINE u == [k \in DOMAIN t \cup {r.key} |->
                     IF k = r.key THEN [slot |-> s, val |-> r.val] ELSE t[k]]
  <2>1. Installed(e, r) = f /\ Sequential!Install(t, r) = u
    BY <1>1, <1>3 DEF Installed, Sequential!Install
  <2>2. s \in Slots /\ e[s] = None /\ r \in Requests
    BY <1>3, LowestIsFree DEF OkIn, FreeIn
  <2>3. \A i \in Slots : e[i] # None => e[i].key # r.key
    BY <1>3 DEF OkIn, HoldsIn
  <2>4. /\ \A k : k \in DOMAIN t <=> \E i \in Slots : e[i] # None /\ e[i].key = k
        /\ \A i \in Slots : e[i] # None =>
             /\ e[i].key \in DOMAIN t /\ t[e[i].key].slot = i
             /\ t[e[i].key] = [slot |-> i, val |-> e[i].val]
    BY ByKeyIs
  <2> HIDE DEF s, t
  <2>5. f \in [Slots -> Requests \cup {None}] /\ f[s] = r /\ \A i \in Slots \ {s} : f[i] = e[i]
    BY <2>2 DEF Good
  <2> HIDE DEF f
  <2>6. Good(f)
    BY <2>2, <2>3, <2>5 DEF Good
  <2>7. DOMAIN u = DOMAIN t \cup {r.key} /\ u = [k \in DOMAIN u |-> u[k]]
    OBVIOUS
  <2>8. /\ u[r.key] = [slot |-> s, val |-> r.val]
        /\ \A k \in DOMAIN t : k # r.key => u[k] = t[k]
    OBVIOUS
  <2> HIDE DEF u
  <2>9. \A k : k \in DOMAIN u <=> \E i \in Slots : f[i] # None /\ f[i].key = k
    <3>1. ASSUME NEW k \in DOMAIN u PROVE \E i \in Slots : f[i] # None /\ f[i].key = k
      BY <1>3, <2>2, <2>4, <2>5, <2>7
    <3>2. ASSUME NEW i \in Slots, f[i] # None PROVE f[i].key \in DOMAIN u
      BY <2>4, <2>5, <2>7, <3>2
    <3>3. QED
      BY <3>1, <3>2
  <2>10. ASSUME NEW i \in Slots, f[i] # None
         PROVE  u[f[i].key] = [slot |-> i, val |-> f[i].val]
    <3>1. CASE i = s
      BY <2>5, <2>8, <3>1
    <3>2. CASE i # s
      <4>1. f[i] = e[i] /\ e[i] # None
        BY <2>5, <2>10, <3>2
      <4>2. e[i].key \in DOMAIN t /\ e[i].key # r.key
        BY <2>3, <2>4, <4>1
      <4>3. u[e[i].key] = t[e[i].key]
        BY <2>8, <4>2
      <4>4. QED
        BY <2>4, <4>1, <4>3
    <3>3. QED
      BY <3>1, <3>2
  <2>11. u = ByKeyIn(f)
    BY <2>6, <2>7, <2>9, <2>10, IsByKey
  <2>12. QED
    BY <2>1, <2>6, <2>11 DEF t
<1>4. QED
  BY <1>2, <1>3

LEMMA WriteIs ==
  ASSUME NEW e, Good(e), NEW w \in [slot : Slots, val : Val] \cup {None},
         w # None => e[w.slot] # None
  PROVE  /\ Good(Written(e, w))
         /\ ByKeyIn(Written(e, w)) = Sequential!Write(ByKeyIn(e), w)
<1> DEFINE t == ByKeyIn(e)
<1>1. CASE w = None
  BY <1>1 DEF Written, Sequential!Write
<1>2. CASE w # None
  <2> DEFINE s == w.slot
             x == [e[s] EXCEPT !.val = w.val]
             f == [e EXCEPT ![s] = x]
             u == [k \in DOMAIN t |-> IF t[k].slot = s THEN [t[k] EXCEPT !.val = w.val] ELSE t[k]]
  <2>1. Written(e, w) = f /\ Sequential!Write(t, w) = u
    BY <1>2 DEF Written, Sequential!Write
  <2>2. s \in Slots /\ w.val \in Val /\ e[s] \in Requests
    BY <1>2 DEF Good
  <2>3. x \in Requests /\ x.key = e[s].key /\ x.val = w.val
    BY <2>2 DEF Requests
  <2>4. /\ \A k : k \in DOMAIN t <=> \E i \in Slots : e[i] # None /\ e[i].key = k
        /\ \A i \in Slots : e[i] # None =>
             /\ e[i].key \in DOMAIN t /\ t[e[i].key].slot = i
             /\ t[e[i].key] = [slot |-> i, val |-> e[i].val]
    BY ByKeyIs
  <2> HIDE DEF x, t
  <2>5. f \in [Slots -> Requests \cup {None}] /\ f[s] = x /\ \A i \in Slots \ {s} : f[i] = e[i]
    BY <2>2, <2>3 DEF Good
  <2>6. x # None /\ e[s] # None
    BY <1>2, <2>3, TableAssumption DEF Requests
  <2> HIDE DEF f
  <2>7. \A i \in Slots : (f[i] # None <=> e[i] # None) /\ (e[i] # None => f[i].key = e[i].key)
    BY <2>3, <2>5, <2>6
  <2>8. Good(f)
    BY <2>5, <2>7 DEF Good
  <2>9. DOMAIN u = DOMAIN t /\ u = [k \in DOMAIN u |-> u[k]]
    OBVIOUS
  <2>10. \A k \in DOMAIN t :
           u[k] = IF t[k].slot = s THEN [t[k] EXCEPT !.val = w.val] ELSE t[k]
    OBVIOUS
  <2> HIDE DEF u
  <2>11. \A k : k \in DOMAIN u <=> \E i \in Slots : f[i] # None /\ f[i].key = k
    BY <2>4, <2>7, <2>9
  <2>12. ASSUME NEW i \in Slots, f[i] # None
         PROVE  u[f[i].key] = [slot |-> i, val |-> f[i].val]
    <3>1. e[i] # None /\ f[i].key = e[i].key
      BY <2>7, <2>12
    <3>2. e[i].key \in DOMAIN t /\ t[e[i].key] = [slot |-> i, val |-> e[i].val]
      BY <2>4, <3>1
    <3>3. CASE i = s
      <4>1. u[e[i].key] = [t[e[i].key] EXCEPT !.val = w.val]
        BY <2>10, <3>2, <3>3
      <4>2. u[e[i].key] = [slot |-> i, val |-> w.val]
        BY <3>2, <4>1
      <4>3. QED
        BY <2>3, <2>5, <3>1, <3>3, <4>2
    <3>4. CASE i # s
      <4>1. f[i] = e[i] /\ t[e[i].key].slot = i
        BY <2>4, <2>5, <3>1, <3>4
      <4>2. u[e[i].key] = t[e[i].key]
        BY <2>10, <3>2, <3>4, <4>1
      <4>3. QED
        BY <3>1, <3>2, <4>1, <4>2
    <3>5. QED
      BY <3>3, <3>4
  <2>13. u = ByKeyIn(f)
    BY <2>8, <2>9, <2>11, <2>12, IsByKey
  <2>14. QED
    BY <2>1, <2>8, <2>13 DEF t
<1>3. QED
  BY <1>1, <1>2

LEMMA RemoveIs ==
  ASSUME NEW e, Good(e), NEW s \in Slots \cup {None}
  PROVE  ByKeyIn(Removed(e, s)) = Sequential!Remove(ByKeyIn(e), s)
<1> DEFINE t == ByKeyIn(e)
           f == Removed(e, s)
           u == [k \in {j \in DOMAIN t : t[j].slot # s} |-> t[k]]
<1>1. Sequential!Remove(t, s) = u
  BY DEF Sequential!Remove
<1>2. /\ \A k : k \in DOMAIN t <=> \E i \in Slots : e[i] # None /\ e[i].key = k
      /\ \A i \in Slots : e[i] # None =>
           /\ e[i].key \in DOMAIN t /\ t[e[i].key].slot = i
           /\ t[e[i].key] = [slot |-> i, val |-> e[i].val]
  BY ByKeyIs
<1> HIDE DEF t
<1>3. None \notin Slots
  BY TableAssumption DEF Slots
<1>4. f \in [Slots -> Requests \cup {None}] /\ \A i \in Slots : f[i] = IF i = s THEN None ELSE e[i]
  BY <1>3 DEF Good, Removed
<1> HIDE DEF f
<1>5. Good(f)
  BY <1>4 DEF Good
<1>6. u = [k \in DOMAIN u |-> u[k]]
  OBVIOUS
<1>7. /\ \A k : k \in DOMAIN u <=> k \in DOMAIN t /\ t[k].slot # s
      /\ \A k \in DOMAIN u : u[k] = t[k]
  OBVIOUS
<1> HIDE DEF u
<1>9. \A k : k \in DOMAIN u <=> \E i \in Slots : f[i] # None /\ f[i].key = k
  <2>1. ASSUME NEW k \in DOMAIN u PROVE \E i \in Slots : f[i] # None /\ f[i].key = k
    <3>1. PICK i \in Slots : e[i] # None /\ e[i].key = k
      BY <1>2, <1>7
    <3>2. i # s
      BY <1>2, <1>7, <3>1
    <3>3. QED
      BY <1>4, <3>1, <3>2
  <2>2. ASSUME NEW i \in Slots, f[i] # None PROVE f[i].key \in DOMAIN u
    <3>1. i # s /\ f[i] = e[i]
      BY <1>4, <2>2
    <3>2. QED
      BY <1>2, <1>7, <2>2, <3>1
  <2>3. QED
    BY <2>1, <2>2
<1>10. ASSUME NEW i \in Slots, f[i] # None
       PROVE  u[f[i].key] = [slot |-> i, val |-> f[i].val]
  <2>1. f[i] = e[i] /\ f[i].key \in DOMAIN u
    BY <1>4, <1>9, <1>10
  <2>2. QED
    BY <1>2, <1>7, <1>10, <2>1
<1>11. u = ByKeyIn(f)
  BY <1>5, <1>6, <1>9, <1>10, IsByKey
<1>12. QED
  BY <1>1, <1>11 DEF f, t

LEMMA ByKeyNow == ByKey = ByKeyIn(entry)
<1>1. \A i \in Slots : live(i) <=> entry[i] # None
  BY DEF live
<1>2. \A k : holds(k) = HoldsIn(entry, k)
  BY Responses
<1>3. QED
  BY <1>1, <1>2 DEF ByKey, ByKeyIn, live

LEMMA ByKeyThen == ByKey' = ByKeyIn(entry')
  BY DEF ByKey, ByKeyIn, live, holds, HoldsIn, Slots

\* The response a request got, at this edge or an earlier one.
LEMMA AnswersAre ==
  ASSUME All, TableStep, ~stalled
  PROVE  /\ lkp # None => lkp_answer = FoundIn(entry, lkp)
         /\ ins # None => ins_answer = PlacedIn(entry, ins)
<1> USE DEF All
<1>1. Len(lkp_rsp) \in Nat /\ Len(ins_rsp) \in Nat /\ DEPTH \in Nat
  BY LenProperties, TableAssumption DEF Ports
<1>2. ASSUME lkp # None PROVE lkp_answer = FoundIn(entry, lkp)
  <2>1. CASE lkp_goes
    BY <2>1, Responses DEF lkp_answer
  <2>2. CASE ~lkp_goes
    <3>1. lkp_sent # None
      BY <1>1, <1>2, <2>2 DEF lkp_goes, goes, stalled, stalls
    <3>2. QED
      BY <2>2, <3>1 DEF lkp_answer, Sent
  <2>3. QED
    BY <2>1, <2>2
<1>3. ASSUME ins # None PROVE ins_answer = PlacedIn(entry, ins)
  <2>1. CASE ins_goes
    BY <2>1, Responses DEF ins_answer
  <2>2. CASE ~ins_goes
    <3>1. ins_sent # None
      BY <1>1, <1>3, <2>2 DEF ins_goes, goes, stalled, stalls
    <3>2. QED
      BY <2>2, <3>1 DEF ins_answer, Sent
  <2>3. QED
    BY <2>1, <2>2
<1>4. QED
  BY <1>2, <1>3

\* At an edge that commits the slots change as the requests, done one after another,
\* change them: a write is to a slot that was live before the edge.
LEMMA CommitIs ==
  ASSUME All, TableStep, ~stalled
  PROVE  entry' = Removed(Written(Installed(entry, ins), wr), rm)
<1> USE DEF All, IInv
<1> DEFINE f == Installed(entry, ins)
           g == Written(f, wr)
           h == Removed(g, rm)
           s == LowestIn(entry)
<1>1. entry' = [i \in Slots |-> Updated(i)]
  BY DEF TableStep, Step
<1>2. entry \in [Slots -> Requests \cup {None}] /\ None \notin Slots
  BY TableAssumption DEF Kinds, Slots
<1>3. wr # None => wr.slot \in Slots /\ entry[wr.slot] # None
  BY DEF Kinds, Book, Writing, live
<1>4. rm # None => rm \in Slots /\ entry[rm] # None
  BY DEF Ports, Book, Removing, live
<1>5. ins # None /\ OkIn(entry, ins) => s \in Slots /\ entry[s] = None
  BY ResponsesAre DEF live
<1>6. DOMAIN f = Slots /\ \A i \in Slots :
        f[i] = IF ins # None /\ OkIn(entry, ins) /\ i = s THEN ins ELSE entry[i]
  BY <1>2, <1>5 DEF Installed
<1>7. f = [i \in Slots |-> f[i]]
  BY <1>2 DEF Installed
<1>8. \A i \in Slots : installs(i) <=> ins # None /\ OkIn(entry, ins) /\ i = s
  BY Responses DEF installs
<1> HIDE DEF f, s
<1>9. DOMAIN g = Slots /\ g = [i \in Slots |-> g[i]] /\ \A i \in Slots :
        g[i] = IF wr # None /\ i = wr.slot THEN [f[i] EXCEPT !.val = wr.val] ELSE f[i]
  BY <1>3, <1>6, <1>7 DEF Written
<1> HIDE DEF g
<1>10. h = [i \in Slots |-> h[i]] /\ \A i \in Slots : h[i] = IF i = rm THEN None ELSE g[i]
  BY <1>2, <1>4, <1>9 DEF Removed
<1> HIDE DEF h
<1>11. ASSUME NEW i \in Slots PROVE h[i] = Updated(i)
  <2>1. removes(i) <=> i = rm
    BY <1>2, <1>4 DEF removes, live
  <2>2. writes(i) <=> wr # None /\ i = wr.slot
    BY <1>3 DEF writes, live
  <2>3. CASE removes(i)
    BY <1>10, <2>1, <2>3 DEF Updated
  <2>4. CASE ~removes(i) /\ installs(i)
    <3>1. ~writes(i)
      BY <1>3, <1>5, <1>8, <2>2, <2>4
    <3>2. QED
      BY <1>6, <1>8, <1>9, <1>10, <2>1, <2>2, <2>4, <3>1 DEF Updated
  <2>5. CASE ~removes(i) /\ ~installs(i)
    <3>1. f[i] = entry[i] /\ h[i] = g[i]
      BY <1>6, <1>8, <1>10, <2>1, <2>5
    <3>2. QED
      BY <1>9, <2>2, <2>5, <3>1 DEF Updated
  <2>6. QED
    BY <2>3, <2>4, <2>5
<1>12. QED
  BY <1>1, <1>10, <1>11 DEF f, g, h

\* What an edge or a user does to the table by key.
TableAsPromised ==
  IF TableStep /\ ~stalled
  THEN Sequential!Cycle(lkp, ins, wr, rm, lkp_answer, ins_answer)
  ELSE UNCHANGED ByKey

LEMMA StepIsACycle ==
  ASSUME All, [Next]_vars
  PROVE  TableAsPromised
<1>1. Good(entry)
  BY DEF All, IInv, Kinds, UniqueKeys, Good, live
<1>2. CASE TableStep /\ ~stalled
  <2> DEFINE f == Installed(entry, ins)
             g == Written(f, wr)
  <2>1. /\ ins \in Requests \cup {None} /\ wr \in [slot : Slots, val : Val] \cup {None}
        /\ rm \in Slots \cup {None} /\ (wr # None => entry[wr.slot] # None)
    BY DEF All, IInv, Kinds, Ports, Book, Writing, live
  <2>2. Good(f) /\ ByKeyIn(f) = Sequential!Install(ByKeyIn(entry), ins)
    BY <1>1, <2>1, InstallIs
  <2>3. wr # None => f[wr.slot] # None
    <3>1. ASSUME wr # None PROVE f[wr.slot] # None
      <4>1. wr.slot \in Slots /\ entry[wr.slot] # None /\ (ins # None => ins \in Requests)
        BY <2>1, <3>1
      <4>2. entry \in [Slots -> Requests \cup {None}]
        BY <1>1 DEF Good
      <4>3. QED
        BY <4>1, <4>2 DEF Installed
    <3>2. QED
      BY <3>1
  <2> HIDE DEF f
  <2>4. Good(g) /\ ByKeyIn(g) = Sequential!Write(ByKeyIn(f), wr)
    BY <2>1, <2>2, <2>3, WriteIs
  <2> HIDE DEF g
  <2>5. ByKeyIn(Removed(g, rm)) = Sequential!Remove(ByKeyIn(g), rm)
    BY <2>1, <2>4, RemoveIs
  <2>6. entry' = Removed(g, rm)
    BY <1>2, CommitIs DEF f, g
  <2>7. ByKey' = Sequential!Remove(Sequential!Write(Sequential!Install(ByKey, ins), wr), rm)
    BY <2>2, <2>4, <2>5, <2>6, ByKeyNow, ByKeyThen
  <2>8. /\ lkp # None => lkp_answer = Sequential!LookupSays(ByKey, lkp)
        /\ ins # None => ins_answer = Sequential!InstallSays(ByKey, ins)
    BY <1>1, <1>2, AnswersAre, SaysTheSame, ByKeyNow
  <2>9. QED
    BY <1>2, <2>7, <2>8 DEF TableAsPromised, Sequential!Cycle
<1>3. CASE ~(TableStep /\ ~stalled)
  <2>1. entry' = entry
    BY <1>3 DEF Next, TableStep, Step, PutInstall, PutLookup, PutWrite, PutRemove,
                TakeInstalled, TakeFound, vars, tablevars
  <2>2. ByKey' = ByKey
    BY <2>1, ByKeyNow, ByKeyThen
  <2>3. QED
    BY <1>3, <2>2 DEF TableAsPromised
<1>4. QED
  BY <1>2, <1>3

\* For such users every edge that commits is a cycle of a sequential table, "lookup,
\* install, write, remove done one after another", and its responses are that
\* cycle's, also one that went at an earlier edge and has waited for the other since.
THEOREM TableIsSequential ==
  ASSUME WAITS
  PROVE  Spec => SequentialTable
<1>1. Init => All
  BY InitHolds, InitBook DEF All
<1>2. All /\ [Next]_vars => All'
  BY WAITS, NextBook
<1>3. Init => Sequential!Init
  <2> SUFFICES ASSUME Init PROVE ByKey = [k \in {} |-> None]
    BY DEF Sequential!Init
  <2>1. \A i \in Slots : ~live(i)
    BY DEF Init, TableInit, live
  <2>2. {entry[i].key : i \in {j \in Slots : live(j)}} = {}
    BY <2>1
  <2>3. QED
    BY <2>2 DEF ByKey
<1>4. All /\ [Next]_vars => [TableAsPromised]_vars
  BY StepIsACycle
<1>5. QED
  BY <1>1, <1>2, <1>3, <1>4, PTL DEF Spec, SequentialTable, TableAsPromised
==============================================================================
