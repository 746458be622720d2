---------------------------- MODULE MCFifos_proof ----------------------------
(***************************************************************************)
(* Proofs about the two FIFOs, for every DEPTH and every set of values.    *)
(*                                                                         *)
(* FwRvFifo, every DEPTH >= 1.  The inductive invariant is TypeOK and      *)
(* PointersAgree: without the pointer relation a push could overwrite a    *)
(* waiting value.                                                          *)
(*                                                                         *)
(* FwSramFifo beside it, every DEPTH >= 3.  PlacesAgree is not inductive:  *)
(* the head is in the stage only because the RAM is never left with values *)
(* while the stage has room (StageFilled).  It implements FifoCycle by     *)
(* itself, and moves the values fw_rv_fifo does (SameHeld).                *)
(***************************************************************************)
EXTENDS MCFifos, SequenceTheorems, TLAPS

------------------------------------------------------------------------------
(* fw_rv_fifo.                                                             *)

IInv == TypeOK /\ PointersAgree

\* Type correctness and the pointer relation hold initially.
LEMMA InitInv == Init => IInv
  BY DepthAssumption DEF Init, IInv, TypeOK, PointersAgree, Ahead, Slots

\* Every edge preserves them.
LEMMA NextInv == IInv /\ [Next]_vars => IInv'
<1> SUFFICES ASSUME IInv, [Next]_vars PROVE IInv'
  OBVIOUS
<1> USE DepthAssumption DEF IInv, TypeOK, PointersAgree, Slots
<1>1. ASSUME NEW d \in Val \cup {"idle"}, NEW ready \in BOOLEAN, Clock(d, ready)
      PROVE  IInv'
  <2> DEFINE push == d # "idle" /\ in_rdy
             pop  == ready /\ out_vld
  <2>1. /\ push \in BOOLEAN /\ pop \in BOOLEAN
        /\ push => d \in Val /\ count < DEPTH
        /\ pop => count > 0
    BY DEF in_rdy, out_vld
  <2>2. /\ mem' = IF push THEN [mem EXCEPT ![wr] = d] ELSE mem
        /\ wr' = IF push THEN next(wr) ELSE wr
        /\ rd' = IF pop THEN next(rd) ELSE rd
        /\ count' = (count + (IF push THEN 1 ELSE 0)) - (IF pop THEN 1 ELSE 0)
        /\ in_op' = IF d = "idle" \/ in_rdy THEN d ELSE "refused"
        /\ out_op' = IF ~ready THEN "idle" ELSE IF ~out_vld THEN "empty" ELSE out_data
    BY <1>1 DEF Clock
  <2> HIDE DEF push, pop
  <2>3. mem' \in [Slots -> Val] /\ wr' \in Slots /\ rd' \in Slots /\ count' \in 0 .. DEPTH
    BY <2>1, <2>2 DEF next
  <2>4. in_op' \in Val \cup {"idle", "refused"} /\ out_op' \in Val \cup {"idle", "empty"}
    BY <2>2 DEF out_data, in_rdy
  <2>5. wr' = Ahead(rd', count')
    BY <2>1, <2>2 DEF next, Ahead
  <2>6. QED
    BY <2>3, <2>4, <2>5 DEF Ahead
<1>2. CASE Reset
  BY <1>2 DEF Reset, Ahead
<1>3. CASE UNCHANGED vars
  BY <1>3 DEF vars, Ahead
<1>4. QED
  BY <1>1, <1>2, <1>3 DEF Next

\* Type correctness of the RTL FIFO, for every DEPTH: the count never leaves
\* 0..DEPTH, so the AW+1-bit counter of the code never wraps.
THEOREM TypeCorrect == Spec => []TypeOK
<1>1. IInv => TypeOK
  BY DEF IInv
<1>2. QED
  BY InitInv, NextInv, <1>1, PTL DEF Spec

\* The read and write pointers always stay `count` slots apart.
THEOREM PointersAlwaysAgree == Spec => []PointersAgree
<1>1. IInv => PointersAgree
  BY DEF IInv
<1>2. QED
  BY InitInv, NextInv, <1>1, PTL DEF Spec

\* An edge of the RTL is a cycle of the contract: what is held afterwards is
\* what was held, less a value taken at the head, plus a value put at the tail.
LEMMA ClockImplementsCycle ==
  ASSUME IInv, NEW d \in Val \cup {"idle"}, NEW ready \in BOOLEAN, Clock(d, ready)
  PROVE  Fifo!Cycle(d, ready)
<1> USE DepthAssumption DEF IInv, TypeOK, PointersAgree, Slots
<1> DEFINE push == d # "idle" /\ in_rdy
           pop  == ready /\ out_vld
           kept  == IF ready /\ Held # <<>> THEN Tail(Held) ELSE Held
           added == IF d # "idle" /\ Len(Held) < DEPTH THEN <<d>> ELSE <<>>
<1>1. Held \in Seq(Val) /\ Len(Held) = count /\ DOMAIN Held = 1 .. count
  BY DEF Held, Ahead
<1>2. (Held # <<>>) = out_vld /\ (Len(Held) < DEPTH) = in_rdy
  BY <1>1 DEF out_vld, in_rdy
<1>3. out_vld => Head(Held) = out_data
  BY <1>1 DEF out_vld, out_data, Held, Ahead
<1>4. /\ push \in BOOLEAN /\ pop \in BOOLEAN
      /\ push => d \in Val /\ count < DEPTH
      /\ pop => count > 0
  BY DEF in_rdy, out_vld
<1>5. /\ mem' = IF push THEN [mem EXCEPT ![wr] = d] ELSE mem
      /\ rd' = IF pop THEN next(rd) ELSE rd
      /\ count' = (count + (IF push THEN 1 ELSE 0)) - (IF pop THEN 1 ELSE 0)
  BY DEF Clock
<1>6. Held' = kept \o added
  <2>1. kept = IF pop THEN Tail(Held) ELSE Held
    BY <1>2
  <2>2. added = IF push THEN <<d>> ELSE <<>>
    BY <1>2
  <2>a. kept \in Seq(Val) /\ added \in Seq(Val)
    BY <1>1, <1>4, <2>1, <2>2
  <2> HIDE DEF push, pop, kept, added
  <2>b. Len(kept) = IF pop THEN count - 1 ELSE count
    BY <1>1, <1>4, <2>1, <2>2
  <2>c. \A i \in 1 .. Len(kept) : kept[i] = mem[Ahead(rd', i - 1)]
    <3>1. CASE pop
      <4>1. kept = Tail(Held) /\ rd' = next(rd) /\ Len(kept) = count - 1
        BY <3>1, <2>1, <2>b, <1>5
      <4>2. ASSUME NEW i \in 1 .. count - 1 PROVE kept[i] = Held[i + 1] /\ i + 1 \in 1 .. count
        BY <4>1, <1>1
      <4>3. ASSUME NEW i \in 1 .. count - 1 PROVE Ahead(rd, i) = Ahead(next(rd), i - 1)
        BY DEF Ahead, next
      <4>4. QED
        BY <4>1, <4>2, <4>3 DEF Held
    <3>2. CASE ~pop
      BY <3>2, <2>1, <2>b, <1>5, <1>1 DEF Held
    <3>3. QED
      BY <3>1, <3>2
  <2>d. Len(added) = IF push THEN 1 ELSE 0
    BY <2>2
  <2>3. kept \o added \in Seq(Val) /\ Len(kept \o added) = count' /\ count' \in Nat
    <3>1. count' \in Nat /\ Len(kept) + Len(added) = count'
      BY <1>4, <1>5, <2>b, <2>d
    <3>2. QED
      BY <2>a, <3>1, ConcatProperties
  <2>4. ASSUME NEW i \in 1 .. count' PROVE Held'[i] = (kept \o added)[i]
    <3>0. Held'[i] = mem'[Ahead(rd', i - 1)] /\ count' \in Nat
      BY <1>4, <1>5 DEF Held
    <3>1. CASE i <= Len(kept)
      <4>1. (kept \o added)[i] = kept[i]
        BY <3>1, <3>0, <2>a
      <4>2. kept[i] = mem[Ahead(rd', i - 1)]
        BY <3>1, <3>0, <2>c, <2>b, <1>1
      <4>3. Ahead(rd', i - 1) # wr \/ ~push
        BY <3>1, <3>0, <1>4, <1>5, <2>b DEF Ahead, next
      <4>4. mem'[Ahead(rd', i - 1)] = mem[Ahead(rd', i - 1)]
        BY <4>3, <1>5, <1>4
      <4>5. QED
        BY <3>0, <4>1, <4>2, <4>4
    <3>2. CASE i > Len(kept)
      <4>1. push /\ i = Len(kept) + 1 /\ Len(kept) \in Nat
        BY <3>2, <3>0, <1>4, <1>5, <2>b, <2>d, <2>a
      <4>2. (kept \o added)[i] = d
        BY <4>1, <2>2, <2>a
      <4>3. Ahead(rd', i - 1) = wr
        BY <4>1, <1>4, <1>5, <2>b DEF Ahead, next
      <4>4. mem'[wr] = d
        BY <4>1, <1>4, <1>5
      <4>5. QED
        BY <3>0, <4>2, <4>3, <4>4
    <3>3. QED
      <4>1. i <= Len(kept) \/ i > Len(kept)
        BY <2>a, <3>0
      <4>2. QED
        BY <3>1, <3>2, <4>1, Zenon
  <2>5. Held' \in Seq(Val) /\ Len(Held') = count'
    <3>1. \A i \in 1 .. count' : (kept \o added)[i] \in Val
      BY <2>3, ElementOfSeq
    <3>2. \A i \in 1 .. count' : Held'[i] \in Val
      BY <2>4, <3>1
    <3>3. Held' = [i \in 1 .. count' |-> Held'[i]]
      BY DEF Held
    <3>4. QED
      <4> HIDE DEF Held
      <4>1. QED
        <5>1. Held' \in [1 .. count' -> Val]
          BY <3>2, <3>3
        <5>2. QED
          BY <2>3, <5>1
  <2>6. QED
    <3> HIDE DEF Held
    <3>1. QED
      BY <2>3, <2>4, <2>5, SeqEqual
<1>7. in_op' = Fifo!Written(d)
  BY <1>2 DEF Clock, Fifo!Written, Fifo!Idle, Fifo!Refused, in_rdy
<1>8. out_op' = Fifo!Taken(ready)
  BY <1>2, <1>3 DEF Clock, Fifo!Taken, Fifo!Idle, Fifo!Empty, out_vld
<1>9. QED
  BY <1>6, <1>7, <1>8 DEF Fifo!Cycle, Fifo!Idle

\* The RTL FIFO implements the per-cycle channel contract, for every DEPTH >= 1
\* and every set of values.
THEOREM RvFifoImplementsFifoCycle == Spec => FifoSpec
<1>1. Init => Fifo!Init
  BY DEF Init, Fifo!Init, Held, Fifo!Idle
<1>2. ASSUME IInv, [Next]_vars PROVE [Fifo!Next]_(Fifo!vars)
  <2>1. ASSUME NEW d \in Val \cup {"idle"}, NEW ready \in BOOLEAN, Clock(d, ready)
        PROVE  Fifo!Next
    BY <1>2, <2>1, ClockImplementsCycle DEF Fifo!Next, Fifo!Idle
  <2>2. CASE Reset
    BY <2>2 DEF Reset, Fifo!Next, Fifo!Reset, Fifo!Idle, Held
  <2>3. CASE UNCHANGED vars
    BY <2>3 DEF vars, Fifo!vars, Held, Ahead
  <2>4. QED
    BY <1>2, <2>1, <2>2, <2>3 DEF Next
<1>3. QED
  BY InitInv, NextInv, <1>1, <1>2, PTL DEF Spec, Fifo!Spec, FifoSpec

------------------------------------------------------------------------------
(* fw_sram_fifo.                                                           *)

\* Values stay in the RAM only while the stage, with the read in flight, is full.
StageFilled == s_rc # 0 => s_oc + S!bit(s_fl) = 2

RamInv == RamFits /\ S!TypeOK /\ S!PlacesAgree /\ StageFilled

LEMMA RamInit == RamFits /\ S!Init => RamInv
<1> SUFFICES ASSUME RamFits, S!Init PROVE RamInv
  OBVIOUS
<1>1. DEPTH \in Nat /\ DEPTH >= 3 /\ 0 \in S!Words
  BY DepthAssumption DEF RamFits, S!Words, S!RAM_WORDS
<1>2. S!TypeOK
  <2>1. 0 \in 0 .. DEPTH /\ 0 \in 0 .. S!RAM_WORDS /\ 0 \in 0 .. 2
    BY <1>1 DEF S!RAM_WORDS
  <2>2. QED
    BY <1>1, <2>1, Zenon DEF S!Init, S!TypeOK
<1>3. S!PlacesAgree /\ StageFilled
  BY <1>1
  DEF S!Init, S!PlacesAgree, S!PlacesAddUp, S!HeadInStage, S!RamPointersAgree,
      S!RAM_WORDS, S!bit, S!out_vld, StageFilled
<1>4. QED
  BY <1>2, <1>3 DEF RamInv

\* What moves at an edge, and how many values the stage then has, less a push.
Pushes(d)   == d # "idle" /\ S!in_rdy
Pops(ready) == ready /\ S!out_vld
Fed(ready)  == (s_oc - (IF Pops(ready) THEN 1 ELSE 0)) + (IF s_fl THEN 1 ELSE 0)
Room(ready) == Fed(ready) <= 1
Reads(ready) == s_rc # 0 /\ Room(ready)
Direct(d, ready) == Pushes(d) /\ s_rc = 0 /\ Room(ready)
Stores(d, ready) == Pushes(d) /\ ~Direct(d, ready)

LEMMA Edge ==
  ASSUME NEW d, NEW ready, S!Clock(d, ready)
  PROVE  /\ s_count' = (s_count + (IF Pushes(d) THEN 1 ELSE 0))
                       - (IF Pops(ready) THEN 1 ELSE 0)
         /\ s_oc' = Fed(ready) + (IF Direct(d, ready) THEN 1 ELSE 0)
         /\ s_fl' = Reads(ready)
         /\ s_rc' = (s_rc + (IF Stores(d, ready) THEN 1 ELSE 0))
                    - (IF Reads(ready) THEN 1 ELSE 0)
         /\ s_wp' = IF Stores(d, ready) THEN S!next(s_wp) ELSE s_wp
         /\ s_rp' = IF Reads(ready) THEN S!next(s_rp) ELSE s_rp
         /\ s_mem' = IF Stores(d, ready) THEN [s_mem EXCEPT ![s_wp] = d] ELSE s_mem
         /\ s_ram_rd' = IF Reads(ready) THEN s_mem[s_rp] ELSE s_ram_rd
  BY Zenon
  DEF S!Clock, S!Ram, S!fed, S!kept, S!room, S!direct, S!issue, S!to_ram, S!bit,
      Pushes, Pops, Fed, Room, Reads, Direct, Stores

LEMMA StageEdge ==
  ASSUME NEW d, NEW ready, S!Clock(d, ready)
  PROVE  LET kept == s_oc - (IF Pops(ready) THEN 1 ELSE 0)
         IN  /\ s_ob0' = IF Direct(d, ready) /\ Fed(ready) = 0 THEN d
                         ELSE IF s_fl /\ kept = 0 THEN s_ram_rd
                         ELSE IF Pops(ready) THEN s_ob1 ELSE s_ob0
             /\ s_ob1' = IF Direct(d, ready) /\ Fed(ready) # 0 THEN d
                         ELSE IF s_fl /\ kept # 0 THEN s_ram_rd ELSE s_ob1
  BY Zenon
  DEF S!Clock, S!stage0, S!stage1, S!fed, S!kept, S!room, S!direct, S!bit,
      Pushes, Pops, Fed, Room, Direct

\* The counts that hold in RamInv.
Counts ==
  /\ DEPTH \in Nat /\ DEPTH >= 3
  /\ s_count \in 0 .. DEPTH /\ s_oc \in 0 .. 2 /\ s_fl \in BOOLEAN
  /\ s_rc \in 0 .. DEPTH - 1
  /\ s_count = s_oc + (IF s_fl THEN 1 ELSE 0) + s_rc
  /\ s_oc + (IF s_fl THEN 1 ELSE 0) <= 2
  /\ s_count # 0 => s_oc > 0
  /\ s_rc # 0 => s_oc + (IF s_fl THEN 1 ELSE 0) = 2

LEMMA CountsHold == RamInv => Counts
  BY DepthAssumption
  DEF RamInv, RamFits, StageFilled, S!TypeOK, S!PlacesAgree, S!PlacesAddUp,
      S!HeadInStage, S!RAM_WORDS, S!out_vld, S!bit, Counts

\* The decisions of a cycle are Booleans, and never more than the places hold.
LEMMA Decisions ==
  ASSUME Counts, NEW d, NEW ready \in BOOLEAN
  PROVE  /\ Pushes(d) \in BOOLEAN /\ Pops(ready) \in BOOLEAN
         /\ Pushes(d) => s_count < DEPTH
         /\ Pops(ready) => s_count > 0
         /\ Fed(ready) \in 0 .. 2 /\ s_rc # 0 => Fed(ready) # 0
         /\ Fed(ready) = s_count - s_rc - (IF Pops(ready) THEN 1 ELSE 0)
         /\ Reads(ready) \in BOOLEAN
         /\ Direct(d, ready) \in BOOLEAN /\ Stores(d, ready) \in BOOLEAN
<1>1. /\ Pushes(d) \in BOOLEAN /\ Pops(ready) \in BOOLEAN
      /\ Pushes(d) => s_count < DEPTH
      /\ Pops(ready) => s_count > 0
  BY DEF Counts, Pushes, Pops, S!in_rdy, S!out_vld
<1>2. /\ Fed(ready) \in 0 .. 2 /\ s_rc # 0 => Fed(ready) # 0
      /\ Fed(ready) = s_count - s_rc - (IF Pops(ready) THEN 1 ELSE 0)
  BY <1>1 DEF Counts, Fed
<1>3. QED
  BY <1>1, <1>2 DEF Reads, Direct, Stores, Room

\* The stage is filled again at the edge that takes from it.
LEMMA CountsKept ==
  ASSUME Counts, NEW d, NEW ready \in BOOLEAN, S!Clock(d, ready)
  PROVE  Counts'
<1> USE Edge, Decisions
<1>1. s_fl' \in BOOLEAN /\ (s_fl' <=> Reads(ready))
  OBVIOUS
<1>2. CASE Room(ready) /\ s_rc = 0
  BY <1>1, <1>2 DEF Counts, Reads, Direct, Stores, Room
<1>3. CASE Room(ready) /\ s_rc # 0
  BY <1>1, <1>3 DEF Counts, Reads, Direct, Stores, Room
<1>4. CASE ~Room(ready)
  BY <1>1, <1>4 DEF Counts, Reads, Direct, Stores, Room
<1>5. QED
  BY <1>2, <1>3, <1>4

\* The word k places after the next one to read.
WordAfter(k) == IF s_rp + k < DEPTH - 1 THEN s_rp + k ELSE (s_rp + k) - (DEPTH - 1)

\* The RAM's queue: its words in place.
Words ==
  /\ s_rp \in 0 .. DEPTH - 2 /\ s_wp \in 0 .. DEPTH - 2
  /\ s_wp = WordAfter(s_rc)
  /\ s_mem \in [0 .. DEPTH - 2 -> Val]

LEMMA WordsHold == RamInv => Words
<1> SUFFICES ASSUME RamInv PROVE Words
  OBVIOUS
<1>1. DEPTH \in Nat /\ DEPTH >= 3 /\ S!RAM_WORDS = DEPTH - 1 /\ S!Words = 0 .. DEPTH - 2
  BY DepthAssumption DEF RamInv, RamFits, S!Words, S!RAM_WORDS
<1>2. QED
  BY <1>1 DEF RamInv, S!TypeOK, S!PlacesAgree, S!RamPointersAgree, Words, WordAfter

LEMMA WordsKept ==
  ASSUME Counts, Words, NEW d \in Val \cup {"idle"}, NEW ready \in BOOLEAN,
         S!Clock(d, ready)
  PROVE  Words'
<1> USE Decisions
<1>1. /\ s_rc' = (s_rc + (IF Stores(d, ready) THEN 1 ELSE 0))
                 - (IF Reads(ready) THEN 1 ELSE 0)
      /\ s_wp' = IF Stores(d, ready) THEN S!next(s_wp) ELSE s_wp
      /\ s_rp' = IF Reads(ready) THEN S!next(s_rp) ELSE s_rp
      /\ s_mem' = IF Stores(d, ready) THEN [s_mem EXCEPT ![s_wp] = d] ELSE s_mem
  BY Edge
<1>2. Reads(ready) => s_rc # 0
  BY DEF Reads
<1>3. Stores(d, ready) => s_count < DEPTH /\ d \in Val /\ s_rc < DEPTH - 1
  BY DEF Stores, Pushes, Counts
<1>4. /\ s_rp' \in 0 .. DEPTH - 2 /\ s_wp' \in 0 .. DEPTH - 2
      /\ s_mem' \in [0 .. DEPTH - 2 -> Val]
  BY <1>1, <1>3 DEF Counts, Words, S!next, S!RAM_WORDS
<1>5. s_wp' = WordAfter(s_rc)'
  BY <1>1, <1>2, <1>3 DEF Counts, Words, WordAfter, S!next, S!RAM_WORDS
<1>6. QED
  BY <1>4, <1>5 DEF Words

\* Data and port types.
LEMMA RamDataTyped ==
  ASSUME RamInv, NEW d \in Val \cup {"idle"}, NEW ready \in BOOLEAN,
         S!Clock(d, ready) \/ S!Reset(d, ready)
  PROVE  /\ s_ob0' \in Val /\ s_ob1' \in Val /\ s_ram_rd' \in Val
         /\ s_mem' \in [S!Words -> Val]
         /\ s_in' \in Val \cup {"idle", "refused"}
         /\ s_out' \in Val \cup {"idle", "empty"}
<1>1. /\ s_ob0 \in Val /\ s_ob1 \in Val /\ s_ram_rd \in Val
      /\ s_mem \in [S!Words -> Val] /\ s_rp \in S!Words
  BY DEF RamInv, S!TypeOK
<1> DEFINE push == d # "idle" /\ S!in_rdy
           pop  == ready /\ S!out_vld
<1>2. push \in BOOLEAN /\ pop \in BOOLEAN /\ (push => d \in Val)
      /\ (S!direct(push, pop) => push) /\ (S!to_ram(push, pop) => push)
  BY DEF S!in_rdy, S!out_vld, S!direct, S!to_ram
<1>3. /\ s_ob0' = S!stage0(d, push, pop) /\ s_ob1' = S!stage1(d, push, pop)
      /\ S!Ram(S!to_ram(push, pop), d, S!issue(pop))
  BY DEF S!Clock, S!Reset
<1> HIDE DEF push, pop
<1>4. s_ob0' \in Val /\ s_ob1' \in Val
  BY <1>1, <1>2, <1>3, Zenon DEF S!stage0, S!stage1
<1>5. s_ram_rd' \in Val /\ s_mem' \in [S!Words -> Val]
  BY <1>1, <1>2, <1>3 DEF S!Ram
<1>6. /\ s_in' \in Val \cup {"idle", "refused"}
      /\ s_out' \in Val \cup {"idle", "empty"}
  BY <1>1 DEF S!Clock, S!Reset, S!out_data
<1>7. QED
  BY <1>4, <1>5, <1>6

\* RamInv is inductive.
LEMMA RamNext ==
  ASSUME RamInv, NEW d \in Val \cup {"idle"}, NEW ready \in BOOLEAN,
         S!Clock(d, ready) \/ S!Reset(d, ready)
  PROVE  RamInv'
<1>1. RamFits' /\ DEPTH \in Nat /\ DEPTH >= 3 /\ S!RAM_WORDS = DEPTH - 1
      /\ S!Words = 0 .. DEPTH - 2
  BY DepthAssumption DEF RamInv, RamFits, S!Words, S!RAM_WORDS
<1>2. Counts' /\ Words' => RamInv'
  <2>1. Counts' /\ Words' => S!TypeOK'
    BY <1>1, RamDataTyped DEF S!TypeOK, Counts, Words
  <2>2. Counts' /\ Words' => S!PlacesAgree' /\ StageFilled'
    BY <1>1 DEF S!PlacesAgree, S!PlacesAddUp, S!HeadInStage, S!RamPointersAgree,
       S!bit, S!out_vld, StageFilled, Counts, Words, WordAfter
  <2>3. QED
    BY <1>1, <2>1, <2>2 DEF RamInv
<1>3. CASE S!Clock(d, ready)
  BY <1>2, <1>3, CountsHold, WordsHold, CountsKept, WordsKept
<1>4. CASE S!Reset(d, ready)
  <2>1. s_mem' \in [0 .. DEPTH - 2 -> Val]
    BY <1>1, RamDataTyped
  <2>2. /\ s_count' = 0 /\ s_oc' = 0 /\ s_fl' = FALSE /\ s_rp' = 0 /\ s_wp' = 0
        /\ s_rc' = 0
    BY <1>4 DEF S!Reset
  <2>3. Counts'
    <3>1. s_fl' \in BOOLEAN /\ ~s_fl'
      BY <2>2
    <3>2. QED
      BY <1>1, <2>2, <3>1 DEF Counts
  <2>4. Words'
    BY <1>1, <2>1, <2>2 DEF Words, WordAfter
  <2>5. QED
    BY <1>2, <2>3, <2>4
<1>5. QED
  BY <1>3, <1>4

\* The i-th of the values held, wherever it is.
RamHeld(i) ==
  IF i <= s_oc THEN IF i = 1 THEN s_ob0 ELSE s_ob1
  ELSE IF i = s_oc + 1 /\ s_fl THEN s_ram_rd
  ELSE s_mem[WordAfter((i - s_oc - (IF s_fl THEN 1 ELSE 0)) - 1)]

\* An edge moves every value one place on if one is taken, wherever it was and
\* is, and puts the pushed one behind them.
LEMMA RamMoves ==
  ASSUME Counts, Words, NEW d \in Val \cup {"idle"}, NEW ready \in BOOLEAN,
         S!Clock(d, ready), NEW i \in 1 .. s_count'
  PROVE  LET gone == IF Pops(ready) THEN 1 ELSE 0
         IN  RamHeld(i)' = IF i <= s_count - gone THEN RamHeld(i + gone) ELSE d
<1> DEFINE gone == IF Pops(ready) THEN 1 ELSE 0
           f    == Fed(ready)
           kept == s_oc - gone
<1> SUFFICES RamHeld(i)' = IF i <= s_count - gone THEN RamHeld(i + gone) ELSE d
  OBVIOUS
<1> USE Decisions
<1>1. /\ s_count' = (s_count + (IF Pushes(d) THEN 1 ELSE 0)) - gone
      /\ s_oc' = f + (IF Direct(d, ready) THEN 1 ELSE 0)
      /\ s_fl' \in BOOLEAN /\ (s_fl' <=> Reads(ready))
      /\ s_rp' = IF Reads(ready) THEN S!next(s_rp) ELSE s_rp
      /\ s_mem' = IF Stores(d, ready) THEN [s_mem EXCEPT ![s_wp] = d] ELSE s_mem
      /\ s_ram_rd' = IF Reads(ready) THEN s_mem[s_rp] ELSE s_ram_rd
      /\ s_ob0' = IF Direct(d, ready) /\ f = 0 THEN d
                  ELSE IF s_fl /\ kept = 0 THEN s_ram_rd
                  ELSE IF Pops(ready) THEN s_ob1 ELSE s_ob0
      /\ s_ob1' = IF Direct(d, ready) /\ f # 0 THEN d
                  ELSE IF s_fl /\ kept # 0 THEN s_ram_rd ELSE s_ob1
  <2>1. s_fl' \in BOOLEAN /\ (s_fl' <=> Reads(ready))
    BY Edge
  <2>2. QED
    BY <2>1, Edge, StageEdge, Zenon
<1>2. /\ f = kept + (IF s_fl THEN 1 ELSE 0) /\ kept \in 0 .. 2 /\ f \in 0 .. 2
      /\ f = s_count - s_rc - gone /\ gone \in 0 .. 1
      /\ i \in Nat /\ i >= 1 /\ kept = s_oc - gone /\ (gone = 1 <=> Pops(ready))
  BY DEF Counts, Fed
<1>3. /\ Direct(d, ready) => s_rc = 0 /\ f <= 1 /\ Pushes(d) /\ ~Stores(d, ready)
      /\ Stores(d, ready) => Pushes(d) /\ s_rc < DEPTH - 1
      /\ Pushes(d) /\ ~Direct(d, ready) => Stores(d, ready)
      /\ Reads(ready) => s_rc # 0 /\ f <= 1
  BY DEF Counts, Direct, Stores, Pushes, Reads, Room
<1>4. /\ RamHeld(i)' = IF i <= s_oc' THEN IF i = 1 THEN s_ob0' ELSE s_ob1'
                      ELSE IF i = s_oc' + 1 /\ s_fl' THEN s_ram_rd'
                      ELSE s_mem'[WordAfter((i - s_oc - (IF s_fl THEN 1 ELSE 0)) - 1)']
      /\ WordAfter((i - s_oc - (IF s_fl THEN 1 ELSE 0)) - 1)'
         = LET k == (i - s_oc' - (IF s_fl' THEN 1 ELSE 0)) - 1
           IN  IF s_rp' + k < DEPTH - 1 THEN s_rp' + k ELSE (s_rp' + k) - (DEPTH - 1)
  BY DEF RamHeld, WordAfter
<1> HIDE DEF gone, f, kept
<1>5. CASE i <= kept
  <2>1. RamHeld(i)' = IF i = 1 THEN s_ob0' ELSE s_ob1'
    BY <1>1, <1>2, <1>4, <1>5
  <2>2. RamHeld(i + gone) = IF i + gone = 1 THEN s_ob0 ELSE s_ob1
    BY <1>2, <1>5 DEF RamHeld, Counts
  <2>3. i <= s_count - gone
    BY <1>2, <1>5 DEF Counts
  <2>4. QED
    BY <1>1, <1>2, <1>3, <1>5, <2>1, <2>2, <2>3 DEF Counts
<1>6. CASE s_fl /\ i = kept + 1
  <2>1. RamHeld(i)' = IF i = 1 THEN s_ob0' ELSE s_ob1'
    BY <1>1, <1>2, <1>4, <1>6
  <2>2. RamHeld(i + gone) = s_ram_rd
    BY <1>2, <1>6 DEF RamHeld, Counts
  <2>3. i <= s_count - gone
    BY <1>2, <1>6 DEF Counts
  <2>4. QED
    BY <1>1, <1>2, <1>3, <1>6, <2>1, <2>2, <2>3 DEF Counts
<1>7. CASE i > f /\ i <= s_count - gone
  <2>1. RamHeld(i + gone) = s_mem[WordAfter((i - f) - 1)]
    BY <1>2, <1>7 DEF RamHeld, Counts
  <2>2. s_rc # 0 /\ s_oc' = f /\ s_fl' \in BOOLEAN /\ (s_fl' <=> Reads(ready))
    BY <1>1, <1>2, <1>3, <1>7 DEF Counts
  <2>3. CASE Reads(ready) /\ i = f + 1
    BY <1>1, <1>2, <1>4, <2>1, <2>2, <2>3 DEF WordAfter, Counts, Words
  <2>4. CASE ~(Reads(ready) /\ i = f + 1)
    <3>1. RamHeld(i)' = s_mem'[WordAfter((i - f) - 1)]
      BY <1>1, <1>2, <1>4, <1>7, <2>2, <2>4
      DEF WordAfter, Counts, Words, S!next, S!RAM_WORDS
    <3>2. Stores(d, ready) => WordAfter((i - f) - 1) # s_wp
      BY <1>2, <1>3, <1>7, <2>2 DEF WordAfter, Counts, Words
    <3>3. WordAfter((i - f) - 1) \in 0 .. DEPTH - 2
      BY <1>2, <1>7, <2>2 DEF WordAfter, Counts, Words
    <3>4. QED
      BY <1>1, <1>7, <2>1, <3>1, <3>2, <3>3 DEF Words
  <2>5. QED
    BY <2>3, <2>4
<1>8. CASE i > s_count - gone
  <2>1. Pushes(d) /\ i = f + s_rc + 1
    BY <1>1, <1>2, <1>8 DEF Counts
  <2>2. ~(i <= s_count - gone)
    BY <1>2, <1>8 DEF Counts
  <2>3. CASE Direct(d, ready)
    <3>1. i = s_oc' /\ (i = 1 <=> f = 0)
      BY <1>1, <1>2, <1>3, <2>1, <2>3
    <3>2. RamHeld(i)' = IF i = 1 THEN s_ob0' ELSE s_ob1'
      BY <1>1, <1>2, <1>4, <3>1
    <3>3. QED
      BY <1>1, <2>2, <2>3, <3>1, <3>2
  <2>4. CASE ~Direct(d, ready)
    <3>1. Stores(d, ready) /\ s_oc' = f
      BY <1>1, <1>2, <1>3, <2>1, <2>4
    <3>2. RamHeld(i)' = s_mem'[WordAfter(s_rc)]
      BY <1>1, <1>2, <1>3, <1>4, <2>1, <3>1
      DEF WordAfter, Counts, Words, S!next, S!RAM_WORDS
    <3>3. s_mem'[s_wp] = d
      BY <1>1, <3>1 DEF Words
    <3>4. QED
      BY <2>2, <3>2, <3>3 DEF Words
  <2>5. QED
    BY <2>3, <2>4
<1>9. i <= kept \/ (s_fl /\ i = kept + 1) \/ (i > f /\ i <= s_count - gone)
      \/ i > s_count - gone
  BY <1>1, <1>2 DEF Counts
<1>10. QED
  BY <1>5, <1>6, <1>7, <1>8, <1>9

\* The values held, oldest first: the stage, the read in flight, the RAM.
RamQueue == [i \in 1 .. s_count |-> RamHeld(i)]

RamFifo == INSTANCE FifoCycle WITH q <- RamQueue, wr <- s_in, rd <- s_out

\* The queue's ends are what the ports show.
RamQueueFacts ==
  /\ RamQueue \in Seq(Val) /\ Len(RamQueue) = s_count /\ s_count \in 0 .. DEPTH
  /\ \A i \in 1 .. s_count : RamQueue[i] = RamHeld(i)
  /\ (RamQueue # <<>>) <=> S!out_vld
  /\ (Len(RamQueue) < DEPTH) <=> S!in_rdy
  /\ S!out_vld => Head(RamQueue) = S!out_data

LEMMA RamQueueIs == RamInv => RamQueueFacts
<1> SUFFICES ASSUME RamInv PROVE RamQueueFacts
  OBVIOUS
<1>1. Counts /\ Words /\ s_count \in Nat /\ DEPTH \in Nat
  BY CountsHold, WordsHold DEF Counts
<1>2. ASSUME NEW i \in 1 .. s_count PROVE RamHeld(i) \in Val
  <2>1. s_ob0 \in Val /\ s_ob1 \in Val /\ s_ram_rd \in Val
    BY DEF RamInv, S!TypeOK
  <2> DEFINE k == (i - s_oc - (IF s_fl THEN 1 ELSE 0)) - 1
  <2>2. ~(i <= s_oc) /\ ~(i = s_oc + 1 /\ s_fl) => WordAfter(k) \in 0 .. DEPTH - 2
    BY <1>1 DEF Counts, Words, WordAfter
  <2>3. ~(i <= s_oc) /\ ~(i = s_oc + 1 /\ s_fl) => s_mem[WordAfter(k)] \in Val
    BY <1>1, <2>2 DEF Words
  <2> HIDE DEF k
  <2>4. QED
    BY <2>1, <2>3 DEF RamHeld, k
<1>3. /\ RamQueue \in Seq(Val) /\ Len(RamQueue) = s_count
      /\ \A i \in 1 .. s_count : RamQueue[i] = RamHeld(i)
  BY <1>1, <1>2 DEF RamQueue
<1>4. s_count # 0 => Head(RamQueue) = s_ob0
  <2> HAVE s_count # 0
  <2>1. 1 \in 1 .. s_count /\ s_oc >= 1
    BY <1>1 DEF Counts
  <2>2. RamHeld(1) = s_ob0
    BY <1>1, <2>1 DEF RamHeld, Counts
  <2>3. Head(RamQueue) = RamQueue[1]
    BY <1>1, <1>3, <2>1
  <2>4. QED
    BY <1>3, <2>1, <2>2, <2>3
<1>5. (RamQueue # <<>>) <=> s_count # 0
  BY <1>1, <1>3
<1>6. (s_count < DEPTH) <=> s_count # DEPTH
  BY <1>1 DEF Counts
<1>7. QED
  BY <1>1, <1>3, <1>4, <1>5, <1>6 DEF RamQueueFacts, Counts, S!out_vld, S!in_rdy, S!out_data

\* An edge of it is a cycle of the contract.
LEMMA RamClockImplementsCycle ==
  ASSUME RamInv, NEW d \in Val \cup {"idle"}, NEW ready \in BOOLEAN, S!Clock(d, ready)
  PROVE  RamFifo!Cycle(d, ready)
<1> DEFINE gone  == IF Pops(ready) THEN 1 ELSE 0
           kept  == IF ready /\ RamQueue # <<>> THEN Tail(RamQueue) ELSE RamQueue
           added == IF d # "idle" /\ Len(RamQueue) < DEPTH THEN <<d>> ELSE <<>>
<1>1. RamInv' /\ Counts /\ Words
  BY RamNext, CountsHold, WordsHold
<1>2. /\ RamQueue \in Seq(Val) /\ Len(RamQueue) = s_count /\ s_count \in Nat
      /\ \A i \in 1 .. s_count : RamQueue[i] = RamHeld(i)
  BY <1>1, RamQueueIs DEF RamQueueFacts, Counts
<1>3. kept = IF Pops(ready) THEN Tail(RamQueue) ELSE RamQueue
  BY RamQueueIs DEF RamQueueFacts, Pops
<1>4. added = IF Pushes(d) THEN <<d>> ELSE <<>>
  BY RamQueueIs DEF RamQueueFacts, Pushes
<1>5. /\ s_count' = (s_count + (IF Pushes(d) THEN 1 ELSE 0)) - gone
      /\ Pushes(d) => d \in Val
      /\ gone \in 0 .. 1 /\ (gone = 1 <=> Pops(ready)) /\ gone <= s_count
  BY <1>1, <1>2, Edge, Decisions DEF Pushes
<1> HIDE DEF gone, kept, added
<1>6. /\ kept \in Seq(Val) /\ Len(kept) = s_count - gone
      /\ \A i \in 1 .. s_count - gone : kept[i] = RamHeld(i + gone)
  <2>1. CASE Pops(ready)
    <3>1. kept = Tail(RamQueue) /\ gone = 1 /\ s_count >= 1
      BY <1>2, <1>3, <1>5, <2>1
    <3>2. /\ kept \in Seq(Val) /\ Len(kept) = s_count - 1
          /\ \A i \in 1 .. s_count - 1 : kept[i] = RamQueue[i + 1]
      BY <1>2, <3>1
    <3>3. \A i \in 1 .. s_count - 1 : i + 1 \in 1 .. s_count
      BY <1>2
    <3>4. QED
      BY <1>2, <3>1, <3>2, <3>3
  <2>2. CASE ~Pops(ready)
    <3>1. kept = RamQueue /\ gone = 0
      BY <1>3, <1>5, <2>2
    <3>2. QED
      BY <1>2, <3>1
  <2>3. QED
    BY <2>1, <2>2
<1>7. added \in Seq(Val) /\ Len(added) = (IF Pushes(d) THEN 1 ELSE 0) /\ (Pushes(d) => added[1] = d)
  BY <1>4, <1>5
<1>8. /\ kept \o added \in Seq(Val) /\ Len(kept \o added) = s_count'
      /\ \A i \in 1 .. s_count' : (kept \o added)[i] = IF i <= s_count - gone THEN RamHeld(i + gone) ELSE d
  <2>1. /\ kept \o added \in Seq(Val) /\ Len(kept \o added) = Len(kept) + Len(added)
        /\ \A i \in 1 .. Len(kept) + Len(added) :
              (kept \o added)[i] = IF i <= Len(kept) THEN kept[i] ELSE added[i - Len(kept)]
    BY <1>6, <1>7, ConcatProperties
  <2>2. Len(kept) + Len(added) = s_count'
    BY <1>2, <1>5, <1>6, <1>7
  <2>3. ASSUME NEW i \in 1 .. s_count'
        PROVE  (kept \o added)[i] = IF i <= s_count - gone THEN RamHeld(i + gone) ELSE d
    <3>1. CASE i <= s_count - gone
      <4>1. i \in 1 .. s_count - gone
        BY <1>2, <1>5, <3>1
      <4>2. QED
        BY <1>6, <2>1, <2>2, <3>1, <4>1
    <3>2. CASE ~(i <= s_count - gone)
      <4>1. Pushes(d) /\ i - Len(kept) = 1
        BY <1>2, <1>5, <1>6, <3>2
      <4>2. QED
        BY <1>6, <1>7, <2>1, <2>2, <3>2, <4>1
    <3>3. QED
      BY <3>1, <3>2
  <2>4. QED
    BY <2>1, <2>2, <2>3
<1>9. /\ RamQueue' \in Seq(Val) /\ Len(RamQueue') = s_count'
      /\ \A i \in 1 .. s_count' : RamQueue'[i] = RamHeld(i)'
  <2>1. RamQueueFacts'
    BY <1>1, RamQueueIs, PTL
  <2>2. QED
    BY <2>1 DEF RamQueueFacts
<1>10. RamQueue' = kept \o added
  <2>1. ASSUME NEW i \in 1 .. s_count' PROVE RamQueue'[i] = (kept \o added)[i]
    <3>1. RamHeld(i)' = IF i <= s_count - gone THEN RamHeld(i + gone) ELSE d
      BY <1>1, RamMoves DEF gone
    <3>2. QED
      BY <1>8, <1>9, <3>1
  <2>2. QED
    BY <1>8, <1>9, <2>1, SeqEqual
<1>11. s_in' = RamFifo!Written(d)
  BY RamQueueIs DEF RamQueueFacts, S!Clock, RamFifo!Written, RamFifo!Idle, RamFifo!Refused
<1>12. s_out' = RamFifo!Taken(ready)
  BY RamQueueIs DEF RamQueueFacts, S!Clock, RamFifo!Taken, RamFifo!Idle, RamFifo!Empty
<1>13. QED
  BY <1>10, <1>11, <1>12 DEF RamFifo!Cycle, RamFifo!Idle, kept, added

\* fw_sram_fifo by itself implements the per-cycle channel contract, for every
\* DEPTH >= 3 and every set of values: where a value waits, and that a RAM read
\* takes a cycle, shows at neither port.
THEOREM RamFifoImplementsFifoCycle ==
  ASSUME RamFits
  PROVE  S!Spec => RamFifo!Spec
<1>1. S!Init => RamInv /\ RamFifo!Init
  <2>1. S!Init => RamInv
    BY RamInit
  <2>2. S!Init => RamFifo!Init
    BY DEF S!Init, RamFifo!Init, RamFifo!Idle, RamQueue
  <2>3. QED
    BY <2>1, <2>2
<1>2. RamInv /\ [S!Next]_(S!vars) => RamInv'
  <2>1. CASE UNCHANGED S!vars
    BY <2>1 DEF S!vars, S!ram, RamInv, RamFits, StageFilled, S!TypeOK,
      S!PlacesAgree, S!PlacesAddUp, S!HeadInStage, S!RamPointersAgree, S!out_vld
  <2>2. QED
    BY <2>1, RamNext DEF S!Next
<1>3. RamInv /\ [S!Next]_(S!vars) => [RamFifo!Next]_(RamFifo!vars)
  <2> SUFFICES ASSUME RamInv, [S!Next]_(S!vars) PROVE [RamFifo!Next]_(RamFifo!vars)
    OBVIOUS
  <2>1. ASSUME NEW d \in Val \cup {"idle"}, NEW ready \in BOOLEAN, S!Clock(d, ready)
        PROVE  RamFifo!Next
    BY <2>1, RamClockImplementsCycle DEF RamFifo!Next, RamFifo!Idle
  <2>2. ASSUME NEW d, NEW ready, S!Reset(d, ready)
        PROVE  RamFifo!Next
    BY <2>2 DEF S!Reset, RamFifo!Next, RamFifo!Reset, RamFifo!Idle, RamQueue
  <2>3. CASE UNCHANGED S!vars
    BY <2>3 DEF S!vars, S!ram, RamFifo!vars, RamQueue, RamHeld, WordAfter
  <2>4. QED
    BY <2>1, <2>2, <2>3 DEF S!Next
<1>4. QED
  BY <1>1, <1>2, <1>3, PTL DEF S!Spec, RamFifo!Spec

------------------------------------------------------------------------------
(* The two beside each other.                                              *)

HeldAt(i) == mem[Ahead(rd, i - 1)]

\* fw_rv_fifo's edge moves them the same way.
LEMMA RvMoves ==
  ASSUME IInv, NEW d \in Val \cup {"idle"}, NEW ready \in BOOLEAN,
         Clock(d, ready), NEW i \in 1 .. count'
  PROVE  LET gone == IF ready /\ out_vld THEN 1 ELSE 0
         IN  HeldAt(i)' = IF i <= count - gone THEN HeldAt(i + gone) ELSE d
<1> USE DepthAssumption DEF IInv, TypeOK, PointersAgree, Slots
<1> DEFINE push == d # "idle" /\ in_rdy
           pop  == ready /\ out_vld
           gone == IF pop THEN 1 ELSE 0
<1> SUFFICES HeldAt(i)' = IF i <= count - gone THEN HeldAt(i + gone) ELSE d
  OBVIOUS
<1>1. /\ push \in BOOLEAN /\ pop \in BOOLEAN
      /\ push => count < DEPTH
      /\ pop => count > 0
      /\ gone \in 0 .. 1 /\ (gone = 1 <=> pop)
  BY DEF in_rdy, out_vld
<1>2. /\ mem' = IF push THEN [mem EXCEPT ![wr] = d] ELSE mem
      /\ rd' = IF pop THEN next(rd) ELSE rd
      /\ count' = (count + (IF push THEN 1 ELSE 0)) - gone
  BY DEF Clock
<1> HIDE DEF push, pop, gone
<1>3. HeldAt(i)' = mem'[Ahead(rd, (i + gone) - 1)]
  BY <1>1, <1>2 DEF HeldAt, Ahead, next
<1>4. CASE i <= count - gone
  <2>1. Ahead(rd, (i + gone) - 1) # wr \/ ~push
    BY <1>1, <1>2, <1>4 DEF Ahead
  <2>2. QED
    BY <1>1, <1>2, <1>3, <1>4, <2>1 DEF HeldAt
<1>5. CASE i > count - gone
  <2>1. push /\ Ahead(rd, (i + gone) - 1) = wr /\ ~(i <= count - gone)
    BY <1>1, <1>2, <1>5 DEF Ahead
  <2>2. QED
    BY <1>1, <1>2, <1>3, <2>1
<1>6. QED
  BY <1>1, <1>2, <1>4, <1>5

\* The same values are held, in the same order.
SameHeld == s_count = count /\ \A i \in 1 .. count : RamHeld(i) = HeldAt(i)

BothInv == IInv /\ RamInv /\ SameHeld

LEMMA BothInitInv == BothInit => BothInv
<1> SUFFICES ASSUME BothInit PROVE BothInv
  OBVIOUS
<1>1. IInv /\ RamInv
  BY InitInv, RamInit DEF BothInit
<1>2. s_count = 0 /\ count = 0
  BY DEF BothInit, Init, S!Init
<1>3. QED
  BY <1>1, <1>2 DEF BothInv, SameHeld

LEMMA BothNextInv ==
  BothInv /\ [BothClock \/ BothReset]_<<vars, S!vars>> => BothInv'
<1> SUFFICES ASSUME BothInv, [BothClock \/ BothReset]_<<vars, S!vars>>
             PROVE  BothInv'
  OBVIOUS
<1> USE DEF BothInv
<1>1. ASSUME NEW d \in Val \cup {"idle"}, NEW ready \in BOOLEAN,
             Clock(d, ready), S!Clock(d, ready)
      PROVE  BothInv'
  <2>1. IInv' /\ RamInv'
    BY <1>1, NextInv, RamNext DEF Next
  <2>2. in_rdy = S!in_rdy /\ out_vld = S!out_vld
    BY DEF SameHeld, in_rdy, out_vld, S!in_rdy, S!out_vld
  <2>3. s_count' = count'
    BY <1>1, <2>2 DEF SameHeld, Clock, S!Clock, S!bit
  <2>4. ASSUME NEW i \in 1 .. count' PROVE RamHeld(i)' = HeldAt(i)'
    <3> DEFINE gone == IF ready /\ out_vld THEN 1 ELSE 0
    <3>1. RamHeld(i)' = IF i <= s_count - gone THEN RamHeld(i + gone) ELSE d
      BY <1>1, <2>2, <2>3, CountsHold, WordsHold, RamMoves DEF Pops
    <3>2. HeldAt(i)' = IF i <= count - gone THEN HeldAt(i + gone) ELSE d
      BY <1>1, RvMoves
    <3>3. i <= count - gone => i + gone \in 1 .. count
      BY <2>1 DEF IInv, TypeOK, out_vld
    <3> HIDE DEF gone
    <3>4. QED
      BY <3>1, <3>2, <3>3 DEF SameHeld
  <2>5. QED
    BY <2>1, <2>3, <2>4 DEF SameHeld
<1>2. ASSUME NEW d \in Val \cup {"idle"}, NEW ready \in BOOLEAN,
             Reset, S!Reset(d, ready)
      PROVE  BothInv'
  <2>1. IInv' /\ RamInv'
    BY <1>2, NextInv, RamNext DEF Next
  <2>2. s_count' = 0 /\ count' = 0
    BY <1>2 DEF Reset, S!Reset
  <2>3. QED
    BY <2>1, <2>2 DEF SameHeld
<1>3. CASE UNCHANGED <<vars, S!vars>>
  <2>1. IInv'
    BY <1>3, NextInv
  <2>2. RamInv'
    BY <1>3 DEF S!vars, S!ram, RamInv, RamFits, StageFilled, S!TypeOK,
      S!PlacesAgree, S!PlacesAddUp, S!HeadInStage, S!RamPointersAgree, S!out_vld
  <2>3. SameHeld'
    BY <1>3 DEF S!vars, S!ram, vars, SameHeld, RamHeld, WordAfter, HeldAt, Ahead
  <2>4. QED
    BY <2>1, <2>2, <2>3
<1>4. QED
  BY <1>1, <1>2, <1>3 DEF BothClock, BothReset

\* For every DEPTH >= 3, binding a channel to a RAM changes nothing a cycle can
\* see (storage.py: "cycle for cycle"), and the RAM's three places lose no value.
THEOREM HandshakeStaysSame == BothSpec => []SameHandshake
<1>1. BothInv => SameHandshake
  <2> SUFFICES ASSUME BothInv PROVE SameHandshake
    OBVIOUS
  <2>1. PlacesAgree
    BY DEF BothInv, RamInv, PlacesAgree
  <2>2. in_rdy = S!in_rdy /\ out_vld = S!out_vld
    BY DEF BothInv, SameHeld, in_rdy, out_vld, S!in_rdy, S!out_vld
  <2>3. ASSUME out_vld PROVE out_data = S!out_data
    <3>1. Counts /\ count \in Nat /\ count # 0 /\ s_count = count
      BY <2>3, CountsHold DEF BothInv, IInv, TypeOK, out_vld, SameHeld
    <3>2. 1 \in 1 .. count /\ s_oc >= 1
      BY <3>1 DEF Counts
    <3>3. HeldAt(1) = mem[rd]
      BY DepthAssumption DEF BothInv, IInv, TypeOK, Slots, HeldAt, Ahead
    <3>4. RamHeld(1) = s_ob0
      BY <3>1, <3>2 DEF RamHeld, Counts
    <3>5. QED
      BY <3>2, <3>3, <3>4 DEF BothInv, SameHeld, out_data, S!out_data
  <2>4. QED
    BY <2>1, <2>2, <2>3 DEF SameHandshake
<1>2. QED
  BY BothInitInv, BothNextInv, <1>1, PTL DEF BothSpec

\* For every DEPTH >= 3, no edge writes the RAM word it reads.
THEOREM NoWordEverClashes == BothSpec => NoWordClash
<1> DEFINE Apart ==
      \A d \in Val \cup {"idle"}, ready \in BOOLEAN :
        LET push == d # "idle" /\ S!in_rdy
            pop  == ready /\ S!out_vld
        IN  S!Clock(d, ready) /\ S!issue(pop) /\ S!to_ram(push, pop) => s_rp # s_wp
<1>1. BothInv => Apart
  <2> SUFFICES ASSUME BothInv,
                      NEW d \in Val \cup {"idle"}, NEW ready \in BOOLEAN,
                      S!issue(ready /\ S!out_vld),
                      S!to_ram(d # "idle" /\ S!in_rdy, ready /\ S!out_vld)
               PROVE  s_rp # s_wp
    BY Zenon
  <2>1. Counts /\ Words
    BY CountsHold, WordsHold DEF BothInv
  <2>2. s_rc # 0 /\ s_count < DEPTH
    BY <2>1 DEF S!issue, S!to_ram, S!in_rdy, Counts
  <2>3. QED
    BY <2>1, <2>2 DEF Counts, Words, WordAfter
<1>2. BothInv => [Apart]_(S!vars)
  BY <1>1
<1>3. QED
  BY BothInitInv, BothNextInv, <1>2, PTL DEF BothSpec, NoWordClash, S!NoWordClash
==============================================================================
