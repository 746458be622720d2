------------------------------- MODULE FwRvFifo ------------------------------
(***************************************************************************)
(* rtl/fw_rv_fifo.sv: the RTL form of an fw_channel of DEPTH >= 1, a       *)
(* circular buffer with a count.  One clock edge per action.  The count is *)
(* AW+1 bits wide and the pointers AW bits in the code, AW = clog2(DEPTH)  *)
(* (at least 1); TypeOK bounds them by values those widths hold, so no     *)
(* addition below wraps.                                                   *)
(***************************************************************************)
EXTENDS Naturals, Sequences

CONSTANTS Val, DEPTH

ASSUME DepthAssumption == DEPTH \in Nat \ {0}

VARIABLES mem, rd, wr, count,
          in_op, out_op   (* what the last edge moved on each port (for FifoCycle) *)

vars == <<mem, rd, wr, count, in_op, out_op>>

Slots == 0 .. DEPTH - 1

\* Mutant: a push is accepted into the last slot but one only.
in_rdy_Early == count < DEPTH - 1

\* The outputs, functions of registered state only.
in_rdy   == count # DEPTH
out_vld  == count # 0
out_data == mem[rd]

\* Mutant: the pointer is left to its AW bits, which wrap at a power of two.
next_NoWrap(p) == p + 1

\* The slot after p.
next(p) == IF p = DEPTH - 1 THEN 0 ELSE p + 1

Init ==
  /\ mem \in [Slots -> Val]          \* not reset: whatever powers up
  /\ rd = 0 /\ wr = 0 /\ count = 0
  /\ in_op = "idle" /\ out_op = "idle"

\* An edge with in_vld high and in_data = d (d = "idle": in_vld low), and
\* out_rdy = ready.
Clock(d, ready) ==
  LET push == d # "idle" /\ in_rdy
      pop  == ready /\ out_vld
  IN  /\ mem' = IF push THEN [mem EXCEPT ![wr] = d] ELSE mem
      /\ wr' = IF push THEN next(wr) ELSE wr
      /\ rd' = IF pop THEN next(rd) ELSE rd
      /\ count' = (count + (IF push THEN 1 ELSE 0)) - (IF pop THEN 1 ELSE 0)
      /\ in_op' = IF d = "idle" \/ in_rdy THEN d ELSE "refused"
      /\ out_op' = IF ~ready THEN "idle" ELSE IF ~out_vld THEN "empty" ELSE out_data

\* Mutant: rst leaves the write pointer where it is.
Reset_KeepsWr ==
  /\ rd' = 0 /\ count' = 0
  /\ in_op' = "idle" /\ out_op' = "idle"
  /\ UNCHANGED <<mem, wr>>

\* An edge with rst high.
Reset ==
  /\ rd' = 0 /\ wr' = 0 /\ count' = 0
  /\ in_op' = "idle" /\ out_op' = "idle"
  /\ UNCHANGED mem

Next ==
  \/ \E d \in Val \cup {"idle"}, ready \in BOOLEAN : Clock(d, ready)
  \/ Reset

Spec == Init /\ [][Next]_vars

------------------------------------------------------------------------------

\* The registers hold what their widths can.
TypeOK ==
  /\ mem \in [Slots -> Val]
  /\ rd \in Slots
  /\ wr \in Slots
  /\ count \in 0 .. DEPTH
  /\ in_op \in Val \cup {"idle", "refused"}
  /\ out_op \in Val \cup {"idle", "empty"}

\* The slot k places after p, going round.
Ahead(p, k) == IF p + k < DEPTH THEN p + k ELSE (p + k) - DEPTH

\* The write pointer is `count` places ahead of the read pointer, so a push
\* never lands on a slot that still holds a waiting value: the two pointers
\* and the count, updated separately at each edge, never disagree.
PointersAgree == wr = Ahead(rd, count)

\* The values held, oldest first.
Held == [i \in 1 .. count |-> mem[Ahead(rd, i - 1)]]

Fifo == INSTANCE FifoCycle WITH q <- Held, wr <- in_op, rd <- out_op

\* The RTL FIFO moves values exactly as the per-cycle channel contract says:
\* accepted iff fewer than DEPTH held at the start of the cycle, oldest first,
\* latency one, no pass-through when full.
FifoSpec == Fifo!Spec
==============================================================================
