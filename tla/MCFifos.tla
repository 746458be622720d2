------------------------------- MODULE MCFifos -------------------------------
(***************************************************************************)
(* The two FIFOs a channel of DEPTH 4 may be bound to (storage.py), side   *)
(* by side for TLC: fw_rv_fifo and fw_sram_fifo with its RAM of 3 words,   *)
(* given the same puts, takes and resets at every edge.                    *)
(***************************************************************************)
EXTENDS FwRvFifo

\* fw_sram_fifo does not elaborate with a smaller DEPTH (g_bad_depth).
RamFits == DEPTH >= 3

VARIABLES s_count, s_ob0, s_ob1, s_oc, s_fl, s_rp, s_wp, s_rc, s_mem, s_ram_rd,
          s_in, s_out

S == INSTANCE FwSramFifo WITH
       count <- s_count, ob0 <- s_ob0, ob1 <- s_ob1, oc <- s_oc, fl <- s_fl,
       rp <- s_rp, wp <- s_wp, rc <- s_rc, mem <- s_mem, ram_rd <- s_ram_rd,
       in_op <- s_in, out_op <- s_out

BothInit == RamFits /\ Init /\ S!Init

BothClock == \E d \in Val \cup {"idle"}, ready \in BOOLEAN :
               Clock(d, ready) /\ S!Clock(d, ready)

BothReset == \E d \in Val \cup {"idle"}, ready \in BOOLEAN :
               Reset /\ S!Reset(d, ready)

BothSpec == BothInit /\ [][BothClock \/ BothReset]_<<vars, S!vars>>

------------------------------------------------------------------------------
\* The head is in the output stage whenever out_vld is high, though a RAM read
\* takes a cycle; no value of the three places is lost or counted twice, and the
\* registers hold what their widths can.
PlacesAgree == S!TypeOK /\ S!PlacesAgree

\* Binding a channel to a RAM changes nothing a cycle can see: storage.py says
\* of the bindings "Every binding has fw_rv_fifo's handshake, cycle for cycle";
\* and its three places hold the values in order.
SameHandshake ==
  /\ PlacesAgree
  /\ in_rdy = S!in_rdy
  /\ out_vld = S!out_vld
  /\ out_vld => out_data = S!out_data

\* The RAM is never asked to read the word it writes at the same edge.
NoWordClash == S!NoWordClash
==============================================================================
