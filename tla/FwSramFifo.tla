------------------------------ MODULE FwSramFifo -----------------------------
(***************************************************************************)
(* rtl/fw_sram_fifo.sv with the two-port RAM it drives                     *)
(* (rtl/fw_ram_1r1w_model.sv): the channel's FIFO when most of the values  *)
(* live in a RAM whose read takes a cycle.  One clock edge per action.     *)
(*                                                                         *)
(* Order of the values held: the output stage (ob0, ob1), the read in      *)
(* flight, the RAM.                                                        *)
(***************************************************************************)
EXTENDS Naturals, Sequences

CONSTANTS Val, DEPTH

\* DEPTH is at least 3 (g_bad_depth): the module that instantiates this one
\* starts with no smaller one.

VARIABLES count,            (* values held                                 *)
          ob0, ob1, oc,     (* output stage and the values in it           *)
          fl,               (* a RAM read is in flight: ram_rd is valid    *)
          rp, wp, rc,       (* RAM read and write words, values in the RAM *)
          mem, ram_rd,      (* the RAM's words and its read data register  *)
          in_op, out_op     (* what the last edge moved (for FifoCycle)    *)

ram  == <<mem, ram_rd>>
vars == <<count, ob0, ob1, oc, fl, rp, wp, rc, ram, in_op, out_op>>

RAM_WORDS == DEPTH - 1
Words     == 0 .. RAM_WORDS - 1
bit(b)    == IF b THEN 1 ELSE 0

in_rdy_Always == TRUE                       \* mutant: full is not looked at
in_rdy   == count # DEPTH
out_vld  == count # 0
out_data == ob0

\* Mutant: the word counter is left to wrap by itself.
next_NoWrap(p) == p + 1
next(p) == IF p = RAM_WORDS - 1 THEN 0 ELSE p + 1

\* The combinational decisions of a cycle that pushes and pops or not.
kept(pop) == oc - bit(pop)                   \* still in the stage
fed(pop)  == kept(pop) + bit(fl)             \* ... with the read in flight
room(pop) == fed(pop) <= 1
issue(pop) == rc # 0 /\ room(pop)            \* read the next RAM value
direct_Overtakes(push, pop) == push /\ room(pop)   \* mutant: passes the RAM's values
direct(push, pop) == push /\ rc = 0 /\ room(pop)
to_ram(push, pop) == push /\ ~direct(push, pop)

\* n0 and n1: shift out a pop, append the read in flight, then a direct push.
stage0(d, push, pop) ==
  IF direct(push, pop) /\ fed(pop) = 0 THEN d
  ELSE IF fl /\ kept(pop) = 0 THEN ram_rd
  ELSE IF pop THEN ob1 ELSE ob0
stage1(d, push, pop) ==
  IF direct(push, pop) /\ fed(pop) # 0 THEN d
  ELSE IF fl /\ kept(pop) # 0 THEN ram_rd
  ELSE ob1

Init ==
  /\ count = 0 /\ oc = 0 /\ fl = FALSE /\ rp = 0 /\ wp = 0 /\ rc = 0
  /\ ob0 \in Val /\ ob1 \in Val
  /\ mem \in [Words -> Val] /\ ram_rd \in Val
  /\ in_op = "idle" /\ out_op = "idle"

\* The RAM at an edge: a write and a read, the read getting the old word.
Ram(we, d, re) ==
  /\ mem' = IF we THEN [mem EXCEPT ![wp] = d] ELSE mem
  /\ ram_rd' = IF re THEN mem[rp] ELSE ram_rd

\* An edge with in_data = d ("idle": in_vld low) and out_rdy = ready.
Clock(d, ready) ==
  LET push == d # "idle" /\ in_rdy
      pop  == ready /\ out_vld
  IN  /\ count' = (count + bit(push)) - bit(pop)
      /\ oc' = fed(pop) + bit(direct(push, pop))
      /\ fl' = issue(pop)
      /\ rc' = (rc + bit(to_ram(push, pop))) - bit(issue(pop))
      /\ wp' = IF to_ram(push, pop) THEN next(wp) ELSE wp
      /\ rp' = IF issue(pop) THEN next(rp) ELSE rp
      /\ ob0' = stage0(d, push, pop)
      /\ ob1' = stage1(d, push, pop)
      /\ Ram(to_ram(push, pop), d, issue(pop))
      /\ in_op' = IF d = "idle" \/ in_rdy THEN d ELSE "refused"
      /\ out_op' = IF ~ready THEN "idle" ELSE IF ~out_vld THEN "empty" ELSE out_data

\* An edge with rst high: the registers clear; the stage's data and the RAM
\* still follow the strobes of the cycle.
Reset(d, ready) ==
  LET push == d # "idle" /\ in_rdy
      pop  == ready /\ out_vld
  IN  /\ count' = 0 /\ oc' = 0 /\ fl' = FALSE /\ rp' = 0 /\ wp' = 0 /\ rc' = 0
      /\ ob0' = stage0(d, push, pop)
      /\ ob1' = stage1(d, push, pop)
      /\ Ram(to_ram(push, pop), d, issue(pop))
      /\ in_op' = "idle" /\ out_op' = "idle"

Next ==
  \E d \in Val \cup {"idle"}, ready \in BOOLEAN : Clock(d, ready) \/ Reset(d, ready)

Spec == Init /\ [][Next]_vars

------------------------------------------------------------------------------
\* The registers hold what their widths can.
TypeOK ==
  /\ count \in 0 .. DEPTH
  /\ oc \in 0 .. 2 /\ fl \in BOOLEAN
  /\ rp \in Words /\ wp \in Words /\ rc \in 0 .. RAM_WORDS
  /\ ob0 \in Val /\ ob1 \in Val
  /\ mem \in [Words -> Val] /\ ram_rd \in Val
  /\ in_op \in Val \cup {"idle", "refused"}
  /\ out_op \in Val \cup {"idle", "empty"}

\* Every value counted is in exactly one of the three places, and the stage has
\* room for the read in flight, so no value is dropped when the read lands.
PlacesAddUp == count = oc + bit(fl) + rc /\ oc + bit(fl) <= 2

\* The head is in the stage whenever out_vld is high: out_data never waits for
\* a RAM read ("the head is always in a two-entry output stage in flops").
HeadInStage == out_vld => oc > 0

\* The RAM's words are a queue: the write word is rc words after the read word.
RamPointersAgree == wp = IF rp + rc < RAM_WORDS THEN rp + rc ELSE (rp + rc) - RAM_WORDS

\* No value is lost on its way through the three places, and the next one to
\* leave is always where the get port reads.
PlacesAgree == PlacesAddUp /\ HeadInStage /\ RamPointersAgree

\* "A write never meets the read in the same word": what the RAM returns then
\* would depend on the cell.
NoWordClash ==
  [][\A d \in Val \cup {"idle"}, ready \in BOOLEAN :
       LET push == d # "idle" /\ in_rdy
           pop  == ready /\ out_vld
       IN  Clock(d, ready) /\ issue(pop) /\ to_ram(push, pop) => rp # wp]_vars
==============================================================================
