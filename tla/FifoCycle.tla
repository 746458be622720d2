------------------------------ MODULE FifoCycle ------------------------------
(***************************************************************************)
(* What a ready/valid channel of DEPTH >= 1 promises per clock cycle.  The *)
(* class library states it above fw_channel ("Per cycle, between steps")   *)
(* and rtl/fw_rv_fifo.sv is its hardware form.  Every decision of a cycle  *)
(* is made from the values held when the cycle starts: a put is accepted   *)
(* iff fewer than DEPTH are held, a take gets the oldest held, and neither *)
(* side sees the other's action before the next cycle.                     *)
(*                                                                         *)
(* FwStep (the class model), FwRvFifo (flops) and FwSramFifo (a RAM) are   *)
(* each shown to implement this module.                                    *)
(***************************************************************************)
EXTENDS Naturals, Sequences

CONSTANTS Val,    (* the values a channel carries   *)
          DEPTH   (* how many of them it holds      *)

VARIABLES q,      (* the values held, oldest first                         *)
          wr,     (* the put side of the last cycle: the value accepted,   *)
                  (* "refused", or "idle" when nothing was offered         *)
          rd      (* the get side of the last cycle: the value taken,      *)
                  (* "empty", or "idle" when nothing was asked for         *)

vars == <<q, wr, rd>>

Idle    == "idle"
Refused == "refused"
Empty   == "empty"

\* The types; a channel never holds more than DEPTH values.
TypeOK ==
  /\ q \in Seq(Val)
  /\ Len(q) <= DEPTH
  /\ wr \in Val \cup {Idle, Refused}
  /\ rd \in Val \cup {Idle, Empty}

Init ==
  /\ q = <<>>
  /\ wr = Idle
  /\ rd = Idle

\* What the put side sees when `offer` is a value or Idle.
Written(offer) ==
  IF offer = Idle \/ Len(q) < DEPTH THEN offer ELSE Refused

\* What the get side sees when it asks (`want`) or not.
Taken(want) ==
  IF ~want THEN Idle ELSE IF q = <<>> THEN Empty ELSE Head(q)

\* One clock cycle.
Cycle(offer, want) ==
  LET kept  == IF want /\ q # <<>> THEN Tail(q) ELSE q
      added == IF offer # Idle /\ Len(q) < DEPTH THEN <<offer>> ELSE <<>>
  IN  /\ q' = kept \o added
      /\ wr' = Written(offer)
      /\ rd' = Taken(want)

\* A synchronous reset drops what is held.
Reset ==
  /\ q' = <<>>
  /\ wr' = Idle
  /\ rd' = Idle

Next ==
  \/ \E offer \in Val \cup {Idle}, want \in BOOLEAN : Cycle(offer, want)
  \/ Reset

Spec == Init /\ [][Next]_vars
==============================================================================
