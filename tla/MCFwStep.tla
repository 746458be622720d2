------------------------------- MODULE MCFwStep ------------------------------
(***************************************************************************)
(* FwStep for TLC.  Five small networks:                                   *)
(*   Net2: p -A-> c -B-> Proc   steps at both ends of A; both may stall    *)
(*   NetM: p -A-> c, p -V-> c, p -L-> c   all three kinds of channel       *)
(*   NetP: Proc -A-> m -B-> Proc, m -C-> Proc   processes at the ends of a *)
(*         step with two stalling outputs                                  *)
(*   NetT: Proc -A-> m -B-> Proc   one whose step takes two values of A    *)
(*   NetE: Proc -V-> m -W-> Proc, Proc -L-> m   the same of a plain step   *)
(*         and the other two kinds of channel                              *)
(***************************************************************************)
EXTENDS FwStep, TLC

CONSTANTS p, c, m, A, B, C, V, W, L, a, b

Net(steps, at, prod, cons, depth, valids, levels, takes) ==
  [steps |-> steps, atomic |-> at, prod |-> prod, cons |-> cons, depth |-> depth,
   valids |-> valids, levels |-> levels, streams |-> DOMAIN depth \ valids,
   max_take |-> takes]

Net2 == Net({p, c}, {p, c}, A :> p @@ B :> c, A :> c @@ B :> Proc, A :> 2 @@ B :> 1, {}, {}, 1)
NetM == Net({p, c}, {p}, A :> p @@ V :> p @@ L :> p, A :> c @@ V :> c @@ L :> c,
            A :> 1 @@ V :> 1, {V}, {L}, 1)
NetP == Net({m}, {m}, A :> Proc @@ B :> m @@ C :> m, A :> m @@ B :> Proc @@ C :> Proc,
            A :> 1 @@ B :> 1 @@ C :> 1, {}, {}, 1)
NetT == Net({m}, {m}, A :> Proc @@ B :> m, A :> m @@ B :> Proc, A :> 2 @@ B :> 1, {}, {}, 2)
NetE == Net({m}, {}, V :> Proc @@ W :> m @@ L :> Proc, V :> m @@ W :> Proc @@ L :> m,
            V :> 1 @@ W :> 1, {V, W}, {L}, 1)
AllNets == {Net2, NetM, NetP, NetT, NetE}
JustM   == {NetM}
==============================================================================
