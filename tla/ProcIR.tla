-------------------------------- MODULE ProcIR --------------------------------
(***************************************************************************)
(* The process IR that the translator emits (zuspec.synth.proc, a library  *)
(* outside this repository), as translate.py uses it.                      *)
(*                                                                         *)
(*   terms       c v | v n | not a | and a b | or a b | bool a             *)
(*               alu op a b | ite c a b | ins a b v                        *)
(*   statements  asg v t nb | if c t e | loop b pre post | await c init    *)
(*                                                                         *)
(* Terms are hash-consed, so `is` in the code is equality here, and fold   *)
(* when their operands are constants.                                      *)
(***************************************************************************)
EXTENDS SvThread

TConst(v) == [k |-> "c", v |-> v]
ZERO == TConst(0)
ONE == TConst(1)
TVar(n) == [k |-> "v", n |-> n]
IsConst(t) == t.k = "c"
TBool(t) == IF IsConst(t) THEN TConst(Bit(Truthy(t.v))) ELSE [k |-> "bool", a |-> t]
TNot(t) == IF IsConst(t) THEN TConst(1 - t.v) ELSE [k |-> "not", a |-> t]
TAnd(a, b) == CASE a = ZERO \/ b = ZERO -> ZERO
                [] a = ONE -> b
                [] b = ONE -> a
                [] OTHER -> [k |-> "and", a |-> a, b |-> b]
TOr(a, b) == CASE a = ONE \/ b = ONE -> ONE
               [] a = ZERO -> b
               [] b = ZERO -> a
               [] OTHER -> [k |-> "or", a |-> a, b |-> b]
TAlu(op, a, b) == IF IsConst(a) /\ IsConst(b) THEN TConst(Alu(op, a.v, b.v))
                  ELSE [k |-> "alu", op |-> op, a |-> a, b |-> b]
TIns(a, b, v) == IF IsConst(a) /\ IsConst(b) /\ IsConst(v) THEN TConst(SetBit(a.v, b.v, v.v))
                 ELSE [k |-> "ins", a |-> a, b |-> b, v |-> v]
TIte(c, a, b) == CASE c = ONE \/ a = b -> a
                   [] c = ZERO -> b
                   [] OTHER -> [k |-> "ite", c |-> c, a |-> a, b |-> b]

RECURSIVE Value(_, _)
Value(t, env) ==
    CASE t.k = "c" -> t.v
      [] t.k = "v" -> env[t.n]
      [] t.k = "bool" -> Bit(Truthy(Value(t.a, env)))
      [] t.k = "not" -> 1 - Value(t.a, env)
      [] t.k = "and" -> Value(t.a, env) * Value(t.b, env)
      [] t.k = "or" -> Bit(Value(t.a, env) + Value(t.b, env) > 0)
      [] t.k = "alu" -> Alu(t.op, Value(t.a, env), Value(t.b, env))
      [] t.k = "ins" -> SetBit(Value(t.a, env), Value(t.b, env), Value(t.v, env))
      [] t.k = "ite" -> Value(IF Truthy(Value(t.c, env)) THEN t.a ELSE t.b, env)

-----------------------------------------------------------------------------
(* A process: its registers `val`, the nonblocking writes of this cycle, the
   statements left, and the await it is suspended at.  A process that has run
   MaxTurns loop turns without an await has a zero-time loop. *)

CONSTANT MaxTurns

NetVar == <<"net">>
PushAll(k, ss) == k \o Reverse(ss)

RECURSIVE ProcRun(_)
ProcRun(p) ==
    IF p.at # None \/ p.k = <<>> \/ p.turns = MaxTurns THEN p
    ELSE LET s == Last(p.k)
             q == [p EXCEPT !.k = Front(@)]
             Ev(t) == Value(t, p.val)
             Again == [q EXCEPT !.turns = @ + 1,
                                !.k = PushAll(Append(@, [s EXCEPT !.first = FALSE]), s.b)]
         IN  ProcRun(CASE s.k = "asg" /\ s.nb -> [q EXCEPT !.nba = Append(@, <<s.v, Ev(s.t)>>)]
                       [] s.k = "asg" /\ ~s.nb -> [q EXCEPT !.val = SetLoc(@, s.v, Ev(s.t))]
                       [] s.k = "if" -> [q EXCEPT !.k = PushAll(@, IF Truthy(Ev(s.c)) THEN s.t ELSE s.e)]
                       [] s.k = "loop" ->
                            IF /\ Truthy(Ev(s.pre))
                               /\ s.first \/ Truthy(Ev(s.post)) THEN Again ELSE q
                       [] s.k = "await" ->
                            IF s.c # None /\ Truthy(Ev(s.c)) THEN q
                            ELSE [q EXCEPT !.at = s.at, !.k = IF s.c = None THEN @ ELSE Append(@, s)])

ProcSettle(p) == [p EXCEPT !.val = FoldLeft(LAMBDA v, w : SetLoc(v, w[1], w[2]), @, p.nba),
                       !.nba = <<>>]

\* A clock edge of the process, with input `net`.
ProcClock(p, net) ==
    ProcSettle(ProcRun([p EXCEPT !.at = None, !.turns = 0, !.val = SetLoc(@, NetVar, net)]))

\* What is left to do after the await marked as the initial one, in statements ss.
RECURSIVE HasInitial(_), After(_, _)
HasInitial(s) ==
    CASE s.k = "asg" -> FALSE
      [] s.k = "await" -> s.init
      [] s.k = "if" -> \E i \in DOMAIN s.t : HasInitial(s.t[i])
                       \/ \E j \in DOMAIN s.e : HasInitial(s.e[j])
      [] s.k = "loop" -> \E i \in DOMAIN s.b : HasInitial(s.b[i])
After(ss, k) ==
    LET i == SelectInSeq(ss, HasInitial)
        s == ss[i]
        rest == PushAll(k, SubSeq(ss, i + 1, Len(ss)))
    IN  CASE s.k = "await" -> IF s.c = None THEN rest ELSE Append(rest, s)
          [] s.k = "if" -> After(IF \E j \in DOMAIN s.t : HasInitial(s.t[j]) THEN s.t ELSE s.e, rest)
          [] s.k = "loop" -> After(s.b, Append(rest, [s EXCEPT !.first = FALSE]))

\* The process after reset: its registers at their reset values, suspended at
\* the initial await.
Reset(body, at, regs) ==
    [k |-> After(body, <<>>), val |-> SetLoc(regs, NetVar, 0), nba |-> <<>>, at |-> at, turns |-> 0]
=============================================================================
