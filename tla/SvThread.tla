------------------------------- MODULE SvThread -------------------------------
(***************************************************************************)
(* The code of one thread of an elaborated design, and the way the         *)
(* elaboration interpreter (python/fw/hdl/fe/elab/interp.py) runs it until *)
(* it blocks.  A Python generator is its continuation: `k` is a stack of   *)
(* what is left to do, the innermost last.  An item of it is a statement,  *)
(* a loop being executed, or a call being executed (the caller's locals    *)
(* and the output arguments to copy back).  `blk` is the statement it is   *)
(* blocked at (class Block), `acts` the threads it started and the events  *)
(* it triggered since it was resumed, for the scheduler.  The same rules,  *)
(* resumed at every clock edge, are what the thread does in simulation.    *)
(*                                                                         *)
(* All variables have one width, Modulus values; a truth value is 0 or 1.  *)
(*                                                                         *)
(*   expressions  lit v | loc n | fld n | ofld ix n | net                  *)
(*                not a | land a b | lor a b | bin op a b | cond c a b     *)
(*                set l e nb | inc l pre | call id h sub args              *)
(*                bit l ix                                                 *)
(*   statements   skip | seq ss | decl n e | expr e | if c t f             *)
(*                case e items d | while c b | dowhile c b | forever b     *)
(*                for i c st b | repeat c b | return e | break | continue  *)
(*                edge id | wait id c | event id e | delay0 id | trigger e *)
(*                fork id ss join                                          *)
(*                                                                         *)
(* The targets of set, inc and bit are loc, fld, ofld and bit.             *)
(* `fld` is a field of the object whose method runs, `ofld` one of the     *)
(* object at a run-time index of a fixed array of handles, `net` the       *)
(* interface's input.                                                      *)
(***************************************************************************)
EXTENDS Integers, Sequences, SequencesExt

CONSTANTS
    Modulus,    \* values of a variable
    Objects,    \* the array of handles: a sequence of object ids
    Subs,       \* subroutines: [args : names, body : statement, task : BOOLEAN]
    Dispatch,   \* Dispatch[o][name]: the body that virtual method `name` of o has
    None        \* no expression, no receiver, no await

Mask(v) == v % Modulus
Bit(b) == IF b THEN 1 ELSE 0
Truthy(v) == v # 0

Alu(op, a, b) ==
    CASE op = "add" -> Mask(a + b)
      [] op = "sub" -> Mask(a - b)
      [] op = "eq" -> Bit(a = b)
      [] op = "lt" -> Bit(a < b)
      [] op = "bit" -> (a \div 2^b) % 2        \* _elem: bit b of a vector

\* Interpreter.assign to an element: bit b of a is v (none, out of range).
SetBit(a, b, v) == Mask(a + ((v % 2) - Alu("bit", a, b)) * 2^b)

-----------------------------------------------------------------------------
(* Threads *)

Stmt(s) == [k |-> "stmt", s |-> s]
Push(m, s) == [m EXCEPT !.k = Append(@, Stmt(s))]
SetLoc(loc, n, v) == (n :> v) @@ loc

\* The stack down to the innermost item of kind `kind`: where an exception is caught.
Unwind(k, kind) == SubSeq(k, 1, SelectLastInSeq(k, LAMBDA x : x.k = kind))

\* The interpreter's mutual recursion, through one operator: what is asked (a
\* value, an assignment, to run on), of what, in the context of thread m.
RECURSIVE Interp(_, _, _)
Eval(e, m) == Interp("eval", e, m)
Assign(l, m, v) == Interp("assign", [l |-> l, v |-> v], m).m
Run(m) == Interp("run", None, m).m

\* Interpreter.assign: blocking, in the context of thread m.
AssignTo(l, v, m) ==
    CASE l.k = "loc" -> [m EXCEPT !.loc = SetLoc(@, l.n, v)]
      [] l.k = "fld" -> [m EXCEPT !.f[<<m.this, l.n>>] = v]
      [] l.k = "ofld" -> LET i == Eval(l.ix, m)
                         IN  [i.m EXCEPT !.f[<<Objects[i.v + 1], l.n>>] = v]
      [] l.k = "bit" -> LET i == Eval(l.ix, m)
                            old == Eval(l.l, i.m)
                        IN  Assign(l.l, old.m, SetBit(old.v, i.v, v))

\* Interpreter.call_sub up to the body: the receiver, then the arguments in order.
PushCall(e, m) ==
    LET h == IF e.h = None THEN [v |-> m.this, m |-> m]
             ELSE LET i == Eval(e.h, m) IN [v |-> Objects[i.v + 1], m |-> i.m]
        sub == Subs[Dispatch[h.v][e.sub]]
        Bind(acc, i) ==
            IF e.args[i].out THEN [acc EXCEPT !.loc = SetLoc(@, sub.args[i], 0)]
            ELSE LET r == Eval(e.args[i].e, acc.m)
                 IN  [m |-> r.m, loc |-> SetLoc(acc.loc, sub.args[i], r.v)]
        b == FoldLeft(Bind, [m |-> h.m, loc |-> "ret" :> 0], [i \in DOMAIN e.args |-> i])
        outs == [i \in {j \in DOMAIN e.args : e.args[j].out} |-> sub.args[i]]
        item == [k |-> "call", id |-> e.id, outs |-> outs, args |-> e.args,
                 loc |-> b.m.loc, this |-> b.m.this]
    IN  [b.m EXCEPT !.k = Append(Append(@, item), Stmt(sub.body)),
                    !.loc = b.loc, !.this = h.v]

\* The end of call_sub: the caller's context again, output arguments copied back.
Leave(item, m) ==
    LET back == [m EXCEPT !.loc = item.loc, !.this = item.this, !.rv = m.loc["ret"]]
        Out(acc, i) == IF i \in DOMAIN item.outs
                       THEN Assign(item.args[i].e, acc, m.loc[item.outs[i]]) ELSE acc
    IN  FoldLeft(Out, back, [i \in DOMAIN item.args |-> i])

\* Interpreter.eval: the value of e and the thread after its side effects.
EvalExpr(e, m) ==
    LET Same(v) == [v |-> v, m |-> m]
    IN  CASE e.k = "lit" -> Same(e.v)
          [] e.k = "loc" -> Same(m.loc[e.n])
          [] e.k = "fld" -> Same(m.f[<<m.this, e.n>>])
          [] e.k = "net" -> Same(m.net)
          [] e.k = "ofld" -> LET i == Eval(e.ix, m)
                             IN  [i EXCEPT !.v = i.m.f[<<Objects[i.v + 1], e.n>>]]
          [] e.k = "not" -> LET a == Eval(e.a, m) IN [a EXCEPT !.v = Bit(~Truthy(a.v))]
          [] e.k \in {"land", "lor"} ->
                LET a == Eval(e.a, m)
                IN  IF Truthy(a.v) = (e.k = "lor") THEN [a EXCEPT !.v = Bit(e.k = "lor")]
                    ELSE LET b == Eval(e.b, a.m) IN [b EXCEPT !.v = Bit(Truthy(b.v))]
          [] e.k = "bin" -> LET a == Eval(e.a, m)
                                b == Eval(e.b, a.m)
                            IN  [b EXCEPT !.v = Alu(e.op, a.v, b.v)]
          [] e.k = "bit" -> LET a == Eval(e.l, m)
                                b == Eval(e.ix, a.m)
                            IN  [b EXCEPT !.v = Alu("bit", a.v, b.v)]
          [] e.k = "cond" -> LET c == Eval(e.c, m)
                             IN  Eval(IF Truthy(c.v) THEN e.a ELSE e.b, c.m)
          [] e.k = "set" ->
                LET r == Eval(e.e, m)
                    later == [l |-> e.l, loc |-> r.m.loc, this |-> r.m.this, v |-> r.v]
                IN  [r EXCEPT !.m = IF e.nb THEN [r.m EXCEPT !.nba = Append(@, later)]
                                    ELSE Assign(e.l, r.m, r.v)]
          [] e.k = "inc" ->
                LET old == Eval(e.l, m)
                    new == Mask(old.v + 1)
                IN  [v |-> IF e.pre THEN new ELSE old.v, m |-> Assign(e.l, old.m, new)]
          [] e.k = "call" ->      \* run_sync: a function does not block
                LET end == Run(PushCall(e, [m EXCEPT !.k = <<>>]))
                IN  [v |-> end.rv, m |-> [end EXCEPT !.k = m.k]]

\* A new thread with code s: _fork copies the variables its branches see.
Machine(s, loc, this, heap) ==
    [k |-> <<Stmt(s)>>, loc |-> loc, this |-> this, f |-> heap, nba |-> <<>>, net |-> 0,
     blk |-> None, rv |-> 0, acts |-> <<>>]
ForkBranch(s, m) == [k |-> "spawn", m |-> Machine(s, m.loc, m.this, m.f)]

\* Interpreter._exec of one statement; its body is pushed, not run.
ExecStmt(s, m) ==
    CASE s.k = "skip" -> m
      [] s.k = "seq" -> [m EXCEPT !.k = @ \o Reverse([i \in DOMAIN s.ss |-> Stmt(s.ss[i])])]
      [] s.k = "decl" -> LET r == Eval(s.e, m) IN [r.m EXCEPT !.loc = SetLoc(@, s.n, r.v)]
      [] s.k = "expr" -> IF s.e.k = "call" /\ Subs[s.e.sub].task THEN PushCall(s.e, m)
                         ELSE Eval(s.e, m).m
      [] s.k = "if" -> LET c == Eval(s.c, m) IN Push(c.m, IF Truthy(c.v) THEN s.t ELSE s.f)
      [] s.k = "case" ->
            LET r == Eval(s.e, m)
                i == SelectInSeq(s.items, LAMBDA x : r.v \in x.vals)
            IN  Push(r.m, IF i = 0 THEN s.d ELSE s.items[i].s)
      [] s.k \in {"while", "dowhile", "for", "forever", "repeat"} ->
            LET start == IF s.k = "for" THEN Eval(s.i, m).m ELSE m
                n == IF s.k = "repeat" THEN Eval(s.c, m).v ELSE 0
            IN  [start EXCEPT !.k = Append(@, [k |-> "loop", s |-> s, n |-> n, first |-> TRUE])]
      [] s.k = "return" ->
            LET r == IF s.e = None THEN m
                     ELSE LET x == Eval(s.e, m) IN [x.m EXCEPT !.loc = SetLoc(@, "ret", x.v)]
            IN  [r EXCEPT !.k = Unwind(@, "call")]
      [] s.k = "break" -> [m EXCEPT !.k = Front(Unwind(@, "loop"))]
      [] s.k = "continue" -> [m EXCEPT !.k = Unwind(@, "loop")]
      [] s.k \in {"edge", "event", "delay0"} -> [m EXCEPT !.blk = s]
      [] s.k = "wait" -> LET c == Eval(s.c, m)
                         IN  IF Truthy(c.v) THEN c.m ELSE [Push(c.m, s) EXCEPT !.blk = s]
      [] s.k = "trigger" -> [m EXCEPT !.acts = Append(@, s)]
      [] s.k = "fork" -> [m EXCEPT !.acts = @ \o [i \in DOMAIN s.ss |-> ForkBranch(s.ss[i], m)],
                                   !.blk = IF s.join = "none" THEN None ELSE s]

\* One turn of the loop item it: the steps of a `for` (not before the first
\* iteration), the condition, then the body again or out.
ExecLoop(it, m) ==
    LET s == it.s
        m1 == IF s.k = "for" /\ ~it.first THEN Eval(s.st, m).m ELSE m
        left == IF s.k = "repeat" THEN it.n - 1 ELSE 0
        c == CASE s.k = "forever" -> [v |-> 1, m |-> m1]
               [] s.k = "repeat" -> [v |-> it.n, m |-> m1]
               [] s.k = "dowhile" /\ it.first -> [v |-> 1, m |-> m1]
               [] OTHER -> Eval(s.c, m1)
    IN  IF Truthy(c.v)
        THEN [c.m EXCEPT !.k = Append(Append(@, [it EXCEPT !.first = FALSE, !.n = left]),
                                      Stmt(s.b))]
        ELSE c.m

\* Interpreter._step: until the thread blocks (or ends).
ExecItem(it, m) ==
    CASE it.k = "stmt" -> ExecStmt(it.s, m)
      [] it.k = "loop" -> ExecLoop(it, m)
      [] it.k = "call" -> Leave(it, m)
RunOn(m) == IF m.blk # None \/ m.k = <<>> THEN m
            ELSE Run(ExecItem(Last(m.k), [m EXCEPT !.k = Front(@)]))

Interp(op, x, m) ==
    CASE op = "eval" -> EvalExpr(x, m)
      [] op = "assign" -> [v |-> x.v, m |-> AssignTo(x.l, x.v, m)]
      [] op = "run" -> [v |-> 0, m |-> RunOn(m)]

\* The nonblocking assignments of a time slot, applied when nothing is ready.
\* (The code finds a target's index then, in the frame of the assignment; here
\* the locals it needs are kept with the value. The instances use no index that
\* changes in between.)
ApplyNba(m) ==
    LET Set(acc, x) == LET w == Assign(x.l, [acc EXCEPT !.loc = x.loc, !.this = x.this], x.v)
                       IN  [acc EXCEPT !.f = w.f]
    IN  [FoldLeft(Set, m, m.nba) EXCEPT !.nba = <<>>]

\* A clock edge of the thread, with input `net`.
ThreadClock(m, net) == ApplyNba(Run([m EXCEPT !.blk = None, !.net = net]))
=============================================================================
