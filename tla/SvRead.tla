--------------------------------- MODULE SvRead --------------------------------
(***************************************************************************)
(* What a body of SV statements does when it is run as SV: the elaboration *)
(* interpreter's evaluation of expressions and assignments (interp.py),    *)
(* over the operations of ports and memories that a component's step or    *)
(* process uses.                                                           *)
(*                                                                         *)
(* An expression has a kind `k` and a type `t`:                            *)
(*   lit v | var n | lv | mem of off | elem of sel | rng of kind a b       *)
(*   item of sel | conv of prop | un op of | bin op a b | cond c a b       *)
(*   cat args | rep n of | in of items | call f args                       *)
(* `lv` is the target's value in a compound assignment, `item` an element  *)
(* of an unpacked array, `prop` says that the conversion propagates the    *)
(* type of the context.  A symbol n is a <<name, place of declaration>>.   *)
(* Only where a statement allows them: try p x | lget p | rd m.            *)
(*                                                                         *)
(* Statements: decl n t e | set l e nb | inc l d | if c t f loc            *)
(*   case e items d | for n t a c st b | repeat n b | return e             *)
(*   get p x | put p e | stall p e | write m a e | read m a                *)
(*                                                                         *)
(* A port is <<its name>>, or <<its name, index>> in an array of ports.    *)
(*                                                                         *)
(* A run is a record: v the variables' values, log the channel operations  *)
(* so far, out how it ended ("run" until then), ret the value returned, nb *)
(* the pending nonblocking writes, lv as above, and cx the context: the    *)
(* program (mod), the values offered, the outputs that are ready, and      *)
(* `lrm`: whether a propagated conversion extends by the type it           *)
(* propagates, as the SV standard has it, or by the operand's as           *)
(* Interpreter._convert does.                                              *)
(***************************************************************************)
EXTENDS Integers, Sequences, SequencesExt, FiniteSets, Bitwise, TLC

-----------------------------------------------------------------------------
(* Bit vectors as naturals (values.py) and the operators on them.  A packed  *)
(* type is [w, s, l, r]: its width, whether it is signed, and the bounds of  *)
(* its outermost packed dimension.  An unpacked array type has [arr, el]:    *)
(* its size and its element type.                                           *)

Mask(v, w) == v % 2^w
Signed(v, w) == IF Mask(v, w) >= 2^(w - 1) THEN Mask(v, w) - 2^w ELSE Mask(v, w)
Flag(b) == IF b THEN 1 ELSE 0
Truthy(v) == v # 0
IsArray(t) == "arr" \in DOMAIN t
Lesser(a, b) == IF a < b THEN a ELSE b
Greater(a, b) == IF a < b THEN b ELSE a

\* Bits lo .. lo+w-1 of v; the ones outside v are 0.
Slice(v, lo, w) ==
    IF lo > 30 \/ lo <= -w THEN 0
    ELSE IF lo < 0 THEN Mask(v * 2^(-lo), w)
    ELSE Mask(v \div 2^lo, w)
\* v, of width W, with x in bits lo .. lo+w-1: those inside v change.
Merge(v, W, lo, w, x) ==
    LET from == Greater(lo, 0)
        n == Lesser(lo + w, W) - from
    IN  IF n <= 0 THEN v
        ELSE v + (Slice(x, from - lo, n) - Slice(v, from, n)) * 2^from

Ones(v) == Len(SelectSeq([i \in 1 .. 12 |-> (v \div 2^(i - 1)) % 2], LAMBDA b : b = 1))

Unary(op, v, ow, w) ==
    CASE op = "!" -> Flag(v = 0)
      [] op = "~" -> Mask(2^w - 1 - v, w)
      [] op = "-" -> Mask(0 - v, w)
      [] op = "+" -> v
      [] op = "&" -> Flag(v = 2^ow - 1)
      [] op = "~&" -> Flag(v # 2^ow - 1)
      [] op = "|" -> Flag(v # 0)
      [] op = "~|" -> Flag(v = 0)
      [] op = "^" -> Ones(v) % 2
      [] op = "~^" -> 1 - (Ones(v) % 2)

Comparisons == {"==", "!=", "<", "<=", ">", ">="}
Compare(op, a, b) ==
    Flag(CASE op = "==" -> a = b
           [] op = "!=" -> a # b
           [] op = "<" -> a < b
           [] op = "<=" -> a <= b
           [] op = ">" -> a > b
           [] op = ">=" -> a >= b)

Abs(a) == IF a < 0 THEN -a ELSE a
\* Division truncates towards 0, and the remainder takes the dividend's sign.
Div(a, b) == IF b = 0 THEN 0 ELSE IF (a < 0) = (b < 0) THEN Abs(a) \div Abs(b) ELSE 0 - (Abs(a) \div Abs(b))
Rem(a, b) == IF b = 0 THEN 0 ELSE IF a < 0 THEN 0 - (Abs(a) % Abs(b)) ELSE Abs(a) % Abs(b)
ShiftLeft(a, n, w) == IF n >= w THEN 0 ELSE Mask(Mask(a, w - n) * 2^n, w)
ShiftRight(a, n) == IF n > 30 THEN IF a < 0 THEN -1 ELSE 0 ELSE a \div 2^n

\* A binary operator on operands of types lt and rt, its result w bits wide.
Binary(op, a, b, lt, rt, w) ==
    LET sa == IF lt.s THEN Signed(a, lt.w) ELSE a
        sb == IF lt.s THEN Signed(b, rt.w) ELSE b
    IN  CASE op = "&&" -> Flag(Truthy(a) /\ Truthy(b))
          [] op = "||" -> Flag(Truthy(a) \/ Truthy(b))
          [] op = "->" -> Flag(~Truthy(a) \/ Truthy(b))
          [] op = "<->" -> Flag(Truthy(a) = Truthy(b))
          [] op \in {"==", "!="} -> Compare(op, a, b)
          [] op \in {"<", "<=", ">", ">="} -> Compare(op, sa, sb)
          [] op = "+" -> Mask(a + b, w)
          [] op = "-" -> Mask(a - b, w)
          [] op = "*" -> Mask(a * b, w)
          [] op = "/" -> Mask(Div(sa, sb), w)
          [] op = "%" -> Mask(Rem(sa, sb), w)
          [] op = "&" -> a & b
          [] op = "|" -> a | b
          [] op = "^" -> a ^^ b
          [] op = "~^" -> Mask(2^w - 1 - (a ^^ b), w)
          [] op \in {"<<", "<<<"} -> ShiftLeft(a, b, w)
          [] op = ">>" -> ShiftRight(a, b)
          [] op = ">>>" -> Mask(ShiftRight(sa, b), w)

\* Bit position of element idx of a packed vector or array of type t.
BitOffset(t, idx, ew) == (IF t.l >= t.r THEN idx - t.r ELSE t.r - idx) * ew
\* The lowest bit of part select a : b (or a +: b, or a -: b) of type t.
RangeLo(t, kind, a, b) ==
    LET down == t.l >= t.r
        first == CASE kind = ":" -> IF down THEN Lesser(a, b) ELSE Greater(a, b)
                   [] kind = "+:" -> IF down THEN a ELSE a + b - 1
                   [] kind = "-:" -> IF down THEN a - b + 1 ELSE a
    IN  BitOffset(t, first, t.w \div (Abs(t.l - t.r) + 1))
\* A value of type `from` converted to type `to`.
Convert(v, from, to, signed) == Mask(IF signed THEN Signed(v, from.w) ELSE v, to.w)

-----------------------------------------------------------------------------
(* Expressions and statements. *)

CONSTANT None

\* Sv("ev", e, s) is e's value, Sv("to", <<l, v>>, s) the run after l = v,
\* Sv("do", b, s) after the statements b, Sv("at", p, s) the port p names.
RECURSIVE Sv(_, _, _)

\* A run-time index: its type's sign counts in SV.
Index(e, s) == IF s.cx.lrm /\ e.t.s THEN Signed(Sv("ev", e, s), e.t.w) ELSE Sv("ev", e, s)
\* The lowest bit of what e selects of a packed value.
Lo(e, s) == CASE e.k = "mem" -> e.off
              [] e.k = "elem" -> BitOffset(e.of.t, Index(e.sel, s), e.t.w)
              [] e.k = "rng" -> RangeLo(e.of.t, e.kind, Index(e.a, s), Sv("ev", e.b, s))
InBounds(a, i) == i + 1 \in DOMAIN a
Item(a, i) == IF InBounds(a, i) THEN a[i + 1] ELSE 0
Joined(args, s) == FoldLeft(LAMBDA v, x : v * 2^(x.t.w) + Mask(Sv("ev", x, s), x.t.w), 0, args)
Copies(n, w, v) == FoldLeft(LAMBDA u, i : u * 2^w + v, 0, [i \in 1 .. n |-> i])
Inside(v, items, s) ==
    \E i \in DOMAIN items : IF Len(items[i]) = 1 THEN Sv("ev", items[i][1], s) = v
                            ELSE Sv("ev", items[i][1], s) <= v /\ v <= Sv("ev", items[i][2], s)
Frame(f, args, s) ==
    [s EXCEPT !.v = [n \in {f.args[i] : i \in DOMAIN f.args} \cup {f.n} |->
                        IF n = f.n THEN 0
                        ELSE Sv("ev", args[CHOOSE i \in DOMAIN args : f.args[i] = n], s)]]
\* `return`, or the variable of the function's name.
Result(f, s) == IF s.out = "ret" THEN s.ret ELSE s.v[f.n]
Fn(mod, f) == mod.fns[CHOOSE i \in DOMAIN mod.fns : mod.fns[i].id = f]

\* Interpreter.eval and what it calls.
Value(e, s) ==
    CASE e.k = "lit" -> e.v
      [] e.k = "var" -> s.v[e.n]
      [] e.k = "lv" -> s.lv
      [] e.k \in {"mem", "elem", "rng"} -> Slice(Sv("ev", e.of, s), Lo(e, s), e.t.w)
      [] e.k = "item" -> Item(Sv("ev", e.of, s), Index(e.sel, s))
      [] e.k = "conv" -> Convert(Sv("ev", e.of, s), e.of.t, e.t,
                                 IF s.cx.lrm /\ e.prop THEN e.t.s ELSE e.of.t.s)
      [] e.k = "un" -> Unary(e.op, Sv("ev", e.of, s), e.of.t.w, e.t.w)
      [] e.k = "bin" -> Binary(e.op, Sv("ev", e.a, s), Sv("ev", e.b, s), e.a.t, e.b.t, e.t.w)
      [] e.k = "cond" -> IF Truthy(Sv("ev", e.c, s)) THEN Sv("ev", e.a, s) ELSE Sv("ev", e.b, s)
      [] e.k = "cat" -> Joined(e.args, s)
      [] e.k = "rep" -> Copies(e.n, e.of.t.w, Sv("ev", e.of, s))
      [] e.k = "in" -> Flag(Inside(Sv("ev", e.of, s), e.items, s))
      [] e.k = "call" -> Result(Fn(s.cx.mod, e.f),
                                Sv("do", Fn(s.cx.mod, e.f).body, Frame(Fn(s.cx.mod, e.f), e.args, s)))

\* Interpreter.assign: a part of a variable is merged into its old value.
Assign(l, v, s) ==
    CASE l.k = "var" -> [s EXCEPT !.v[l.n] = IF IsArray(l.t) THEN v ELSE Mask(v, l.t.w)]
      [] l.k \in {"mem", "elem", "rng"} ->
            Sv("to", <<l.of, Merge(Sv("ev", l.of, s), l.of.t.w, Lo(l, s), l.t.w, v)>>, s)
      [] l.k = "item" ->
            LET i == Index(l.sel, s)
            IN  IF InBounds(s.v[l.of.n], i) THEN [s EXCEPT !.v[l.of.n][i + 1] = Mask(v, l.t.w)] ELSE s
      [] l.k = "cat" ->
            FoldLeft(LAMBDA a, x : [s |-> Sv("to", <<x, Slice(v, a.at, x.t.w)>>, a.s), at |-> a.at + x.t.w],
                     [s |-> s, at |-> 0], Reverse(l.args)).s

-----------------------------------------------------------------------------
(* Channel operations *)

Log(s, op, p, v) == [s EXCEPT !.log = Append(@, <<op, p, v>>)]
Offered(p, s) == s.cx.offers[p] # None
\* try_get: an output argument is written back whether or not a value came.
Try(e, s) ==
    LET p == Sv("at", e.p, s)
    IN  IF Offered(p, s) THEN Sv("to", <<e.x, s.cx.offers[p]>>, Log(s, "take", p, s.cx.offers[p]))
        ELSE Sv("to", <<e.x, 0>>, s)
Poll(c) == \/ c.k = "try"
           \/ c.k = "bin" /\ c.op = "&&" /\ c.b.k = "try"
TryOf(c) == IF c.k = "try" THEN c ELSE c.b
Guarded(c, s) == c.k = "try" \/ Truthy(Sv("ev", c.a, s))

\* A value read from elsewhere than the variables.
Read(e, s) ==
    CASE e.k = "try" -> Flag(Offered(Sv("at", e.p, s), s))
      [] e.k = "lget" -> s.cx.offers[Sv("at", e.p, s)]
      [] e.k = "rd" -> s.cx.offers[e.m]
      [] OTHER -> Sv("ev", e, s)

-----------------------------------------------------------------------------
(* Statements *)

Stmt(x, s) ==
    CASE x.k = "decl" ->
            [s EXCEPT !.v = x.n :> (IF IsArray(x.t) THEN [i \in 1 .. x.t.arr |-> 0]
                                    ELSE IF x.e = None THEN 0 ELSE Sv("ev", x.e, s)) @@ @]
      [] x.k = "set" ->
            LET lv == [s EXCEPT !.lv = IF x.comp THEN Sv("ev", x.l, s) ELSE 0]
                v == Read(x.e, lv)
                after == IF x.e.k = "try" THEN Try(x.e, s) ELSE s
            IN  IF x.nb THEN [s EXCEPT !.nb = Append(@, <<x.l, v>>)] ELSE Sv("to", <<x.l, v>>, after)
      [] x.k = "inc" -> Sv("to", <<x.l, Sv("ev", x.l, s) + x.d + 2^(x.l.t.w)>>, s)
      [] x.k = "if" ->
            IF ~Poll(x.c) THEN Sv("do", IF Truthy(Sv("ev", x.c, s)) THEN x.t ELSE x.f, s)
            ELSE IF ~Guarded(x.c, s) THEN Sv("do", x.f, s)
            ELSE Sv("do", IF Offered(Sv("at", TryOf(x.c).p, s), s) THEN x.t ELSE x.f, Try(TryOf(x.c), s))
      [] x.k = "case" ->
            LET v == Sv("ev", x.e, s)
                hit == SelectInSeq(x.items, LAMBDA i : \E j \in DOMAIN i[1] : Sv("ev", i[1][j], s) = v)
            IN  Sv("do", IF hit = 0 THEN x.d ELSE x.items[hit][2], s)
      [] x.k = "for" -> Sv("loop", x, [s EXCEPT !.v = x.n :> Sv("ev", x.a, s) @@ @])
      [] x.k = "repeat" -> FoldLeft(LAMBDA u, i : Sv("do", x.b, u), s, [i \in 1 .. x.n |-> i])
      [] x.k = "return" -> [s EXCEPT !.out = "ret", !.ret = Sv("ev", x.e, s)]
      [] x.k = "get" ->
            LET p == Sv("at", x.p, s)
            IN  IF Offered(p, s) THEN Sv("to", <<x.x, s.cx.offers[p]>>, Log(s, "take", p, s.cx.offers[p]))
                ELSE [s EXCEPT !.out = "block"]
      [] x.k = "put" -> Log(s, "put", Sv("at", x.p, s), Sv("ev", x.e, s))
      [] x.k = "stall" ->
            IF Sv("at", x.p, s) \in s.cx.ready THEN Log(s, "put", Sv("at", x.p, s), Sv("ev", x.e, s))
            ELSE [s EXCEPT !.out = "stall"]
      [] x.k \in {"read", "write"} ->
            Log(s, x.k, x.m, <<Sv("ev", x.a, s), IF x.k = "read" THEN 0 ELSE Sv("ev", x.e, s)>>)

Sv(what, x, s) ==
    CASE what = "ev" -> Value(x, s)
      [] what = "to" -> Assign(x[1], x[2], s)
      [] what = "at" -> IF Len(x) = 1 THEN x ELSE <<x[1], Sv("ev", x[2], s)>>
      [] what = "do" -> FoldLeft(LAMBDA u, y : IF u.out = "run" THEN Stmt(y, u) ELSE u, s, x)
      [] what = "loop" -> IF s.out # "run" \/ ~Truthy(Sv("ev", x.c, s)) THEN s
                          ELSE Sv("loop", x, Sv("do", x.st, Sv("do", x.b, s)))

Run(mod, lrm, vars, offers, ready) ==
    [v |-> vars, log |-> <<>>, out |-> "run", ret |-> 0, nb |-> <<>>, lv |-> 0,
     cx |-> [mod |-> mod, lrm |-> lrm, offers |-> offers, ready |-> ready]]
\* The nonblocking writes of a time step are made after it, in order.
Settled(s) == FoldLeft(LAMBDA u, w : Sv("to", w, u), s, s.nb)
Symbols(vars) == {vars[i].n : i \in DOMAIN vars}
\* A step that stalls has no effect; a process that blocks keeps its state.
Activation(mod, lrm, vars, offers, ready) ==
    LET s == Settled(Sv("do", mod.body, Run(mod, lrm, vars, offers, ready)))
    IN  [v |-> IF s.out \in {"stall", "block"} THEN vars ELSE [n \in DOMAIN vars |-> s.v[n]],
         log |-> IF s.out = "stall" THEN <<>> ELSE s.log, out |-> s.out]
=============================================================================
