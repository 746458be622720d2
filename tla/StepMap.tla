-------------------------------- MODULE StepMap --------------------------------
(***************************************************************************)
(* static_mapper.py: a component's class as Zuspec IR in which the width   *)
(* of every expression follows from its operands.                          *)
(*                                                                         *)
(* A class is a record:                                                    *)
(*   chain   its classes, most derived first: [lib, defines, implements]   *)
(*   vars    properties (declared at place 0) and, of a process, what      *)
(*           run() declares before its forever: [n, t, e]                  *)
(*   ports   port name -> [api, arr]; mems memory -> [aw, w]               *)
(*   fns     its functions: [id, args, ts, n, t, body]                     *)
(*   body    step(), or what run() does forever                            *)
(*                                                                         *)
(* IR expressions: c w s v | idx v | loc n | fld n | cast w s of           *)
(*   part of base w | sub of i | un op of | bin op a b | cmp op a b        *)
(*   bool op a b | if c a b | cat args | rep n of | call f args            *)
(* IR statements: let n t e | asg to e | if c t f | while c b | rep n b    *)
(*   match e items d | ret e | try p x to | recv p to | send p e           *)
(***************************************************************************)
EXTENDS SvRead

RECURSIVE Declared(_), Within(_), MapE(_, _), MapS(_, _)

-----------------------------------------------------------------------------
(* What the class is *)

\* registry.port_apis.
Api(cls, p) ==
    CASE cls.ports[p[1]].api = "fw_get_if" -> [dir |-> "get", flow |-> "ready_valid", polls |-> FALSE, stalls |-> FALSE]
      [] cls.ports[p[1]].api = "fw_get_nb_if" -> [dir |-> "get", flow |-> "ready_valid", polls |-> TRUE, stalls |-> FALSE]
      [] cls.ports[p[1]].api = "fw_put_if" -> [dir |-> "put", flow |-> "ready_valid", polls |-> FALSE, stalls |-> FALSE]
      [] cls.ports[p[1]].api = "fw_put_step_if" -> [dir |-> "put", flow |-> "ready_valid", polls |-> FALSE, stalls |-> TRUE]
      [] cls.ports[p[1]].api = "fw_valid_put_if" -> [dir |-> "put", flow |-> "valid", polls |-> FALSE, stalls |-> FALSE]
      [] cls.ports[p[1]].api = "fw_level_if" -> [dir |-> "get", flow |-> "level", polls |-> FALSE, stalls |-> FALSE]
      [] cls.ports[p[1]].api = "fw_level_set_if" -> [dir |-> "put", flow |-> "level", polls |-> FALSE, stalls |-> FALSE]

Own(cls) == {i \in DOMAIN cls.chain : \A j \in 1 .. i : ~cls.chain[j].lib}
Implements(cls, what) == \E i \in DOMAIN cls.chain : what \in cls.chain[i].implements
Defines(cls, what) ==
    \E i \in Own(cls) : what \in cls.chain[i].defines
                        /\ (what = "step" => Implements(cls, "fw_steppable"))
\* find_behavior, and what map_component makes of it.
Behavior(cls) == IF Defines(cls, "run") THEN "run"
                 ELSE IF Implements(cls, "fw_atomic_steppable") THEN "atomic" ELSE "step"

\* The statements inside statements b.
Within(b) ==
    FlattenSeq([i \in DOMAIN b |->
        <<b[i]>> \o (CASE b[i].k = "if" -> Within(b[i].t) \o Within(b[i].f)
                       [] b[i].k = "case" -> FlattenSeq([j \in DOMAIN b[i].items |-> Within(b[i].items[j][2])])
                                             \o Within(b[i].d)
                       [] b[i].k \in {"for", "repeat"} -> Within(b[i].b)
                       [] OTHER -> <<>>)])
\* The channel operations of a statement: [op, p].
Ops(x) == {[op |-> y[1], p |-> y[2]] : y \in
    CASE x.k \in {"get", "put", "stall"} -> {<<x.k, x.p>>}
      [] x.k = "set" /\ x.e.k \in {"try", "lget"} -> {<<x.e.k, x.e.p>>}
      [] x.k = "if" /\ Poll(x.c) -> {<<"try", TryOf(x.c).p>>}
      [] OTHER -> {}}
UsesPortArray(b) == \E i \in DOMAIN Within(b) : \E o \in Ops(Within(b)[i]) : Len(o.p) = 2

-----------------------------------------------------------------------------
(* Names.  A local is known by its symbol; its IR name is its SV name,     *)
(* numbered when the body already has one of that name.                    *)

NewLocal(names, n) ==
    IF n \in DOMAIN names THEN names
    ELSE LET used == {names[x] : x \in DOMAIN names}
             i == CHOOSE i \in 0 .. Cardinality(used) :
                      <<n[1], i>> \notin used /\ \A j \in 0 .. i - 1 : <<n[1], j>> \in used
         IN  n :> <<n[1], i>> @@ names
\* What the statements b declare, in the order in which they are mapped: the
\* flag of a polled condition is a local `ok`.
Declared(b) ==
    FlattenSeq([i \in DOMAIN b |->
        CASE b[i].k = "decl" -> <<b[i].n>>
          [] b[i].k = "if" -> (IF Poll(b[i].c) THEN <<<<"ok", b[i].loc>>>> ELSE <<>>)
                              \o Declared(b[i].t) \o Declared(b[i].f)
          [] b[i].k = "case" -> FlattenSeq([j \in DOMAIN b[i].items |-> Declared(b[i].items[j][2])])
                                \o Declared(b[i].d)
          [] b[i].k = "for" -> (IF UsesPortArray(b[i].b) THEN <<>> ELSE <<b[i].n>>) \o Declared(b[i].b)
          [] b[i].k = "repeat" -> Declared(b[i].b)
          [] OTHER -> <<>>])
Names(first, b) == FoldLeft(NewLocal, <<>>, first \o Declared(b))
\* request_function: by the path of the specialization, not only by name.
Earlier(cls, i) == {j \in 1 .. i - 1 : cls.fns[j].id[2] = cls.fns[i].id[2]}
FnName(cls, f) == LET i == CHOOSE i \in DOMAIN cls.fns : cls.fns[i].id = f
                  IN  <<f[2], Cardinality(Earlier(cls, i))>>

-----------------------------------------------------------------------------
(* Expressions, in a context [cls, names, un, lv]: the class, the IR names *)
(* of locals, the values of the variables of loops being unrolled, and the *)
(* target of the compound assignment whose value is being mapped.          *)

Const(t, v) == [k |-> "c", w |-> t.w, s |-> t.s, v |-> Mask(v, t.w)]
Cast(e, w, s) == [k |-> "cast", w |-> w, s |-> s, of |-> e]
\* The locals that run() declares before its forever.
Prologue(cls) == SelectSeq([i \in DOMAIN cls.vars |-> cls.vars[i].n], LAMBDA n : n[2] # 0)
BitLength(n) == CHOOSE i \in 0 .. 16 : n < 2^i /\ (i = 0 \/ 2^(i - 1) <= n)

Named(e, c) ==
    IF e.n \in DOMAIN c.un THEN Const(e.t, c.un[e.n])
    ELSE IF e.n \in DOMAIN c.names THEN [k |-> "loc", n |-> c.names[e.n]]
    ELSE [k |-> "fld", n |-> e.n]

\* A cast extends by its operand's sign, so a propagated type is put on first.
Conversion(e, c) ==
    IF e.of.t.w = e.t.w /\ e.of.t.s = e.t.s THEN MapE(e.of, c)
    ELSE Cast(IF e.prop /\ e.of.t.s # e.t.s THEN Cast(MapE(e.of, c), e.of.t.w, e.t.s) ELSE MapE(e.of, c),
              e.t.w, e.t.s)

\* Mutant: the offset is computed in the index's own width.
Offset_Narrow(i, lo, scale, c) ==
    IF i.k = "lit" THEN [k |-> "idx", v |-> ((IF i.t.s THEN Signed(i.v, i.t.w) ELSE i.v) - lo) * scale]
    ELSE LET w == i.t.w
             Num(v) == [k |-> "c", w |-> w, s |-> TRUE, v |-> Mask(v, w)]
             diff == [k |-> "bin", op |-> "-", a |-> Cast(MapE(i, c), w, TRUE), b |-> Num(lo)]
         IN  IF scale = 1 THEN diff ELSE [k |-> "bin", op |-> "*", a |-> diff, b |-> Num(scale)]
\* _offset_expr: (i - lo) * scale, signed and wide enough not to wrap.
Offset(i, lo, scale, c) ==
    IF i.k = "lit" THEN [k |-> "idx", v |-> ((IF i.t.s THEN Signed(i.v, i.t.w) ELSE i.v) - lo) * scale]
    ELSE LET w == Greater(Greater(i.t.w, BitLength(Abs(lo))), 1) + BitLength(scale) + 2
             Num(v) == [k |-> "c", w |-> w, s |-> TRUE, v |-> Mask(v, w)]
             diff == [k |-> "bin", op |-> "-", a |-> Cast(MapE(i, c), w, TRUE), b |-> Num(lo)]
         IN  IF scale = 1 THEN diff ELSE [k |-> "bin", op |-> "*", a |-> diff, b |-> Num(scale)]
RangeOffset(e, c) ==
    LET ew == e.of.t.w \div (e.of.t.l - e.of.t.r + 1)
    IN  CASE e.kind = ":" -> Offset(e.b, e.of.t.r, ew, c)
          [] e.kind = "+:" -> Offset(e.a, e.of.t.r, ew, c)
          [] e.kind = "-:" -> Offset(e.a, e.of.t.r + e.b.v - 1, ew, c)
Part(e, c) ==
    [k |-> "part", of |-> MapE(e.of, c), w |-> e.t.w,
     base |-> CASE e.k = "mem" -> [k |-> "idx", v |-> e.off]
                [] e.k = "elem" -> Offset(e.sel, e.of.t.r, e.t.w, c)
                [] e.k = "rng" -> RangeOffset(e, c)]

IrUn(op, e) == [k |-> "un", op |-> op, of |-> e]
MapUn(op, e) == CASE op = "~&" -> IrUn("~", IrUn("&", e))
                  [] op = "~|" -> IrUn("~", IrUn("|", e))
                  [] op = "~^" -> IrUn("~", IrUn("^", e))
                  [] OTHER -> IrUn(op, e)
MapBin(op, a, b) ==
    LET Of(kind, o) == [k |-> kind, op |-> o, a |-> a, b |-> b]
    IN  CASE op \in Comparisons -> Of("cmp", op)
          [] op \in {"&&", "||"} -> Of("bool", op)
          [] op = "~^" -> IrUn("~", Of("bin", "^"))
          [] op = "<<<" -> Of("bin", "<<")
          [] OTHER -> Of("bin", op)

\* StaticMapper._expr.
MapE(e, c) ==
    CASE e.k = "lit" -> Const(e.t, e.v)
      [] e.k = "var" -> Named(e, c)
      [] e.k = "lv" -> c.lv
      [] e.k = "conv" -> Conversion(e, c)
      [] e.k = "un" -> MapUn(e.op, MapE(e.of, c))
      [] e.k = "bin" -> MapBin(e.op, MapE(e.a, c), MapE(e.b, c))
      [] e.k = "cond" -> [k |-> "if", c |-> MapE(e.c, c), a |-> MapE(e.a, c), b |-> MapE(e.b, c)]
      [] e.k = "cat" -> [k |-> "cat", args |-> [i \in DOMAIN e.args |-> MapE(e.args[i], c)]]
      [] e.k = "rep" -> [k |-> "rep", n |-> e.n, of |-> MapE(e.of, c)]
      [] e.k = "item" -> [k |-> "sub", of |-> MapE(e.of, c), i |-> MapE(e.sel, c)]
      [] e.k \in {"mem", "elem", "rng"} -> Part(e, c)
      [] e.k = "call" -> [k |-> "call", f |-> FnName(c.cls, e.f),
                          args |-> [i \in DOMAIN e.args |-> MapE(e.args[i], c)]]

-----------------------------------------------------------------------------
(* Statements *)

ConstIndex(i, c) == IF i.k = "lit" THEN i.v ELSE IF i.k = "var" /\ i.n \in DOMAIN c.un THEN c.un[i.n] ELSE None
\* _port_of: an element of an array of ports is a port of its own.
PortOf(p, c) == IF Len(p) = 1 THEN p ELSE <<p[1], ConstIndex(p[2], c)>>
Asg(to, e) == [k |-> "asg", to |-> to, e |-> e]
TryIr(e, to, c) == [k |-> "try", p |-> PortOf(e.p, c), x |-> MapE(e.x, c), to |-> to]

\* expr_stmt of an assignment.
MapSet(x, c) ==
    LET to == MapE(x.l, c)
    IN  CASE x.e.k = "try" -> TryIr(x.e, to, c)
          [] x.e.k = "lget" -> [k |-> "recv", p |-> PortOf(x.e.p, c), to |-> to]
          [] x.e.k = "rd" -> [k |-> "recv", p |-> x.e.m, to |-> to]
          [] OTHER -> Asg(to, MapE(x.e, [c EXCEPT !.lv = to]))

\* polled_if: the poll fills a flag first, under `a` in `a && try_get`.
PolledIf(x, c) ==
    LET ok == [k |-> "loc", n |-> c.names[<<"ok", x.loc>>]]
        poll == <<[k |-> "let", n |-> ok.n, t |-> [w |-> 1, s |-> FALSE], e |-> None],
                  TryIr(TryOf(x.c), ok, c),
                  [k |-> "if", c |-> ok, t |-> MapS(x.t, c), f |-> MapS(x.f, c)]>>
    IN  IF x.c.k = "try" THEN poll ELSE <<[k |-> "if", c |-> MapE(x.c.a, c), t |-> poll, f |-> <<>>]>>

\* case: every item is brought to the widest width, by its own sign.
Sized(e, w, c) == IF e.t.w = w THEN MapE(e, c) ELSE Cast(MapE(e, c), w, FALSE)
MapCase(x, c) ==
    LET exprs == <<x.e>> \o FlattenSeq([i \in DOMAIN x.items |-> x.items[i][1]])
        w == FoldLeft(LAMBDA m, e : Greater(m, e.t.w), 0, exprs)
    IN  [k |-> "match", e |-> Sized(x.e, w, c), d |-> MapS(x.d, c),
         items |-> [i \in DOMAIN x.items |->
                        <<[j \in DOMAIN x.items[i][1] |-> Sized(x.items[i][1][j], w, c)], MapS(x.items[i][2], c)>>]]

\* unrolled_for: `for (int k = a; k < b; k++)`, or k <= b.
Unrolled(x) == [i \in 1 .. x.c.b.v + (IF x.c.op = "<=" THEN 1 ELSE 0) - x.a.v |-> x.a.v + i - 1]
MapFor(x, c) ==
    IF UsesPortArray(x.b)
    THEN FlattenSeq([i \in DOMAIN Unrolled(x) |-> MapS(x.b, [c EXCEPT !.un = x.n :> Unrolled(x)[i] @@ @])])
    ELSE <<[k |-> "let", n |-> c.names[x.n], t |-> x.t, e |-> MapE(x.a, c)],
           [k |-> "while", c |-> MapE(x.c, c), b |-> MapS(x.b \o x.st, c)]>>

\* _mem_call: a put of {we, a, wd} on the memory's request port.
MemCall(x, c) ==
    LET m == c.cls.mems[x.m]
        Bits(v, w) == [k |-> "c", w |-> w, s |-> FALSE, v |-> v]
        wd == IF x.k = "write" THEN Cast(MapE(x.e, c), m.w, FALSE) ELSE Bits(0, m.w)
    IN  [k |-> "send", p |-> x.m,
         e |-> [k |-> "cat", args |-> <<Bits(IF x.k = "write" THEN 1 ELSE 0, 1),
                                        Cast(MapE(x.a, c), m.aw, FALSE), wd>>]]

\* StaticMapper._stmt.
MapStmt(x, c) ==
    CASE x.k = "decl" -> <<[k |-> "let", n |-> c.names[x.n], t |-> x.t,
                            e |-> IF x.e = None THEN None ELSE MapE(x.e, c)]>>
      [] x.k = "set" -> <<MapSet(x, c)>>
      [] x.k = "inc" -> LET to == MapE(x.l, c)
                        IN  <<Asg(to, [k |-> "bin", op |-> IF x.d = 1 THEN "+" ELSE "-", a |-> to,
                                       b |-> Const(x.l.t, 1)])>>
      [] x.k = "if" -> IF Poll(x.c) THEN PolledIf(x, c)
                       ELSE <<[k |-> "if", c |-> MapE(x.c, c), t |-> MapS(x.t, c), f |-> MapS(x.f, c)]>>
      [] x.k = "case" -> <<MapCase(x, c)>>
      [] x.k = "for" -> MapFor(x, c)
      [] x.k = "repeat" -> <<[k |-> "rep", n |-> x.n, b |-> MapS(x.b, c)]>>
      [] x.k = "return" -> <<[k |-> "ret", e |-> MapE(x.e, c)]>>
      [] x.k = "get" -> <<[k |-> "recv", p |-> PortOf(x.p, c), to |-> MapE(x.x, c)]>>
      [] x.k \in {"put", "stall"} -> <<[k |-> "send", p |-> PortOf(x.p, c), e |-> MapE(x.e, c)]>>
      [] x.k \in {"read", "write"} -> <<MemCall(x, c)>>
MapS(b, c) == FlattenSeq([i \in DOMAIN b |-> MapStmt(b[i], c)])

Context(cls, names) == [cls |-> cls, names |-> names, un |-> <<>>, lv |-> None]
\* map_function: the variable of the function's name is what it returns at its end.
MapFunction(cls, f) ==
    LET c == Context(cls, Names(f.args \o <<f.n>>, f.body))
        rv == c.names[f.n]
    IN  [n |-> FnName(cls, f.id), t |-> f.t, ts |-> f.ts,
         args |-> [i \in DOMAIN f.args |-> c.names[f.args[i]]],
         body |-> <<[k |-> "let", n |-> rv, t |-> f.t, e |-> None]>> \o MapS(f.body, c)
                  \o <<[k |-> "ret", e |-> [k |-> "loc", n |-> rv]]>>]
BodyNames(cls) == Names(Prologue(cls), cls.body)
\* map_component.
MapComponent(cls) ==
    [body |-> MapS(cls.body, Context(cls, BodyNames(cls))),
     fns |-> [i \in DOMAIN cls.fns |-> MapFunction(cls, cls.fns[i])],
     behavior |-> Behavior(cls), mems |-> cls.mems]

-----------------------------------------------------------------------------
(* What is refused *)

Memories(cls) == DOMAIN cls.mems
\* Mutant: a step with a memory may stall.
Refused_MemStall(cls, o) ==
    CASE o.op = "try" -> ~Api(cls, o.p).polls
      [] o.op = "stall" -> Behavior(cls) # "atomic" \/ ~Api(cls, o.p).stalls
      [] o.op = "put" -> Behavior(cls) # "run" /\ Api(cls, o.p).flow = "ready_valid"
      [] OTHER -> FALSE
\* call_stmt and try_get: the operation o is not one that this class may do.
Refused(cls, o) ==
    CASE o.op = "try" -> ~Api(cls, o.p).polls
      [] o.op = "stall" -> Behavior(cls) # "atomic" \/ ~Api(cls, o.p).stalls \/ Memories(cls) # {}
      [] o.op = "put" -> Behavior(cls) # "run" /\ Api(cls, o.p).flow = "ready_valid"
      [] OTHER -> FALSE
Accepted(cls) ==
    /\ ~(Defines(cls, "run") /\ Defines(cls, "step"))
    /\ Behavior(cls) = "run" => \A i \in DOMAIN Within(cls.body) : Within(cls.body)[i].k \notin {"read", "write"}
    /\ \A i \in DOMAIN Within(cls.body) :
          LET x == Within(cls.body)[i]
          IN  /\ \A o \in Ops(x) : ~Refused(cls, o)
              /\ x.k = "if" /\ Poll(x.c) /\ x.c.k = "bin" => x.f = <<>>

-----------------------------------------------------------------------------
(* What the IR does: one activation of a component, as the back end that is *)
(* not part of this repository lowers it (the static subset of              *)
(* zuspec-semantics.md, 6.3.1).  A value is [w, s, v]; an expression's width *)
(* and sign come from its operands.  A run is a record: f the fields, l the *)
(* locals by IR name, log, out, ret as in SvRead, and cx: the component     *)
(* (ir), the values offered and the outputs that are ready.                 *)

\* Ir("ev", e, m) is e's value, Ir("to", <<l, v>>, m) the run after l = v,
\* Ir("do", b, m) after the statements b.
RECURSIVE Ir(_, _, _)

Typed(w, s, v) == [w |-> w, s |-> s, v |-> Mask(v, w)]
BitOf(b) == [w |-> 1, s |-> FALSE, v |-> Flag(b)]
Num(x) == IF x.s THEN Signed(x.v, x.w) ELSE x.v
IrZero(t) == IF IsArray(t) THEN [el |-> t.el, a |-> [i \in 1 .. t.arr |-> 0]] ELSE Typed(t.w, t.s, 0)

IrBin(op, a, b) ==
    LET s == a.s /\ b.s
        t == [w |-> a.w, s |-> s]
    IN  CASE op = "<<" -> Typed(a.w, a.s, ShiftLeft(a.v, b.v, a.w))
          [] op = ">>" -> Typed(a.w, a.s, ShiftRight(a.v, b.v))
          [] op = ">>>" -> Typed(a.w, a.s, ShiftRight(Num(a), b.v))
          [] OTHER -> Typed(a.w, s, Binary(op, a.v, b.v, t, t, a.w))
IrCmp(op, a, b) == BitOf(IF a.s /\ b.s THEN Compare(op, Num(a), Num(b)) = 1 ELSE Compare(op, a.v, b.v) = 1)
IrUnary(op, x) == IF op \in {"!", "&", "|", "^"} THEN Typed(1, FALSE, Unary(op, x.v, x.w, 1))
                  ELSE Typed(x.w, x.s, Unary(op, x.v, x.w, x.w))
IrJoin(args, m) ==
    FoldLeft(LAMBDA v, e : LET x == Ir("ev", e, m)
                           IN  [w |-> v.w + x.w, s |-> FALSE, v |-> v.v * 2^(x.w) + x.v],
             [w |-> 0, s |-> FALSE, v |-> 0], args)
IrCopies(n, x) == [w |-> n * x.w, s |-> FALSE, v |-> Copies(n, x.w, x.v)]
\* A part select reads 0 for the bits outside its operand, a negative base included.
IrPart(x, base, w) == Typed(w, FALSE, Slice(x.v, base, w))
IrItem(a, i) == Typed(a.el.w, a.el.s, Item(a.a, Num(i)))
Choice(c, x, y) == [w |-> x.w, s |-> x.s /\ y.s, v |-> IF c.v # 0 THEN x.v ELSE y.v]
IrFn(m, f) == m.cx.ir.fns[CHOOSE i \in DOMAIN m.cx.ir.fns : m.cx.ir.fns[i].n = f]
IrFrame(f, args, m) ==
    [m EXCEPT !.l = [n \in {f.args[i] : i \in DOMAIN f.args} |->
                        LET i == CHOOSE i \in DOMAIN f.args : f.args[i] = n
                        IN  Typed(f.ts[i].w, f.ts[i].s, Ir("ev", args[i], m).v)]]
IrCall(e, m) ==
    LET f == IrFn(m, e.f)
    IN  Typed(f.t.w, f.t.s, Ir("do", f.body, IrFrame(f, e.args, m)).ret.v)

IrValue(e, m) ==
    CASE e.k = "c" -> [w |-> e.w, s |-> e.s, v |-> e.v]
      [] e.k = "idx" -> [w |-> 30, s |-> FALSE, v |-> e.v]
      [] e.k = "loc" -> m.l[e.n]
      [] e.k = "fld" -> m.f[e.n]
      [] e.k = "cast" -> Typed(e.w, e.s, Num(Ir("ev", e.of, m)))
      [] e.k = "part" -> IrPart(Ir("ev", e.of, m), Num(Ir("ev", e.base, m)), e.w)
      [] e.k = "sub" -> IrItem(Ir("ev", e.of, m), Ir("ev", e.i, m))
      [] e.k = "un" -> IrUnary(e.op, Ir("ev", e.of, m))
      [] e.k = "bin" -> IrBin(e.op, Ir("ev", e.a, m), Ir("ev", e.b, m))
      [] e.k = "cmp" -> IrCmp(e.op, Ir("ev", e.a, m), Ir("ev", e.b, m))
      [] e.k = "bool" -> BitOf(Binary(e.op, Ir("ev", e.a, m).v, Ir("ev", e.b, m).v,
                                      [s |-> FALSE], [s |-> FALSE], 1) = 1)
      [] e.k = "if" -> Choice(Ir("ev", e.c, m), Ir("ev", e.a, m), Ir("ev", e.b, m))
      [] e.k = "cat" -> IrJoin(e.args, m)
      [] e.k = "rep" -> IrCopies(e.n, Ir("ev", e.of, m))
      [] e.k = "call" -> IrCall(e, m)

\* The variable x holds v's bits, in its own width and sign.
Hold(x, v) == [x EXCEPT !.v = Mask(v.v, x.w)]
IrAssign(l, v, m) ==
    CASE l.k = "loc" -> [m EXCEPT !.l[l.n] = Hold(@, v)]
      [] l.k = "fld" -> [m EXCEPT !.f[l.n] = Hold(@, v)]
      [] l.k = "part" ->
            LET old == Ir("ev", l.of, m)
            IN  Ir("to", <<l.of, [old EXCEPT !.v = Merge(@, old.w, Num(Ir("ev", l.base, m)), l.w, v.v)]>>, m)
      [] l.k = "sub" ->
            LET i == Num(Ir("ev", l.i, m)) + 1
            IN  IF l.of.k = "loc"
                THEN IF i \in DOMAIN m.l[l.of.n].a THEN [m EXCEPT !.l[l.of.n].a[i] = v.v] ELSE m
                ELSE IF i \in DOMAIN m.f[l.of.n].a THEN [m EXCEPT !.f[l.of.n].a[i] = v.v] ELSE m
      [] l.k = "cat" ->
            FoldLeft(LAMBDA a, x : LET w == Ir("ev", x, m).w
                                   IN  [m |-> Ir("to", <<x, Typed(w, FALSE, Slice(v.v, a.at, w))>>, a.m),
                                        at |-> a.at + w],
                     [m |-> m, at |-> 0], Reverse(l.args)).m

IrLog(m, op, p, v) == [m EXCEPT !.log = Append(@, <<op, p, v>>)]
Raw(v) == [w |-> 30, s |-> FALSE, v |-> v]
\* A request {we, a, wd} to a memory.
Access(m, p, x) ==
    LET mi == m.cx.ir.mems[p]
    IN  IrLog(m, IF Slice(x.v, mi.aw + mi.w, 1) = 1 THEN "write" ELSE "read", p,
              <<Slice(x.v, mi.w, mi.aw), Slice(x.v, 0, mi.w)>>)
IrStmt(x, m) ==
    CASE x.k = "let" -> [m EXCEPT !.l = x.n :> (IF x.e = None THEN IrZero(x.t)
                                                ELSE Hold(IrZero(x.t), Ir("ev", x.e, m))) @@ @]
      [] x.k = "asg" -> Ir("to", <<x.to, Ir("ev", x.e, m)>>, m)
      [] x.k = "if" -> Ir("do", IF Ir("ev", x.c, m).v # 0 THEN x.t ELSE x.f, m)
      [] x.k = "while" -> IF m.out # "run" \/ Ir("ev", x.c, m).v = 0 THEN m
                          ELSE Ir("do", <<x>>, Ir("do", x.b, m))
      [] x.k = "rep" -> FoldLeft(LAMBDA u, i : Ir("do", x.b, u), m, [i \in 1 .. x.n |-> i])
      [] x.k = "match" ->
            LET v == Ir("ev", x.e, m).v
                hit == SelectInSeq(x.items, LAMBDA i : \E j \in DOMAIN i[1] : Ir("ev", i[1][j], m).v = v)
            IN  Ir("do", IF hit = 0 THEN x.d ELSE x.items[hit][2], m)
      [] x.k = "ret" -> [m EXCEPT !.out = "ret", !.ret = Ir("ev", x.e, m)]
      [] x.k = "try" ->
            LET v == m.cx.offers[x.p]
            IN  IF v = None THEN Ir("to", <<x.to, Raw(0)>>, Ir("to", <<x.x, Raw(0)>>, m))
                ELSE Ir("to", <<x.to, Raw(1)>>, Ir("to", <<x.x, Raw(v)>>, IrLog(m, "take", x.p, v)))
      [] x.k = "recv" ->
            LET v == m.cx.offers[x.p]
            IN  IF v = None THEN [m EXCEPT !.out = "block"]
                ELSE Ir("to", <<x.to, Raw(v)>>, IF x.p \in m.cx.queues THEN IrLog(m, "take", x.p, v) ELSE m)
      [] x.k = "send" ->
            IF x.p \in DOMAIN m.cx.ir.mems THEN Access(m, x.p, Ir("ev", x.e, m))
            ELSE IF x.p \in m.cx.ready THEN IrLog(m, "put", x.p, Ir("ev", x.e, m).v)
            ELSE [m EXCEPT !.out = IF m.cx.ir.behavior = "atomic" THEN "stall" ELSE "block"]

Ir(what, x, m) ==
    CASE what = "ev" -> IrValue(x, m)
      [] what = "to" -> IrAssign(x[1], x[2], m)
      [] what = "do" -> FoldLeft(LAMBDA u, y : IF u.out = "run" THEN IrStmt(y, u) ELSE u, m, x)

\* What reaches a memory in a cycle that stalls: its request does not wait.
Requests(m) == SelectSeq(m.log, LAMBDA o : o[1] \in {"read", "write"})
\* st: the fields and the locals that persist.
IrActivation(ir, st, offers, queues, ready) ==
    LET m == Ir("do", ir.body, [f |-> st.f, l |-> st.l, log |-> <<>>, out |-> "run", ret |-> Raw(0),
                                cx |-> [ir |-> ir, offers |-> offers, queues |-> queues, ready |-> ready]])
    IN  [st |-> IF m.out \in {"stall", "block"} THEN st
                ELSE [f |-> m.f, l |-> [n \in DOMAIN st.l |-> m.l[n]]],
         log |-> IF m.out = "stall" THEN Requests(m) ELSE m.log, out |-> m.out]
=============================================================================
