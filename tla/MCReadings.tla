------------------------------- MODULE MCReadings ------------------------------
(***************************************************************************)
(* Programs for Readings, after the constructs of tests/xls/micro,         *)
(* tests/xls/mem and tests/elab: between them every kind of expression and *)
(* statement that both readings support.                                   *)
(***************************************************************************)
EXTENDS Readings

\* Types
U(n) == [w |-> n, s |-> FALSE, l |-> n - 1, r |-> 0]
I(n) == [U(n) EXCEPT !.s = TRUE]
Packed(l, r, ew) == [w |-> ew * (Abs(l - r) + 1), s |-> FALSE, l |-> l, r |-> r]
Unpacked(n, t) == [arr |-> n, el |-> t]

\* Expressions
N(v, t) == [k |-> "lit", v |-> v, t |-> t]
Loc(n, at, t) == [k |-> "var", n |-> <<n, at>>, t |-> t]
Fld(n, t) == Loc(n, 0, t)
Member(e, off, t) == [k |-> "mem", of |-> e, off |-> off, t |-> t]
At(e, i, t) == [k |-> "elem", of |-> e, sel |-> i, t |-> t]
Bit(e, i) == At(e, i, U(1))
Sel(e, kind, a, b, n) == [k |-> "rng", of |-> e, kind |-> kind, a |-> a, b |-> b, t |-> U(n)]
Word(e, i) == [k |-> "item", of |-> e, sel |-> i, t |-> e.t.el]
To(t, e) == [k |-> "conv", of |-> e, t |-> t, prop |-> FALSE]
Prop(t, e) == [k |-> "conv", of |-> e, t |-> t, prop |-> TRUE]
Op1(op, e, t) == [k |-> "un", op |-> op, of |-> e, t |-> t]
Op2(a, op, b, t) == [k |-> "bin", op |-> op, a |-> a, b |-> b, t |-> t]
Same(a, op, b) == Op2(a, op, b, a.t)
Rel(a, op, b) == Op2(a, op, b, U(1))
Pick(c, a, b) == [k |-> "cond", c |-> c, a |-> a, b |-> b, t |-> a.t]
Cat(args, n) == [k |-> "cat", args |-> args, t |-> U(n)]
Rep(n, e) == [k |-> "rep", n |-> n, of |-> e, t |-> U(n * e.t.w)]
InSet(e, items) == [k |-> "in", of |-> e, items |-> items, t |-> U(1)]
Call(f, args, t) == [k |-> "call", f |-> f, args |-> args, t |-> t]
Old(t) == [k |-> "lv", t |-> t]
TryGet(p, x) == [k |-> "try", p |-> p, x |-> x, t |-> U(1)]
Level(p, t) == [k |-> "lget", p |-> p, t |-> t]
Rd(m, t) == [k |-> "rd", m |-> m, t |-> t]

\* Statements
Let(x, e) == [k |-> "decl", n |-> x.n, t |-> x.t, e |-> e]
Set(l, e) == [k |-> "set", l |-> l, e |-> e, nb |-> FALSE, comp |-> FALSE]
Nb(l, e) == [Set(l, e) EXCEPT !.nb = TRUE]
Comp(l, op, e) == [Set(l, Op2(Old(l.t), op, e, l.t)) EXCEPT !.comp = TRUE]
Inc(l, d) == [k |-> "inc", l |-> l, d |-> d]
If(c, t, f) == [k |-> "if", c |-> c, t |-> t, f |-> f, loc |-> 0]
IfTry(at, c, t, f) == [If(c, t, f) EXCEPT !.loc = at]
Case(e, items, d) == [k |-> "case", e |-> e, items |-> items, d |-> d]
For(x, a, c, b) == [k |-> "for", n |-> x.n, t |-> x.t, a |-> a, c |-> c, st |-> <<Inc(x, 1)>>, b |-> b]
Repeat(n, b) == [k |-> "repeat", n |-> n, b |-> b]
Return(e) == [k |-> "return", e |-> e]
Get(p, x) == [k |-> "get", p |-> p, x |-> x]
Put(p, e) == [k |-> "put", p |-> p, e |-> e]
PutOrStall(p, e) == [Put(p, e) EXCEPT !.k = "stall"]
Write(m, a, e) == [k |-> "write", m |-> m, a |-> a, e |-> e]
ReadAt(m, a) == [k |-> "read", m |-> m, a |-> a]

\* Classes
Component == [lib |-> TRUE, defines |-> {"run", "step"}, implements |-> {}]
Step == <<[lib |-> FALSE, defines |-> {"step"}, implements |-> {"fw_steppable"}], Component>>
\* step() of a base class that is not the library's.
Derived == <<[lib |-> FALSE, defines |-> {}, implements |-> {}]>> \o Step
Atomic == <<[lib |-> FALSE, defines |-> {"step"}, implements |-> {}],
            [lib |-> TRUE, defines |-> {"step"}, implements |-> {"fw_steppable", "fw_atomic_steppable"}], Component>>
RunClass == <<[lib |-> FALSE, defines |-> {"run"}, implements |-> {"fw_runnable"}], Component>>
Both == <<[lib |-> FALSE, defines |-> {"run", "step"}, implements |-> {"fw_runnable", "fw_steppable"}], Component>>
NoFns == <<>>
Class(chain, vs, ports, fns, body, offers) ==
    [chain |-> chain, vars |-> vs, ports |-> ports, mems |-> <<>>, fns |-> fns, body |-> body,
     offers |-> offers, outs |-> {<<p>> : p \in {q \in DOMAIN ports : ports[q].api \in
         {"fw_put_if", "fw_put_step_if", "fw_valid_put_if", "fw_level_set_if"}}}]
Port(api) == [api |-> api, arr |-> FALSE]
Var(x, v) == [n |-> x.n, t |-> x.t, e |-> IF v = None THEN None ELSE N(v, x.t)]
GetNb == "in" :> Port("fw_get_nb_if")
ValidOut == "out" :> Port("fw_valid_put_if")
InP == <<"in">>
Out == <<"out">>
Mem == <<"m">>
OneIn(vs) == InP :> vs \cup {None}

-----------------------------------------------------------------------------
(* Rows E1 .. E14 of micro_fn_pkg: operators in mixed contexts *)

a == Fld("a", I(4))
b == Fld("b", U(4))
x == Loc("x", 1, U(4))
wide == Fld("wide", U(8))
prod == Fld("prod", I(8))
ash == Fld("ash", U(6))
cmp == Fld("cmp", U(4))
casts == Fld("casts", U(8))
red == Fld("red", U(6))
Arith ==
    LET c == To(I(4), b)
    IN  Class(Derived, <<Var(a, 9), Var(b, 0), Var(wide, 0), Var(prod, 0), Var(ash, 0), Var(cmp, 0),
                         Var(casts, 0), Var(red, 0)>>, GetNb @@ ValidOut, NoFns,
        <<Let(x, None),
          IfTry(2, TryGet(InP, x),
            <<Set(a, To(I(4), b)), Set(b, x),
              Set(wide, Op2(Prop(U(8), a), "*", Prop(U(8), b), U(8))),
              Set(prod, Op2(Prop(I(8), a), "*", Prop(I(8), c), I(8))),
              Set(ash, To(U(6), Op2(Prop(I(6), a), ">>>", b, I(6)))),
              Set(cmp, Cat(<<Rel(Prop(U(4), a), "<", b), Rel(a, "<", c), Rel(a, ">=", c), Rel(a, "==", c)>>, 4)),
              Set(casts, Cat(<<To(U(4), Prop(I(4), Prop(I(4), a))), To(U(4), Op2(Op1("-", b, U(4)), "~^", b, U(4)))>>, 8)),
              Set(red, Cat(<<Op1("&", b, U(1)), Op1("~&", b, U(1)), Op1("~|", b, U(1)), Op1("~^", b, U(1)),
                             Rel(b, "&&", a), Op1("!", b, U(1))>>, 6)),
              Set(wide, Pick(Rel(b, ">", N(3, U(4))), Op2(wide, "-", Prop(U(8), b), U(8)),
                             Op2(To(U(8), Same(a, "/", c)), "^", To(U(8), Same(a, "%", N(3, I(4)))), U(8)))),
              Put(Out, To(U(8), prod))>>,
            <<Set(casts, Op2(Same(casts, "<<<", N(1, U(2))), ">>", N(2, U(2)), U(8)))>>)>>,
        OneIn({0, 3, 7, 8, 11, 15}))

(* E11 .. E18, T5: selects with run-time offsets, as values and as targets *)
idx == Fld("i", I(5))
v == Fld("v", U(7))
got == Fld("got", U(8))
pk == Fld("pk", Packed(3, 0, 2))
hi == Fld("hi", Packed(9, 6, 2))
arr == Fld("arr", Unpacked(3, U(3)))
Selects ==
    LET j == Loc("j", 1, I(5))
    IN  Class(Step, <<Var(idx, 0), Var(v, 45), Var(got, 0), Var(pk, 27), Var(hi, 99), [n |-> arr.n, t |-> arr.t, e |-> None]>>,
        GetNb @@ ValidOut, NoFns,
        <<Let(j, N(0, I(5))),
          IfTry(2, TryGet(InP, j),
            <<Set(v, N(45, U(7))), Set(hi, N(99, hi.t)), Set(pk, N(27, pk.t)), Set(Word(arr, N(2, U(2))), N(5, U(3))),
              Set(Word(arr, N(1, U(2))), N(2, U(3))), Set(Word(arr, N(0, U(2))), N(7, U(3))), Set(idx, j),
              Set(got, Cat(<<Bit(v, N(3, U(3))), Bit(v, j), Sel(v, "+:", j, N(3, I(6)), 3), Sel(v, "-:", j, N(2, I(6)), 2),
                             Sel(v, ":", N(6, I(6)), N(6, I(6)), 1)>>, 8)),
              Set(Bit(v, j), Bit(pk, N(0, U(2)))),
              Set(At(pk, To(U(2), j), U(2)), Member(got, 2, U(2))),
              Set(Sel(v, "+:", Same(j, "+", N(2, I(5))), N(2, I(6)), 2), At(hi, j, U(2))),
              Set(Cat(<<Bit(pk, N(1, U(2))), Member(hi, 3, U(4))>>, 5), Sel(got, "-:", j, N(5, I(6)), 5)),
              Set(Sel(hi, "+:", j, N(2, I(6)), 4), Member(v, 1, U(4))),
              Set(Word(arr, To(U(2), j)), To(U(3), v)),
              Inc(Word(arr, N(1, U(2))), 1),
              Comp(Sel(v, ":", N(4, I(6)), N(2, I(6)), 3), "+", Word(arr, Bit(v, N(0, I(6)))))>>,
            <<>>),
          Put(Out, got)>>,
        OneIn(0 .. 31))

(* f6_rr over an array of ports, with two locals named ok *)
full == Fld("full", U(2))
hold == Fld("hold", Unpacked(2, U(2)))
last == Fld("last", U(1))
Ports ==
    LET found == Loc("found", 1, U(1))
        g == Loc("g", 2, U(1))
        d == Loc("x", 3, U(2))
        k == Loc("k", 4, I(6))
        k2 == Loc("k", 5, I(6))
        ok == Loc("ok", 6, U(1))
        After(e) == Same(last, "+", To(U(1), e))
    IN  Class(Step, <<Var(full, 0), [n |-> hold.n, t |-> hold.t, e |-> None], Var(last, 1)>>,
        ("in" :> [api |-> "fw_get_nb_if", arr |-> TRUE]) @@ ValidOut, NoFns,
        <<Let(found, N(0, U(1))), Let(g, N(0, U(1))), Let(d, None), Let(ok, N(0, U(1))),
          For(k, N(1, I(6)), Rel(k, "<=", N(2, I(6))),
              <<If(Rel(Op1("!", found, U(1)), "&&", Bit(full, After(k))),
                   <<Set(found, N(1, U(1))), Set(g, After(k))>>, <<>>)>>),
          If(found, <<Put(Out, Cat(<<g, Word(hold, g)>>, 3)), Set(Bit(full, g), N(0, U(1))), Set(last, g)>>, <<>>),
          For(k2, N(0, I(6)), Rel(k2, "<=", N(1, I(6))),
              <<IfTry(7, Rel(Op1("!", Bit(full, k2), U(1)), "&&", TryGet(<<"in", k2>>, d)),
                      <<Set(Word(hold, k2), d), Set(Bit(full, k2), N(1, U(1))), Set(ok, N(1, U(1)))>>, <<>>)>>),
          If(Rel(ok, "&&", Rel(full, "==", N(3, U(2)))), <<Put(Out, N(7, U(3)))>>, <<>>)>>,
        [p \in {<<"in", i>> : i \in 0 .. 1} |-> {1, 2, None}])

(* f6_rr_stall: an all-or-nothing step that stalls on either of two outputs *)
st == Fld("s", Packed(4, 0, 1))
Stall ==
    LET d == Loc("x", 1, U(2))
        ok == Loc("ok", 2, U(1))
        valid == Member(st, 0, U(1))
        data == Member(st, 1, U(2))
        n == Member(st, 3, U(2))
    IN  Class(Atomic, <<Var(st, 0)>>,
        GetNb @@ ("out" :> Port("fw_put_step_if")) @@ ("far" :> Port("fw_put_step_if"))
        @@ ("cnt" :> Port("fw_level_set_if")) @@ ("en" :> Port("fw_level_if")), NoFns,
        <<Let(d, None), Let(ok, None), Set(ok, Level(<<"en">>, U(1))),
          If(valid, <<PutOrStall(Out, data), Inc(n, 1),
                      If(Bit(data, N(1, U(1))), <<PutOrStall(<<"far">>, Cat(<<data, n>>, 4))>>, <<>>)>>, <<>>),
          Set(valid, N(0, U(1))),
          IfTry(3, Rel(ok, "&&", TryGet(InP, d)), <<Set(data, d), Set(valid, N(1, U(1)))>>, <<>>),
          Put(<<"cnt">>, n)>>,
        OneIn({1, 2, 3}) @@ (<<"en">> :> {0, 1}))

(* mm_rw, and mm_bad_stall, which is refused *)
Memory(bad) ==
    LET c == Loc("c", 1, U(6))
        d == Loc("d", 2, U(3))
        p == Loc("p", 3, U(1))
        s == Fld("s", U(1))
    IN  [Class(Atomic, <<Var(s, 0)>>, GetNb @@ ("out" :> Port(IF bad THEN "fw_put_step_if" ELSE "fw_valid_put_if")), NoFns,
        <<Let(c, None), Let(d, None), Let(p, None), Set(p, N(0, U(1))),
          IF bad THEN ReadAt(Mem, N(1, U(2))) ELSE Set(d, N(0, U(3))),
          If(s, <<Set(d, Rd(Mem, U(3))), IF bad THEN PutOrStall(Out, d) ELSE Put(Out, d)>>, <<>>),
          IfTry(4, TryGet(InP, c),
             <<If(Bit(c, N(5, I(6))), <<Write(Mem, Sel(c, ":", N(4, I(6)), N(3, I(6)), 2), Op2(To(U(3), c), "+", d, U(3)))>>,
                  <<ReadAt(Mem, Sel(c, ":", N(4, I(6)), N(3, I(6)), 2)), Set(p, N(1, U(1)))>>)>>, <<>>),
          Set(s, p)>>,
        OneIn({5, 26, 38, 63}) @@ (Mem :> {0, 6})) EXCEPT !.mems = Mem :> [aw |-> 2, w |-> 3]]

(* E19, E21, S3 .. S8: functions, two of one name among them *)
FnArg(n, at, t) == Loc(n, at, t)
Function(id, args, x0, t, body0) ==
    [id |-> id, args |-> [i \in DOMAIN args |-> args[i].n], ts |-> [i \in DOMAIN args |-> args[i].t],
     n |-> x0, t |-> t, body |-> body0]
Rotl(w, at) ==
    LET y == Loc("x", at, U(w))
        m == Loc("mask", at, U(w))
    IN  Function(<<w, "rotl1">>, <<y, m>>, <<"rotl1", at>>, U(w),
                 <<Return(Cat(<<Sel(y, ":", N(w - 2, I(6)), N(0, I(6)), w - 1), Op1("^", Same(y, "&", m), U(1))>>, w))>>)
Early ==
    LET y == Loc("x", 30, U(4))
    IN  Function(<<0, "early">>, <<y>>, <<"early", 30>>, U(4),
                 <<If(Rel(y, "==", N(0, U(4))), <<Return(N(1, U(4)))>>, <<>>),
                   If(Bit(y, N(0, I(6))), <<Comp(y, "+", N(2, U(4))), Return(y)>>, <<>>),
                   Set(Loc("early", 30, U(4)), Same(y, "*", N(3, U(4)))),
                   If(Rel(y, ">", N(9, U(4))), <<Inc(Loc("early", 30, U(4)), -1)>>, <<>>)>>)
Pop ==
    LET y == Loc("x", 40, U(4))
        n == Loc("n", 41, U(3))
        i == Loc("i", 42, I(6))
        i2 == Loc("i", 43, I(6))
    IN  Function(<<0, "pop">>, <<y>>, <<"pop", 40>>, U(3),
                 <<Let(n, N(0, U(3))),
                   For(i, N(0, I(6)), Rel(i, "<", N(4, I(6))), <<If(Bit(y, i), <<Inc(n, 1)>>, <<>>)>>),
                   [For(i2, N(3, I(6)), Rel(i2, ">=", N(0, I(6))), <<Set(Bit(y, Same(N(3, I(6)), "-", i2)), Bit(y, i2))>>)
                      EXCEPT !.st = <<Comp(i2, "-", N(1, I(6)))>>],
                   Repeat(3, <<Comp(n, "^", To(U(3), y))>>),
                   Return(n)>>)
Calls ==
    LET y == Loc("x", 1, U(4))
        r == Fld("r", U(4))
        q == Fld("q", U(3))
    IN  Class(Step, <<Var(r, 5), Var(q, 0)>>, GetNb @@ ValidOut, <<Rotl(3, 10), Rotl(4, 20), Early, Pop>>,
        <<Let(y, None),
          IfTry(2, TryGet(InP, y),
            <<Case(y, <<<<<<N(0, U(4))>>, <<Set(r, N(1, U(4)))>>>>,
                        <<<<N(1, U(4)), N(2, U(4))>>, <<Set(r, Call(<<0, "early">>, <<y>>, U(4)))>>>>,
                        <<<<N(2, U(4))>>, <<Set(r, N(9, U(4)))>>>>>>,
                   <<Set(r, Call(<<4, "rotl1">>, <<Call(<<0, "early">>, <<Same(y, "+", r)>>, U(4)), N(13, U(4))>>, U(4)))>>),
              Set(q, Call(<<3, "rotl1">>, <<Call(<<0, "pop">>, <<r>>, U(3)), N(5, U(3))>>, U(3)))>>, <<>>),
          Put(Out, Cat(<<r, q>>, 7))>>,
        OneIn(0 .. 15))

(* A process: run() with a local that outlives the iterations and is hidden in them *)
Process1 ==
    LET n == Loc("n", 1, U(3))
        y == Loc("x", 2, U(3))
        inner == Loc("n", 3, U(3))
        acc == Fld("n", U(4))
    IN  Class(RunClass, <<Var(acc, 0), Var(n, 1)>>, ("in" :> Port("fw_get_if")) @@ ("out" :> Port("fw_put_if")), NoFns,
        <<Let(y, None), Get(InP, y),
          If(Bit(y, N(0, I(6))), <<Let(inner, Same(y, "+", n)), Set(acc, Op2(acc, "+", Prop(U(4), inner), U(4))),
                                   Put(Out, inner)>>, <<Inc(n, 1)>>),
          Comp(n, "+", y), Put(Out, n)>>,
        OneIn({0, 1, 2, 5}))

(* Refused: run() and step() in one class, a stream put in a step, a poll of a stream input *)
BadBoth == [Process1 EXCEPT !.chain = Both]
BadPut == [Process1 EXCEPT !.chain = Step]
BadPoll == [Calls EXCEPT !.ports = ("in" :> Port("fw_get_if")) @@ ValidOut]
AllClasses == {Arith, Selects, Ports, Stall, Memory(FALSE), Memory(TRUE), Calls, Process1, BadBoth, BadPut, BadPoll}

-----------------------------------------------------------------------------
(* Clocked processes *)

i1 == Fld("i", U(2))
i2 == Fld("d", I(3))
regs == Fld("regs", Packed(3, 0, 3))
up == Fld("up", Packed(1, 2, 2))
r8 == Fld("r8", U(6))
sg == Fld("sg", I(4))
Inputs == [{i1.n} -> 0 .. 3]
InputsOf(ds) == {(i1.n :> i) @@ (i2.n :> d) : i \in 0 .. 3, d \in ds}

\* Elements at run-time indices, and nonblocking writes to parts of one register.
Elements ==
    LET t == Loc("t", 1, U(3))
    IN  [vars |-> <<Var(i1, 0), Var(i2, 0), Var(regs, 0), Var(up, 9), Var(r8, 0)>>, inputs |-> InputsOf({1, 2, 5}),
         body |-> <<Let(t, At(regs, i1, U(3))),
                    Nb(At(regs, i1, U(3)), Op2(i2, "^", N(2, U(3)), U(3))),
                    Nb(At(regs, N(0, U(2)), U(3)), t),
                    Nb(Sel(r8, ":", N(5, I(6)), N(4, I(6)), 2), At(up, N(2, U(2)), U(2))),
                    Nb(Member(r8, 1, U(3)), t),
                    Nb(Bit(r8, N(0, U(3))), Bit(regs, Same(To(U(4), i1), "+", N(7, U(4)))))>>]

\* Operators on fields and locals, blocking writes and concatenations of targets.
Operators ==
    LET t == Loc("t", 1, U(4))
        k == Loc("k", 2, U(6))
    IN  [vars |-> <<Var(i1, 0), Var(i2, 0), Var(sg, 13), Var(r8, 33), Var(up, 6)>>, inputs |-> InputsOf({0, 3, 4, 7}),
         body |-> <<Let(t, Cat(<<i1, Sel(r8, "+:", N(1, I(6)), N(2, I(6)), 2)>>, 4)), Let(k, N(5, U(6))),
                    Set(sg, Op2(Prop(I(4), i2), "+", Same(sg, ">>>", i1), I(4))),
                    Comp(k, "<<", i1), Inc(k, 1),
                    Set(Cat(<<Bit(sg, N(0, U(2))), At(up, N(1, I(6)), U(2)), Bit(t, N(3, U(2)))>>, 4),
                        Pick(Rel(i2, "<", To(I(3), i1)), t, To(U(4), k))),
                    Set(Member(r8, 2, U(4)), Op1("~", Pick(InSet(t, <<<<N(2, U(4))>>, <<N(6, U(4)), N(11, U(4))>>>>),
                                                          Rep(2, i1), To(U(4), Same(k, ">>", N(1, U(6))))), U(4))),
                    Nb(Member(up, 0, U(2)), To(U(2), Op1("-", i2, I(3)))),
                    Nb(r8, Pick(Rel(sg, ">=", Prop(I(4), i2)), Op2(r8, "~^", To(U(6), sg), U(6)), Same(k, "*", N(3, U(6)))))>>]
AllProcesses == {Elements, Operators}
=============================================================================
