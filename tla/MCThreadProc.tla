----------------------------- MODULE MCThreadProc -----------------------------
(***************************************************************************)
(* Small programs: every ordered pair of the fragments below, one after    *)
(* the other in a thread's forever loop, once with a clock edge before     *)
(* them and once after (the thread then blocks inside a fragment), and a   *)
(* few whole programs.                                                     *)
(***************************************************************************)
EXTENDS ThreadProc

CONSTANT Names      \* the programs of a run; {} for all the pairs

Lit(v) == [k |-> "lit", v |-> v]
Loc(n) == [k |-> "loc", n |-> n]
Fld(n) == [k |-> "fld", n |-> n]
Of(ix, n) == [k |-> "ofld", ix |-> ix, n |-> n]
Net == [k |-> "net"]
Not(a) == [k |-> "not", a |-> a]
Both(a, b) == [k |-> "land", a |-> a, b |-> b]
Nth(l, ix) == [k |-> "bit", l |-> l, ix |-> ix]
Either(a, b) == [k |-> "lor", a |-> a, b |-> b]
Add(a, b) == [k |-> "bin", op |-> "add", a |-> a, b |-> b]
Eq(a, b) == [k |-> "bin", op |-> "eq", a |-> a, b |-> b]
Lt(a, b) == [k |-> "bin", op |-> "lt", a |-> a, b |-> b]
Pick(c, a, b) == [k |-> "cond", c |-> c, a |-> a, b |-> b]
Set(l, e) == [k |-> "set", l |-> l, e |-> e, nb |-> FALSE]
PlusPlus(l) == [k |-> "inc", l |-> l, pre |-> FALSE]
In(e) == [e |-> e, out |-> FALSE]
Out(l) == [e |-> l, out |-> TRUE]
On(h, id, sub, args) == [k |-> "call", id |-> id, h |-> h, sub |-> sub, args |-> args]
Call(id, sub, args) == On(None, id, sub, args)

Skip == [k |-> "skip"]
Block(ss) == [k |-> "seq", ss |-> ss]
Decl(n, e) == [k |-> "decl", n |-> n, e |-> e]
Do(e) == [k |-> "expr", e |-> e]
Put(l, e) == Do(Set(l, e))
Later(l, e) == Do([Set(l, e) EXCEPT !.nb = TRUE])
Bump(l) == Put(l, Add(l, Lit(1)))
If(c, t, f) == [k |-> "if", c |-> c, t |-> t, f |-> f]
When(c, t) == If(c, t, Skip)
Case(e, items, d) == [k |-> "case", e |-> e, items |-> items, d |-> d]
Arm(vals, s) == [vals |-> vals, s |-> s]
While(c, b) == [k |-> "while", c |-> c, b |-> b]
DoWhile(c, b) == [k |-> "dowhile", c |-> c, b |-> b]
For(i, n, b) == [k |-> "for", i |-> Set(Loc(i), Lit(0)), c |-> Lt(Loc(i), Lit(n)),
                 st |-> PlusPlus(Loc(i)), b |-> b]
Forever(b) == [k |-> "forever", b |-> b]
Times(n, b) == [k |-> "repeat", c |-> Lit(n), b |-> b]
Return(e) == [k |-> "return", e |-> e]
Break == [k |-> "break"]
Continue == [k |-> "continue"]
Edge(id) == [k |-> "edge", id |-> id]
Delay0(id) == [k |-> "delay0", id |-> id]
At(id, ev) == [k |-> "event", id |-> id, e |-> ev]
Trigger(ev) == [k |-> "trigger", e |-> ev]
Fork(id, ss, join) == [k |-> "fork", id |-> id, ss |-> ss, join |-> join]
Wait(id, c) == [k |-> "wait", id |-> id, c |-> c]

f == Fld("f")
g == Fld("g")
h == Fld("h")
p == Fld("p")
i == Loc("i")

-----------------------------------------------------------------------------
MCObjects == <<"A", "B">>
MCHeap == [x \in {"A", "B"} \X {"f", "g", "h", "p", "one"} |-> Bit(x[2] = "one")]

Function(args, body) == [args |-> args, body |-> body, task |-> FALSE]
Task(args, body) == [args |-> args, body |-> body, task |-> TRUE]

MCSubs ==
  [get    |-> Function(<<>>, Return(f)),
   getB   |-> Function(<<>>, Block(<<When(Fld("one"), Return(Add(g, Lit(1))))>>)),
   find   |-> Function(<<"x">>, Block(<<For("i", 3, When(Eq(Loc("x"), i), Return(Add(i, Lit(1))))),
                                        Return(Lit(0))>>)),
   bump   |-> Function(<<"x", "y">>,
                Block(<<Put(Loc("y"), Add(Net, Lit(2))),
                        When(Loc("x"), Block(<<Bump(g), Put(Loc("y"), g), Return(Lit(1))>>)),
                        Bump(Loc("y"))>>)),
   hold   |-> Task(<<"n">>,
                Block(<<Decl("i", Lit(0)),
                        While(Lt(i, Loc("n")),
                              Block(<<Edge(31), When(Eq(Net, Lit(2)), Break), Bump(g),
                                      Do(PlusPlus(i))>>)),
                        Put(f, i)>>)),
   sample |-> Task(<<"y">>,
                Block(<<Put(Loc("y"), Add(Net, Lit(2))), When(Eq(Net, Lit(1)), Return(None)),
                        Edge(32), Put(Loc("y"), Net)>>)),
   main   |-> Task(<<"n">>,
                Block(<<Decl("i", Loc("n")), Put(h, i),
                        Forever(Block(<<Do(PlusPlus(i)), Do(Call(41, "sample", <<Out(Loc("n"))>>)),
                                        Bump(f), Later(h, Add(i, Loc("n"))), Edge(33)>>))>>))]
MCDispatch == [o \in {"A", "B"} |-> [n \in DOMAIN MCSubs |-> IF o = "B" /\ n = "get" THEN "getB" ELSE n]]

\* The fragments, as the statement number k of a program.
Fragments ==
  [write |-> [k \in {1, 2} |-> If(Eq(Net, Lit(1)), Bump(f), Later(h, f))],
   stall |-> [k \in {1, 2} |-> If(Eq(Net, Lit(0)), Block(<<Put(f, g), Edge(k), Bump(g)>>), Put(h, Net))],
   keep  |-> [k \in {1, 2} |-> Block(<<Decl("t", f), Bump(f), Edge(k), Put(h, Loc("t"))>>)],
   skip  |-> [k \in {1, 2} |-> For("j", 2, Block(<<When(Eq(Net, Loc("j")), Continue), Bump(f)>>))],
   stop  |-> [k \in {1, 2} |-> Times(2, Block(<<When(Eq(f, Net), Break), Bump(f)>>))],
   hold  |-> [k \in {1, 2} |-> Do(Call(10 + k, "hold", <<In(Lit(2))>>))],
   find  |-> [k \in {1, 2} |-> Put(h, Call(10 + k, "find", <<In(Net)>>))],
   out   |-> [k \in {1, 2} |-> Block(<<Decl("y", Lit(0)),
                                Do(Call(10 + k, "bump", <<In(Eq(Net, Lit(1))), Out(Loc("y"))>>)),
                                Put(h, Loc("y"))>>)],
   cases |-> [k \in {1, 2} |-> Case(Net, <<Arm({0}, Put(f, h)), Arm({1, 2}, Edge(k))>>, Bump(h))],
   await |-> [k \in {1, 2} |-> Block(<<Wait(k, Either(Eq(Net, Lit(1)), Both(f, Eq(Net, Lit(0))))),
                                       Put(f, Pick(g, Net, Lit(1)))>>)],
   other |-> [k \in {1, 2} |-> Block(<<Put(Of(Eq(Net, Lit(1)), "g"), Add(f, Fld("one"))),
                                       Put(h, Of(Lit(1), "g"))>>)],
   bits  |-> [k \in {1, 2} |-> Block(<<Put(Nth(f, Eq(Net, Lit(1))), Lt(g, Net)), Put(g, Nth(h, Net))>>)],
   parts |-> [k \in {1, 2} |-> Block(<<Later(Nth(p, Lit(0)), Nth(Net, Lit(1))),
                                       When(Eq(Net, Lit(2)), Later(Nth(p, Lit(1)), Nth(p, Lit(0))))>>)],
   pick  |-> [k \in {1, 2} |-> Put(f, On(Not(Net), 10 + k, "get", <<>>))],
   turn  |-> [k \in {1, 2} |-> Block(<<Decl("i", Lit(0)),
                                DoWhile(Lt(i, Lit(2)),
                                  Block(<<Edge(k), Do(PlusPlus(i)), When(Net, Continue), Bump(g)>>))>>)],
   count |-> [k \in {1, 2} |-> For("c", 2, Block(<<Edge(k), Put(h, Loc("c")), When(Eq(Net, Lit(3)), Break)>>))]]

Pairs == {<<a, b, o>> : a \in DOMAIN Fragments, b \in DOMAIN Fragments, o \in {"edge_first", "edge_last"}}
Use == Forever(Block(<<Edge(1), When(Eq(Net, Lit(1)), Put(h, Add(g, f))), Put(g, Net)>>))
Whole ==
  [task |-> <<Do(Call(40, "main", <<In(Lit(2))>>))>>,
   start |-> <<Block(<<Put(g, Lit(2)), Decl("i", Lit(1)),
                       While(Lit(1), Block(<<If(Eq(i, g), Put(i, Lit(0)), Do(PlusPlus(i))),
                                             Do(Call(40, "hold", <<In(i)>>)), Edge(1)>>))>>)>>,
   all   |-> <<Block(<<Fork(50, <<Block(<<Delay0(51), Put(f, Lit(1))>>), Put(g, Add(f, Lit(2)))>>, "all"),
                       Put(Of(Lit(1), "f"), f), Use>>)>>,
   any   |-> <<Block(<<Fork(50, <<Block(<<Delay0(51), Bump(f), Delay0(52), Bump(f)>>), Bump(g)>>, "any"),
                       Put(Of(Lit(1), "f"), f), Use>>)>>,
   each  |-> <<Block(<<For("i", 3, Fork(50, <<Block(<<Delay0(51), Put(g, Add(g, i))>>)>>, "none")),
                       Wait(52, Eq(g, Lit(3))), Use>>)>>,
   event |-> <<Block(<<Fork(50, <<Block(<<At(51, "e"), Bump(f)>>), Block(<<At(52, "e"), Put(g, f)>>)>>, "none"),
                       Trigger("e"), Delay0(53), Trigger("e"), Trigger("e"), Use>>)>>,
   slot  |-> <<Block(<<Later(g, Lit(1)), Put(f, g), Fork(50, <<Use>>, "all")>>),
               Block(<<Wait(51, Eq(g, Lit(1))), Put(Of(Lit(1), "f"), g), Trigger("e")>>)>>]

\* Programs whose process differs: see the README.
Differ ==
  [default |-> <<Forever(Block(<<Edge(1), Decl("y", Lit(2)), When(Eq(Net, Lit(1)), Put(Loc("y"), g)),
                                 Put(h, Loc("y")), Put(g, Net)>>))>>,
   again   |-> <<Forever(Block(<<At(60, "e"), Trigger("e"), Edge(1), Bump(f)>>)),
                 Block(<<Delay0(61), Trigger("e")>>)>>]
MCPrograms == IF Names = {} THEN Pairs \cup {<<n>> : n \in DOMAIN Whole} ELSE {<<n>> : n \in Names}
CodeOf(n) ==
    IF Len(n) = 1 THEN (Whole @@ Differ)[n[1]]
    ELSE LET a == Fragments[n[1]][1]
             b == Fragments[n[2]][2]
         IN  <<Forever(Block(IF n[3] = "edge_first" THEN <<Edge(3), a, b>> ELSE <<a, b, Edge(3)>>))>>
MCCode == [n \in MCPrograms |-> CodeOf(n)]
=============================================================================
