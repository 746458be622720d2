--------------------------------- MODULE MCFlow -------------------------------
(***************************************************************************)
(* What the synthesis flow makes, for TLC.  A behaviour is of one of four   *)
(* parts, which do not meet:                                               *)
(*   "flow"     knob files and a top class to RTL (Flow)                   *)
(*   "regs"     register blocks and their cores (RegSync, of RegDesigns)   *)
(*   "cosynth"  a rewritten cipher pipeline beside its original (Cosynth)  *)
(*   "order"    two views' traces under an order contract (Canon)          *)
(***************************************************************************)
EXTENDS Flow

CONSTANTS Parts, Auto, Var

In(kind) == [dir |-> "in", kind |-> kind]
Out(kind) == [dir |-> "out", kind |-> kind]
Ports(ins, outs) == [p \in ins |-> In("rv")] @@ [p \in outs |-> Out("rv")]
Class(ports, order, kids, chans, calls) ==
    [ports |-> ports, order |-> order, kids |-> kids, chans |-> chans, calls |-> calls,
     engine |-> "xls", step |-> FALSE, sig |-> PortKinds(ports), deps |-> {}, facts |-> {}, arrays |-> <<>>,
     latency |-> None, mems |-> {}, table |-> FALSE]
Leaf(ports) == Class(ports, <<>>, <<>>, <<>>, <<>>)
Block(ins, outs) == Leaf(Ports(ins, outs))
Extern(ports, deps) == [Leaf(ports) EXCEPT !.engine = "extern", !.deps = deps]
Chan(kind, depth) == [kind |-> kind, depth |-> depth]
C(p, to) == [port |-> p, to |-> to]
P(k, p) == <<k, p>>
Put(c) == <<c, "put_ex">>
Took(c) == <<c, "get_ex">>
Top(p) == <<p, None>>

Chain(c) == <<C(P("a", "i"), Top("in")), C(P("a", "o"), Put(c)), C(P("b", "i"), Took(c)), C(P("b", "o"), Top("out"))>>
TwoOf(x, y, depth) == Class(Ports({"in"}, {"out"}), <<"a", "b">>, "a" :> x @@ "b" :> y, "q" :> Chan("rv", depth), Chain("q"))
Nested(sub, depth) ==
    Class(Ports({"in"}, {"out"}), <<"a", "b">>, "a" :> sub @@ "b" :> sub, "r" :> Chan("rv", depth),
          <<C(P("a", "in"), Top("in")), C(P("a", "out"), Put("r")), C(P("b", "in"), Took("r")), C(P("b", "out"), Top("out"))>>)
\* in -> f; f -> j, and f -> m -> j; j -> out
Diamond ==
    Class(Ports({"in"}, {"out"}), <<"f", "m", "j">>, "f" :> "fork" @@ "m" :> "add" @@ "j" :> "join",
          "x" :> Chan("rv", 1) @@ "y" :> Chan("rv", 1) @@ "z" :> Chan("rv", 0),
          <<C(P("f", "i"), Top("in")), C(P("f", "l"), Put("x")), C(P("f", "r"), Put("y")),
            C(P("m", "i"), Took("y")), C(P("m", "o"), Put("z")),
            C(P("j", "l"), Took("x")), C(P("j", "r"), Took("z")), C(P("j", "o"), Top("out"))>>)
Leaves0 ==
    "add" :> Block({"i"}, {"o"}) @@ "mul" :> Block({"i"}, {"o"}) @@
    "fork" :> Block({"i"}, {"l", "r"}) @@ "join" :> Block({"l", "r"}, {"o"})

File(base, vals) == [dir |-> "d", base |-> base, vals |-> vals]
M(p) == p :> Map
Design(xls) == M(<<"design">>) @@ <<"design", "xls">> :> xls
XlsOpt(b, o, v) == M(<<"xls">>) @@ M(<<"xls", "blocks">>) @@ M(<<"xls", "blocks", b>>) @@ <<"xls", "blocks", b, o>> :> v
XlsDef(o, v) == M(<<"xls">>) @@ M(<<"xls", "default">>) @@ <<"xls", "default", o>> :> v
Group(g, cs) == M(<<"island">>) @@ M(<<"island", "groups">>) @@ <<"island", "groups", g>> :> cs
Store(p, b) == M(<<"storage">>) @@ M(<<"storage", p>>) @@ [q \in {<<"storage", p, f>> : f \in DOMAIN b} |-> b[q[3]]]
Ctr(a, b, spec) == M(<<"contracts">>) @@ M(<<"contracts", "latency">>) @@ <<"contracts", "latency", <<a, b>>>> :> spec
One(vals) == "k" :> File(<<>>, vals)
Job(files, all, top, side) == [files |-> files, root |-> "k", all |-> all, top |-> top, side |-> side]
NoSide == <<>>
D(all, top) == ("top" :> top) @@ all

\* one channel's register
Flop(b, c, kind) == M(<<"xls">>) @@ M(<<"xls", "chan_flop">>) @@ <<"xls", "chan_flop", <<b, c>>>> :> kind
Scale(n) == M(<<"delay">>) @@ <<"delay", "scale">> :> n
FactsAt(names) == M(<<"design">>) @@ <<"design", "facts">> :> names

Base == Design(<<"add", "mul", "fork", "join">>)
Stages(n) == XlsDef("pipeline_stages", n)
In2Out == <<<<"in">>, <<"out">>>>
TwoAdds == TwoOf("add", "mul", 1)
Adds == D(Leaves0, TwoAdds)
\* one step of the chain is a component of its own
Deep(sub, depth) == D("mid" :> TwoOf("add", "mul", depth) @@ Leaves0, sub)
OneMid == TwoOf("add", "mid", 1)
OneMidCalls ==
    [OneMid EXCEPT !.calls = <<C(P("a", "i"), Top("in")), C(P("a", "o"), Put("q")), C(P("b", "in"), Took("q")), C(P("b", "out"), Top("out"))>>]

\* combinational blocks
Fwd(i, o) == <<<<o, "v">>, <<i, "v">>>>
Bwd(i, o) == <<<<i, "r">>, <<o, "r">>>>
Comb(d) == Extern(Ports({"i"}, {"o"}), d)
Hub(d) == Extern(Ports({"l", "r"}, {"o", "p"}), d)
Ring(depth) ==
    Class(Ports({"in"}, {"out"}), <<"h", "c">>, "h" :> "hub" @@ "c" :> "comb",
          "w" :> Chan("rv", 0) @@ "x" :> Chan("rv", depth),
          <<C(P("h", "l"), Top("in")), C(P("h", "p"), Put("w")), C(P("c", "i"), Took("w")), C(P("c", "o"), Put("x")),
            C(P("h", "r"), Took("x")), C(P("h", "o"), Top("out"))>>)
RingOf(hub, comb, depth) == D("hub" :> Hub(hub) @@ "comb" :> Comb(comb), Ring(depth))
\* the same ring with comb a component of two
RingDeep(hub, comb) ==
    D("hub" :> Hub(hub) @@ "c1" :> Comb(comb) @@
      "comb" :> Class(Ports({"i"}, {"o"}), <<"a", "b">>, "a" :> "c1" @@ "b" :> "c1", "q" :> Chan("rv", 0),
                      <<C(P("a", "i"), Top("i")), C(P("a", "o"), Put("q")), C(P("b", "i"), Took("q")), C(P("b", "o"), Top("o"))>>),
      Ring(0))
\* the ring inside a child, and inside a group
RingInside(hub, comb) ==
    D("mid" :> Ring(0) @@ "hub" :> Hub(hub) @@ "comb" :> Comb(comb) @@ Leaves0, OneMidCalls)
RingGrouped(hub, comb) ==
    D("hub" :> [Hub(hub) EXCEPT !.engine = "xls"] @@ "comb" :> [Comb(comb) EXCEPT !.engine = "xls"], Ring(0))
\* a ring of three, of which a group may have two
Ring3(hub, comb) ==
    D("hub" :> [Hub(hub) EXCEPT !.engine = "xls"] @@ "comb" :> [Comb(comb) EXCEPT !.engine = "xls"] @@ "ext" :> Comb(comb),
      Class(Ports({"in"}, {"out"}), <<"h", "c", "d">>, "h" :> "hub" @@ "c" :> "comb" @@ "d" :> "ext",
            "w" :> Chan("rv", 0) @@ "x" :> Chan("rv", 0) @@ "y" :> Chan("rv", 0),
            <<C(P("h", "l"), Top("in")), C(P("h", "p"), Put("w")), C(P("c", "i"), Took("w")), C(P("c", "o"), Put("x")),
              C(P("d", "i"), Took("x")), C(P("d", "o"), Put("y")), C(P("h", "r"), Took("y")), C(P("h", "o"), Top("out"))>>))

\* storage
Mem(m) == [Block({"i"}, {"o"}) EXCEPT !.mems = {m}]
Table == [Block({"i"}, {"o"}) EXCEPT !.table = TRUE]
Adds3 == D(Leaves0, TwoOf("add", "mul", 3))
WithMem == D("ram" :> Mem("m") @@ "tab" :> Table @@ Leaves0, TwoOf("ram", "tab", 3))
B(bind) == [bind |-> bind]
Default(b) == Store(<<"default">>, b)
AllBlocks == Design(<<"add", "mul", "fork", "join", "ram", "tab", "hub", "comb">>)

\* declared facts
Fact(i, o, v) == [src |-> i, dst |-> o] @@ v
Ext(facts, latency) ==
    [Extern(Ports({"i"}, {"o"}), {}) EXCEPT !.facts = facts, !.latency = latency]
Fixed1 == [fixed |-> 1]
Wide == [Extern(Ports({"i_0", "i_1"}, {"o"}), {}) EXCEPT
            !.arrays = "i[*]" :> {"i_0", "i_1"} @@ "i[0]" :> {"i_0"} @@ "z[*]" :> {},
            !.facts = {Fact("i[*]", "o", [min |-> 1, max |-> 2])}]
WideJoin ==
    Class(Ports({"in"}, {"out"}), <<"f", "j">>, "f" :> "fork" @@ "j" :> "wide", "x" :> Chan("rv", 1) @@ "y" :> Chan("rv", 0),
          <<C(P("f", "i"), Top("in")), C(P("f", "l"), Put("x")), C(P("f", "r"), Put("y")),
            C(P("j", "i_0"), Took("x")), C(P("j", "i_1"), Took("y")), C(P("j", "o"), Top("out"))>>)
WithExt(facts, latency) == D("ext" :> Ext(facts, latency) @@ Leaves0, TwoOf("add", "ext", 1))
SideFile(c, fs) == <<".", "f">> :> (c :> fs)

\* other kinds of channel and port
Kinds(ports) == [Leaf(ports) EXCEPT !.engine = "native"]
Lvl == "src" :> Kinds("i" :> In("rv") @@ "o" :> Out("rv") @@ "s" :> Out("level")) @@
       "dst" :> Kinds("i" :> In("rv") @@ "o" :> Out("rv") @@ "s" :> In("level"))
LevelTop == Class(Ports({"in"}, {"out"}), <<"a", "b">>, "a" :> "src" @@ "b" :> "dst", "q" :> Chan("rv", 1) @@ "s" :> Chan("level", 0),
                  Chain("q") \o <<C(P("a", "s"), Put("s")), C(P("b", "s"), Took("s"))>>)
Vld == "src" :> Kinds("i" :> In("rv") @@ "o" :> Out("valid")) @@ Leaves0
ValidTop == Class(Ports({"in"}, {"out"}), <<"a", "b">>, "a" :> "src" @@ "b" :> "add", "q" :> Chan("valid", 2), Chain("q"))
Stepper == "add" :> [Block({"i"}, {"o"}) EXCEPT !.step = TRUE] @@ Leaves0
WithCalls(calls) == D(Leaves0, [TwoAdds EXCEPT !.calls = calls])
\* two blocks that drive one output, and one that is driven by the input
Clash == <<C(P("a", "i"), Top("in")), C(P("a", "o"), Put("q")), C(P("b", "i"), Took("q")), C(P("b", "o"), Put("q"))>>

JobList == <<
    \* chains and diamonds of several schedules and registers
    Job(One(Base), Adds, "top", NoSide),
    Job(One(Base @@ Stages(2)), D(Leaves0, Diamond), "top", NoSide),
    Job(One(Base @@ Stages(2) @@ XlsOpt("mul", "pipeline_stages", 1) @@ Flop("add", "o", "skid") @@ XlsDef("flop_inputs", TRUE)), Adds, "top", NoSide),
    Job(One(Base @@ XlsDef("clock_period_ps", 500) @@ Scale(2) @@ Flop("add", "i", "zerolatency")), Adds, "top", NoSide),
    \* contracts: on a block, on the path; met, refused early, broken late
    Job(One(Base @@ Stages(2) @@ Ctr(<<"add", "i">>, <<"add", "o">>, Fixed1)), Adds, "top", NoSide),
    Job(One(Base @@ Stages(2) @@ Ctr(<<"add", "i">>, <<"add", "o">>, [fixed |-> 2])), Adds, "top", NoSide),
    Job(One(Base @@ Stages(2) @@ Ctr(<<"in">>, <<"out">>, [min |-> 2, max |-> 2])), Adds, "top", NoSide),
    Job(One(Base @@ Stages(2) @@ Ctr(<<"in">>, <<"out">>, [max |-> 0])), Adds, "top", NoSide),
    Job(One(Base @@ XlsDef("clock_period_ps", 500) @@ Flop("mul", "o", "flop") @@ Ctr(<<"in">>, <<"out">>, [max |-> 1])), Adds, "top", NoSide),
    Job(One(Base @@ XlsOpt("mul", "pipeline_stages", 2) @@ Flop("join", "o", "flop") @@ Ctr(<<"in">>, <<"out">>, [max |-> 2])), D(Leaves0, Diamond), "top", NoSide),
    Job(One(Base @@ XlsOpt("add", "pipeline_stages", 2) @@ Ctr(<<"in">>, <<"out">>, [max |-> 1])), D(Leaves0, Diamond), "top", NoSide),
    Job(One(AllBlocks @@ Stages(2) @@ Ctr(<<"hub", "l">>, <<"hub", "o">>, Fixed1) @@ Ctr(<<"hub", "l">>, <<"hub", "p">>, [fixed |-> 0])
            @@ Ctr(<<"hub", "r">>, <<"hub", "o">>, [fixed |-> 0]) @@ Ctr(<<"hub", "r">>, <<"hub", "p">>, Fixed1)),
        RingGrouped({}, {}), "top", NoSide),
    \* groups
    Job(One(Base @@ Group("g", <<"add", "mul">>) @@ XlsDef("flop_outputs", TRUE)), Adds, "top", NoSide),
    Job(One(Base @@ Group("g", <<"fork", "join">>) @@ Flop("join", "l", "flop") @@ Flop("fork", "r", "flop")), D(Leaves0, Diamond), "top", NoSide),
    Job(One(Base @@ Group("g", <<"fork", "join", "add">>) @@ Stages(2)), D(Leaves0, Diamond), "top", NoSide),
    Job(One(Base @@ Group("g", <<"add", "mul">>)), Deep(OneMidCalls, 1), "top", NoSide),
    Job(One(Base @@ Group("q", <<"add", "mul">>)), Adds, "top", NoSide),
    Job(One(Base @@ Group("g", <<"add">>) @@ Group("m", <<"fork", "join">>)), D(Leaves0, Diamond), "top", NoSide),
    Job(One(Base @@ Group("g", <<"add", "fork">>) @@ XlsOpt("add", "pipeline_stages", 2)), D(Leaves0, Diamond), "top", NoSide),
    \* components in components
    Job(One(Base), Deep(Nested("mid", 0), 1), "top", NoSide),
    Job(One(Base @@ Stages(2)), Deep(OneMidCalls, 0), "top", NoSide),
    Job(One(Base @@ Group("g", <<"mul">>)), Deep(OneMidCalls, 1), "top", NoSide),
    \* storage
    Job(One(Base @@ Default(B("sram")) @@ Store(<<"q">>, B("sram") @@ [macro |-> "hard"])), Adds3, "top", NoSide),
    Job(One(Base @@ Default(B("sram"))), Adds, "top", NoSide),
    Job(One(Base @@ Default(B("sram")) @@ Store(<<"q">>, B("flops"))), Adds3, "top", NoSide),
    Job(One(Base @@ Store(<<"q">>, B("xls_fifo"))), Adds, "top", NoSide),
    Job(One(Base @@ Group("g", <<"add", "mul">>) @@ Store(<<"q">>, B("xls_fifo"))), Adds, "top", NoSide),
    Job(One(Base @@ Group("g", <<"fork", "join", "add">>) @@ Store(<<"x">>, B("wrapper") @@ [module |-> "w"])), D(Leaves0, Diamond), "top", NoSide),
    Job(One(Base @@ Group("g", <<"fork", "join", "add">>) @@ Default(B("wrapper") @@ [module |-> "w"])), D(Leaves0, Diamond), "top", NoSide),
    Job(One(AllBlocks @@ Store(<<"a", "m">>, B("sram") @@ [macro |-> "hard"]) @@ Store(<<"b">>, B("flops")) @@ Store(<<"q">>, B("wrapper") @@ [module |-> "w"])), WithMem, "top", NoSide),
    Job(One(AllBlocks @@ Store(<<"b">>, B("sram"))), WithMem, "top", NoSide),
    Job(One(AllBlocks @@ Store(<<"a", "m">>, B("sram") @@ [latency |-> 2])), WithMem, "top", NoSide),
    Job(One(Base @@ Store(<<"b", "q">>, B("sram"))), Deep(OneMidCalls, 3), "top", NoSide),
    Job(One(Base @@ Store(<<"b", "q">>, B("sram"))), Deep(Nested("mid", 1), 3), "top", NoSide),
    \* facts
    Job(One(Base), WithExt({Fact("i", "o", [min |-> 1, max |-> 2])}, None), "top", NoSide),
    Job(One(Base), WithExt({Fact("i", "o", [max |-> 1])}, 3), "top", NoSide),
    Job(One(Base), WithExt({Fact("i", "o", [min |-> 2])}, None), "top", NoSide),
    Job(One(Base @@ Stages(2)), WithExt({}, 2), "top", NoSide),
    Job(One(Base), WithExt({Fact("i", "o", [min |-> 2, max |-> 1])}, None), "top", NoSide),
    Job(One(Base), WithExt({Fact("i", "z", Fixed1)}, None), "top", NoSide),
    Job(One(Base @@ FactsAt(<<"f">>)), WithExt({}, None), "top", SideFile("ext", {Fact("i", "o", Fixed1)})),
    Job(One(Base @@ FactsAt(<<"f">>)), WithExt({}, None), "top", SideFile("none", {Fact("i", "o", Fixed1)})),
    Job(One(Base), D("wide" :> Wide @@ Leaves0, WideJoin), "top", NoSide),
    \* combinational paths
    Job(One(Base), RingOf({Fwd("r", "p"), Fwd("l", "o")}, {Fwd("i", "o")}, 0), "top", NoSide),
    Job(One(Base), RingOf({Fwd("r", "p"), Fwd("l", "o")}, {Fwd("i", "o")}, 1), "top", NoSide),
    Job(One(Base), RingOf({Bwd("r", "p"), Fwd("l", "o")}, {Bwd("i", "o")}, 0), "top", NoSide),
    Job(One(Base), RingOf({Fwd("l", "p"), Fwd("r", "o")}, {Fwd("i", "o")}, 0), "top", NoSide),
    Job(One(Base), RingOf({<<<<"r", "r">>, <<"r", "v">>>>, <<<<"p", "v">>, <<"p", "r">>>>}, {Fwd("i", "o"), Bwd("i", "o")}, 0), "top", NoSide),
    Job(One(Base), RingDeep({Fwd("r", "p")}, {Fwd("i", "o")}), "top", NoSide),
    Job(One(Base), RingDeep({Bwd("r", "p")}, {Fwd("i", "o")}), "top", NoSide),
    Job(One(Base), RingInside({Bwd("r", "p")}, {Bwd("i", "o")}), "top", NoSide),
    Job(One(AllBlocks @@ Group("g", <<"hub", "comb">>)), RingGrouped({Fwd("r", "p")}, {Bwd("i", "o")}), "top", NoSide),
    Job(One(AllBlocks @@ Group("g", <<"comb">>)), RingGrouped({Fwd("r", "p")}, {Fwd("i", "o")}), "top", NoSide),
    Job(One(AllBlocks @@ Group("g", <<"hub", "comb">>)), RingGrouped({Fwd("r", "p")}, {Fwd("i", "o")}), "top", NoSide),
    Job(One(AllBlocks @@ Group("g", <<"hub", "comb">>)), Ring3({Fwd("r", "p")}, {Fwd("i", "o")}), "top", NoSide),
    \* kinds of channel, and steps
    Job(One(Base), D(Lvl, LevelTop), "top", NoSide),
    Job(One(Base), D(Vld, ValidTop), "top", NoSide),
    Job(One(Base @@ Store(<<"q">>, B("xls_fifo"))), D(Vld, ValidTop), "top", NoSide),
    Job(One(Base), D(Vld, TwoOf("src", "add", 1)), "top", NoSide),
    Job(One(Base), D(Stepper, TwoOf("add", "mul", 0)), "top", NoSide),
    Job(One(Base), D(Stepper, TwoOf("add", "mul", 1)), "top", NoSide),
    \* connect() calls
    Job(One(Base), WithCalls(<<C(P("a", "i"), Top("in")), C(P("a", "o"), <<"q", "put_step_ex">>), C(P("b", "i"), <<"q", "get_nb_ex">>), C(P("b", "o"), Top("out"))>>), "top", NoSide),
    Job(One(Base), WithCalls(Clash), "top", NoSide),
    Job(One(Base), WithCalls(Clash \o <<C(P("b", "o"), Top("out"))>>), "top", NoSide),
    Job(One(Base), WithCalls(<<C(P("a", "i"), Top("in")), C(P("a", "o"), P("b", "i"))>>), "top", NoSide),
    Job(One(Base), WithCalls(Tail(Chain("q"))), "top", NoSide),
    \* knob files
    Job("c" :> File(<<>>, Base @@ Stages(2)) @@ "a" :> File(<<"c">>, Stages(1)) @@ "b" :> File(<<"c">>, XlsOpt("add", "pipeline_stages", 1)) @@
        "k" :> File(<<"a", "b">>, XlsOpt("add", "flop_inputs", TRUE)), Adds, "top", NoSide),
    Job("a" :> File(<<"k">>, Base) @@ "k" :> File(<<"a">>, Base), Adds, "top", NoSide),
    Job("a" :> File(<<>>, Base @@ Default(B("sram"))) @@ "k" :> File(<<"a">>, Default(B("flops") @@ [macro |-> "m"])), Adds, "top", NoSide),
    Job("a" :> File(<<>>, Base @@ Group("g", <<"add", "mul">>)) @@ "k" :> File(<<"a">>, XlsOpt("add", "pipeline_stages", 2)), Adds, "top", NoSide),
    Job(One(Design(<<"add">>) @@ XlsOpt("mul", "pipeline_stages", 2)), Adds, "top", NoSide)>>
MCJobs == ToSet(JobList)

-----------------------------------------------------------------------------
(* The four parts. *)

VARIABLES
    part,
    r_d, r_blk, r_core, r_decls, r_val, r_flops, r_armed, r_seen,
    s_job, s_pre, s_post, s_last, s_busy, s_sampled, s_fresh,
    o_stream, o_trace, o_chk, o_at, o_wrong
r_vars == <<r_d, r_blk, r_core, r_decls, r_val, r_flops, r_armed, r_seen>>
s_vars == <<s_job, s_pre, s_post, s_last, s_busy, s_sampled, s_fresh>>
o_vars == <<o_stream, o_trace, o_chk, o_at, o_wrong>>

Blocks == INSTANCE RegDesigns
R == INSTANCE RegSync WITH
        Stride <- 2, Designs <- Blocks!Designs, Words <- Blocks!RegWords,
        d <- r_d, blk <- r_blk, core <- r_core, decls <- r_decls, val <- r_val, flops <- r_flops,
        armed <- r_armed, seen <- r_seen

\* Stage counts 1 and 2, every set of transformations with every clause, and
\* all transformations with any one clause missing.
Show(hi, lo, kw, b) == "key_hi" :> hi @@ "key_lo" :> lo @@ "key_width" :> kw @@ "block" :> b
MCInputs ==
    {Show(0, 0, 0, 0), Show(1, 0, 0, 0), Show(0, 1, 0, 0), Show(0, 0, 0, 1), Show(1, 0, 1, 0), Show(0, 0, 1, 0)}
Xs == {"X6", "X2", "X1", "X3"}
PassClauses ==
    {"mode_fixed", "key_stable_op", "key_stable_busy", "block_stable", "one_in_flight", "store_after_result"}
MCPasses ==
    [stages : 1 .. 2, xs : SUBSET Xs, clauses : {PassClauses}, stable : BOOLEAN]
    \cup [stages : 1 .. 2, xs : {Xs \cup {"X5"}}, clauses : {PassClauses \ {c} : c \in PassClauses}, stable : {TRUE}]
S == INSTANCE Cosynth WITH
        Jobs <- MCPasses, Inputs <- MCInputs,
        job <- s_job, pre <- s_pre, post <- s_post, last <- s_last, busy <- s_busy, sampled <- s_sampled,
        fresh <- s_fresh

\* Three items: one order, one per key, strict ones, and pairs that may pass.
Rule(keys, classes, per_key, allow, strict, pin) ==
    [key |-> keys, cls |-> classes, per_key |-> per_key, allow_pass |-> allow, strict_after |-> strict, pin |-> pin,
     wrong |-> IF pin \/ strict # {} THEN 0 ELSE 1]
MCStreams == {
    Rule(<<1, 1, 1>>, <<0, 0, 0>>, FALSE, {}, {}, FALSE),
    Rule(<<1, 2, 1>>, <<0, 0, 0>>, TRUE, {}, {}, FALSE),
    Rule(<<1, 2, 1>>, <<0, 0, 0>>, TRUE, {}, {<<0, 0>>}, FALSE),
    Rule(<<1, 1, 1>>, <<0, 1, 0>>, FALSE, {<<0, 1>>}, {<<0, 0>>}, FALSE),
    Rule(<<1, 1, 1>>, <<0, 1, 0>>, FALSE, {<<0, 1>>, <<1, 0>>}, {}, TRUE),
    Rule(<<1, 2, 1>>, <<1, 0, 0>>, TRUE, {<<1, 0>>}, {<<0, 1>>}, FALSE)}
O == INSTANCE Canon WITH
        Streams <- MCStreams, LastCycle <- 1,
        stream <- o_stream, trace <- o_trace, chk <- o_chk, at <- o_at, wrong <- o_wrong

\* What the parts that a behaviour is not of have.
NoFlow ==
    /\ job = None /\ phase = "rejected" /\ knobs = NoKnobs /\ shell = None /\ rows = <<>> /\ early = {}
    /\ sched = <<>> /\ report = {} /\ net = None /\ found = {} /\ at = <<>>
NoRegs ==
    /\ r_d = None /\ r_blk = None /\ r_core = None /\ r_decls = None /\ r_val = None /\ r_flops = None
    /\ r_armed = None /\ r_seen = None
NoPass ==
    /\ s_job = None /\ s_pre = None /\ s_post = None /\ s_last = None /\ s_busy = None /\ s_sampled = None
    /\ s_fresh = None
NoOrder == o_stream = None /\ o_trace = None /\ o_chk = None /\ o_at = None /\ o_wrong = None

PartsInit ==
    /\ part \in Parts
    /\ IF part = "flow" THEN Init ELSE NoFlow
    /\ IF part = "regs" THEN R!Init ELSE NoRegs
    /\ IF part = "cosynth" THEN S!Init ELSE NoPass
    /\ IF part = "order" THEN O!Init ELSE NoOrder
PartsNext ==
    /\ UNCHANGED part
    /\ \/ part = "flow" /\ Next /\ UNCHANGED <<r_vars, s_vars, o_vars>>
       \/ part = "regs" /\ R!Next /\ UNCHANGED <<vars, s_vars, o_vars>>
       \/ part = "cosynth" /\ S!Next /\ UNCHANGED <<vars, r_vars, o_vars>>
       \/ part = "order" /\ O!Next /\ UNCHANGED <<vars, r_vars, s_vars>>
PartsSpec == PartsInit /\ [][PartsNext]_<<part, vars, r_vars, s_vars, o_vars>>

-----------------------------------------------------------------------------
(* The properties of the parts that are instances. *)

\* Every register is in the generated core at its address, and once the FSMs
\* have answered, its flops hold what the class object does; a bus read returns
\* what the class's read does, and the observers of a register hear of the same
\* writes (emit/regblock.py).
SameBlock == part = "regs" => R!SameRegs /\ R!SameAccess
\* The rewritten pipeline gives the original's results, as much earlier as the
\* report says, if its environment keeps the clauses of what was applied
\* (cosynth/rewrite.py and the assertions of cosynth/equiv.py).
SameResults == part = "cosynth" => S!SameResults
\* compare finds no difference just when both traces keep the contract and are
\* the same function (verif/canon.py).
SameFunction == part = "order" => O!SameFunction
=============================================================================
