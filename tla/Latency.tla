--------------------------------- MODULE Latency -------------------------------
(***************************************************************************)
(* How long a first value takes from a top input to a top output           *)
(* (latency.py), from the schedules that codegen made of the blocks and    *)
(* the facts declared of others (facts.py); and the latency contracts of a *)
(* knob file, before and after there is a schedule (check/contracts.py).   *)
(*                                                                         *)
(* A schedule gives every port of a block's class a stage.  A fact is      *)
(* [src, dst] and some of [fixed, min, max].                               *)
(***************************************************************************)
EXTENDS Netlist

AtMost(a, b) == a = None \/ b = None \/ a <= b
Plus(a, b) == IF a = None \/ b = None THEN None ELSE a + b

-----------------------------------------------------------------------------
(* Facts. *)

LatencyRange(v) ==
    IF "fixed" \in DOMAIN v THEN [lo |-> v.fixed, hi |-> v.fixed]
    ELSE [lo |-> Field(v, "min", 0), hi |-> Field(v, "max", None)]
\* check_value
FactOk(v) ==
    /\ DOMAIN v \cap {"fixed", "min", "max"} # {}
    /\ "fixed" \in DOMAIN v => DOMAIN v \cap {"min", "max"} = {}
    /\ LatencyRange(v).lo >= 0 /\ AtMost(LatencyRange(v).lo, LatencyRange(v).hi)
\* expand: an array's name with [*] stands for each of its ports.
Expand(class, p) == IF p \in DOMAIN class.arrays THEN class.arrays[p] ELSE {p}
Expanded(class, facts) ==
    UNION {{[src |-> s, dst |-> d, range |-> LatencyRange(f)] : s \in Expand(class, f.src), d \in Expand(class, f.dst)} :
            f \in facts}
\* for_block, of what the class declares and what the sidecar files add.
FactsOk(class, facts) ==
    \A f \in facts : FactOk(f) /\ \A p \in {f.src, f.dst} :
        Expand(class, p) # {} /\ Expand(class, p) \subseteq DOMAIN class.ports
Declared(all, c, side) == all[c].facts \cup (IF c \in DOMAIN side THEN side[c] ELSE {})

-----------------------------------------------------------------------------
(* A block's registers and stages. *)

Reg(kind) == IF kind \in {"flop", "skid"} THEN 1 ELSE 0
Side(dir) == IF dir = "in" THEN "inputs" ELSE "outputs"
ChanReg(k, all, c, p) == Reg(ChanFlop(k, c, p, Side(all[c].ports[p].dir)))
Outputs(class) == {p \in DOMAIN class.ports : class.ports[p].dir = "out"}

\* io_constraints: what a block's own contracts ask of its schedule.
BlockKey(k, key) == Len(key[1]) = 2 /\ Len(key[2]) = 2 /\ key[1][1] = key[2][1] /\ key[1][1] \in XlsBlocks(k)
Contract(k, key) == k.vals[<<"contracts", "latency", key>>]
Bounds(spec) ==
    IF "fixed" \in DOMAIN spec THEN [lo |-> spec.fixed, hi |-> spec.fixed]
    ELSE [lo |-> Field(spec, "min", None), hi |-> Field(spec, "max", None)]
Meets(b, lo, hi) == AtMost(lo, b.hi) /\ AtMost(b.lo, hi)
IoConstraints(k, all, c) ==
    {LET regs == ChanReg(k, all, c, key[1][2]) + ChanReg(k, all, c, key[2][2])
         b == Bounds(Contract(k, key))
     IN  [from |-> key[1][2], to |-> key[2][2],
          lo |-> IF b.lo = None THEN None ELSE IF b.lo < regs THEN 0 ELSE b.lo - regs,
          hi |-> IF b.hi = None THEN None ELSE b.hi - regs] :
        key \in {key \in Contracts(k) : BlockKey(k, key) /\ key[1][1] = c}}

\* What codegen may make of a block: within its stages, each send no earlier
\* than the receives, as its constraints ask.  Bound: MaxStages for a period.
StagesOf(k, c, MaxStages) ==
    IF ScheduleOptions(k, c).stages # None THEN ScheduleOptions(k, c).stages
    ELSE IF ScheduleOptions(k, c).period # None THEN MaxStages ELSE 1
Schedules(k, all, c, MaxStages) ==
    {s \in [DOMAIN all[c].ports -> 0 .. StagesOf(k, c, MaxStages) - 1] :
        /\ \A i \in DOMAIN all[c].ports \ Outputs(all[c]), o \in Outputs(all[c]) : s[i] <= s[o]
        /\ \A x \in IoConstraints(k, all, c) : Meets(x, s[x.to] - s[x.from], s[x.to] - s[x.from])}

\* BlockTiming.latency, with the registers on its channels.
StageLatency(s, in, out) == s[out] - s[in]
BlockLatency(k, all, c, s, in, out) ==
    ChanReg(k, all, c, in) + StageLatency(s, in, out) + ChanReg(k, all, c, out)

\* GroupTiming: from one of its ports to another, over every way inside.
RECURSIVE GroupPaths(_, _, _, _, _, _)
GroupPaths(t, entry, p, acc, dst, seen) ==
    LET c == entry.members[p[1]]
        in == IF p \in entry.external THEN ChanReg(t.k, t.all, c, p[2]) ELSE 0
        At(o) ==
            acc + in + StageLatency(t.sched[c], p[2], o)
                + (IF <<p[1], o>> \in entry.external THEN ChanReg(t.k, t.all, c, o) ELSE 0)
        links(o) == {l \in DOMAIN entry.internal \ seen : entry.internal[l].a = <<p[1], o>>}
    IN  {At(o) : o \in {o \in Outputs(t.all[c]) : <<p[1], o>> = dst}}
        \cup UNION {UNION {GroupPaths(t, entry, entry.internal[l].b,
                                      At(o) + (IF entry.internal[l].depth = 0 THEN 0 ELSE 1), dst, seen \cup {l}) :
                            l \in links(o)} : o \in Outputs(t.all[c])}
GroupLatency(t, entry, p, dst) == GroupPaths(t, entry, p, 0, dst, {})
MaxOf(S) == CHOOSE x \in S : \A y \in S : y <= x

-----------------------------------------------------------------------------
(* walk: every path from a top input to a top output.  t.pre says whether   *)
(* it is walked for precheck or for report.                                 *)

\* precheck's block_range: what any schedule can give a child.
BlockRange(k, c, in, out) ==
    LET regs == Reg(ChanFlop(k, c, in, "inputs")) + Reg(ChanFlop(k, c, out, "outputs"))
        o == ScheduleOptions(k, c)
    IN  [lo |-> regs,
         hi |-> IF o.stages = None /\ o.period # None THEN None
                ELSE regs + (IF o.stages = None THEN 1 ELSE o.stages) - 1]

Sends(sh, kid) ==
    {p[2] : p \in {p \in DOMAIN sh.binds : p[1] = kid /\
        LET to == sh.binds[p]
        IN  IF to[2] = None THEN sh.ports[to[1]].dir = "out" ELSE to[2] \in PutEnd}}
Consumer(sh, name) ==
    {p \in DOMAIN sh.binds : sh.binds[p][1] = name /\ (name \in DOMAIN sh.ports \/ sh.binds[p][2] \in GetEnd)}
Hop(o, lo, hi) == [dst |-> o, lo |-> lo, hi |-> hi]
Fixed(o, n) == Hop(o, n, n)
\* The hops of a leaf from its port in, as report takes them.
LeafHops(t, kid, in) ==
    LET class == t.all[kid.class]
        facts == {f \in t.facts[kid.class] : f.src = in}
    IN  IF kid.group # None
        THEN {Fixed(o, MaxOf(GroupLatency(t, kid.group, in, o))) : o \in {o \in kid.group.external : GroupLatency(t, kid.group, in, o) # {}}}
        ELSE IF facts # {} THEN {Hop(f.dst, f.range.lo, f.range.hi) : f \in facts}
        ELSE IF kid.engine = "xls"
        THEN {Fixed(o, BlockLatency(t.k, t.all, kid.class, t.sched[kid.class], in, o)) : o \in Outputs(class)}
        ELSE IF class.latency # None THEN {Fixed(o, class.latency) : o \in Outputs(class)}
        ELSE {}

\* The cost of a channel.
\* Mutant: a wire costs a cycle too.
ChanCost_Wire(chan) == 1
ChanCost(chan) == IF chan.depth = 0 THEN 0 ELSE 1
RECURSIVE Walk(_, _, _, _, _, _)
Walk(t, sh, p, lo, hi, seen) ==
    LET kid == sh.kids[p[1]]
        hops ==
            IF t.pre THEN {LET r == BlockRange(t.k, kid.class, p[2], o) IN Hop(o, r.lo, r.hi) : o \in Sends(sh, p[1])}
            ELSE IF kid.engine = "structural"
            THEN UNION {Walk(t, kid.shell, q, 0, 0, {}) : q \in Consumer(kid.shell, p[2])}
            ELSE LeafHops(t, kid, p[2])
        After(h) ==
            LET to == sh.binds[<<p[1], h.dst>>]
                cost == ChanCost(sh.chans[to[1]])
            IN  IF to[2] = None THEN {Hop(to[1], lo + h.lo, Plus(hi, h.hi))}
                ELSE IF to[1] \in seen THEN {}
                ELSE UNION {Walk(t, sh, q, lo + h.lo + cost, Plus(hi, Plus(h.hi, cost)), seen \cup {to[1]}) :
                            q \in Consumer(sh, to[1])}
    IN  UNION {After(h) : h \in hops}
\* The paths, by top input: [src, dst, lo, hi].
Paths(t, sh) ==
    UNION {UNION {{[src |-> i] @@ h : h \in Walk(t, sh, q, 0, 0, {})} : q \in Consumer(sh, i)} :
            i \in {i \in DOMAIN sh.ports : sh.ports[i].dir = "in"}}

-----------------------------------------------------------------------------
(* Contracts. *)

OfKey(paths, key) == {h \in paths : <<h.src>> = key[1] /\ <<h.dst>> = key[2]}
\* precheck: the contracts that no schedule can meet.
Candidates(t, sh, key) ==
    IF BlockKey(t.k, key)
    THEN {BlockRange(t.k, key[1][1], key[1][2], key[2][2]) : n \in {n \in DOMAIN sh.kids : sh.kids[n].class = key[1][1]}}
    ELSE OfKey(Paths(t, sh), key)
Precheck(t, sh) ==
    {key \in Contracts(t.k) : \A x \in Candidates(t, sh, key) : ~Meets(Bounds(Contract(t.k, key)), x.lo, x.hi)}
\* postcheck: the contracts on top paths that the report breaks.
\* Mutant: one path of several is enough.
Postcheck_Any(t, paths) ==
    {key \in Contracts(t.k) : ~BlockKey(t.k, key) /\ OfKey(paths, key) # {} /\
        \A h \in OfKey(paths, key) : ~Meets(Bounds(Contract(t.k, key)), h.lo, h.lo)}
Postcheck(t, paths) ==
    {key \in Contracts(t.k) : ~BlockKey(t.k, key) /\
        \E h \in OfKey(paths, key) : ~Meets(Bounds(Contract(t.k, key)), h.lo, h.lo)}
================================================================================
