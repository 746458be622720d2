--------------------------------- MODULE Netlist -------------------------------
(***************************************************************************)
(* The RTL of a partition (integrate in spl_flow.py): a module for every   *)
(* shell, with a FIFO for every channel that holds values and an instance  *)
(* for every child; and the boundary checks on it (check/boundary.py).     *)
(*                                                                         *)
(* A module is [ports, fifos, insts].  A net is <<channel, side>>, side    *)
(* being "in", "out" or "wire" (a level's), or <<own port, None>>.         *)
(***************************************************************************)
EXTENDS Partition

\* The net at a provider of a shell, and its kind.
SideOf(chan, end) ==
    IF chan.kind = "level" THEN "wire" ELSE IF end = "put_ex" THEN "in" ELSE "out"
NetOf(sh, to) == IF to[2] = None THEN to ELSE <<to[1], SideOf(sh.chans[to[1]], to[2])>>
NetKind(sh, to) ==
    IF to[2] = None THEN sh.ports[to[1]].kind
    ELSE IF to[2] = "put_ex" \/ sh.chans[to[1]].kind = "level" THEN sh.chans[to[1]].kind ELSE "rv"

\* The channels of a leaf's signature: port -> kind.
LeafSig(all, kid) ==
    IF kid.group # None
    THEN [p \in kid.group.external |-> all[kid.group.members[p[1]]].sig[p[2]]]
    ELSE all[kid.class].sig
PortKinds(ports) == [p \in DOMAIN ports |-> ports[p].kind]

\* _fifo: the FIFO module, and its RAM.
FifoModule(s) ==
    CASE s.bind = "wrapper" -> s.module
      [] s.bind = "sram" -> "fw_sram_fifo"
      [] OTHER -> "fw_rv_fifo"
Fifo(chan) ==
    LET s == IF chan.storage = None THEN [bind |-> "flops", module |-> None] ELSE chan.storage
    IN  [module |-> FifoModule(s), ram |-> IF s.bind = "sram" THEN s.module ELSE None, depth |-> chan.depth]

\* The module of a shell, with the signatures of its children.
WiredOk(sh, sigs) ==
    /\ \A p \in DOMAIN sh.ports : ~(sh.ports[p].kind = "valid" /\ sh.ports[p].dir = "in")
    /\ \A k \in DOMAIN sh.kids : \A p \in DOMAIN sigs[k] :
        <<k, p>> \in DOMAIN sh.binds /\ NetKind(sh, sh.binds[<<k, p>>]) = sigs[k][p]
Wired(sh, sigs) ==
    [ports |-> sh.ports,
     fifos |-> [c \in {c \in DOMAIN sh.chans : sh.chans[c].kind # "level"} |-> Fifo(sh.chans[c])],
     insts |-> [k \in DOMAIN sh.kids |->
                [kid   |-> sh.kids[k],
                 conns |-> [p \in DOMAIN sigs[k] |-> NetOf(sh, sh.binds[<<k, p>>])]]]]

\* integrate: structural children first, each class once; mods holds the
\* modules written so far, of which the last of a name stays.
RECURSIVE Integrated(_, _, _)
Integrated(all, sh, known) ==
    LET Add(acc, k) ==
            IF sh.kids[k].engine # "structural" \/ sh.kids[k].class \in acc.known THEN acc
            ELSE LET sub == Integrated(all, sh.kids[k].shell, acc.known)
                 IN  [ok |-> acc.ok /\ sub.ok, mods |-> sub.mods @@ acc.mods,
                      known |-> acc.known \cup {sh.kids[k].class}]
        under == FoldLeft(Add, [ok |-> TRUE, mods |-> <<>>, known |-> known], sh.order)
        sigs == [k \in DOMAIN sh.kids |->
                    IF sh.kids[k].engine = "structural" THEN PortKinds(all[sh.kids[k].class].ports)
                    ELSE LeafSig(all, sh.kids[k])]
    IN  IF ~under.ok \/ ~WiredOk(sh, sigs) THEN [ok |-> FALSE, mods |-> <<>>]
        ELSE [ok |-> TRUE, mods |-> (sh.module :> Wired(sh, sigs)) @@ under.mods]
Integrate(all, sh) == Integrated(all, sh, {})

-----------------------------------------------------------------------------
(* The netlist with its hierarchy removed: the leaves' ports and the nets   *)
(* they are on, and the FIFOs.  A group's module is what codegen makes of   *)
(* the group's entry: the members, and FIFOs of one form.                   *)

Local(path, net, outer) == IF net[2] = None THEN outer[net[1]] ELSE <<Append(path, net[1]), net[2]>>
FlatGroup(path, entry, conns, outer) ==
    [pins  |-> {<<Append(path, p[1]), p[2], Local(path, conns[p], outer)>> : p \in entry.external}
                \cup UNION {{<<Append(path, entry.internal[c].a[1]), entry.internal[c].a[2], <<Append(path, c), "in">>>>,
                             <<Append(path, entry.internal[c].b[1]), entry.internal[c].b[2], <<Append(path, c), "out">>>>} :
                            c \in DOMAIN entry.internal},
     fifos |-> {<<Append(path, c), GroupFifo(entry), entry.internal[c].depth>> : c \in DOMAIN entry.internal}]
Bare(f) == [bind |-> CASE f.module = "fw_sram_fifo" -> "sram" [] f.module = "fw_rv_fifo" -> "flops" [] OTHER -> "wrapper",
            module |-> CASE f.module = "fw_sram_fifo" -> f.ram [] f.module = "fw_rv_fifo" -> None [] OTHER -> f.module]
RECURSIVE Flat(_, _, _, _)
Flat(mods, m, path, outer) ==
    LET mod == mods[m]
        Part(k) ==
            LET inst == mod.insts[k]
            IN  CASE inst.kid.engine = "structural" ->
                        Flat(mods, inst.kid.class, Append(path, k),
                             [p \in DOMAIN inst.conns |-> Local(path, inst.conns[p], outer)])
                  [] inst.kid.group # None -> FlatGroup(path, inst.kid.group, inst.conns, outer)
                  [] OTHER -> [pins  |-> {<<Append(path, k), p, Local(path, inst.conns[p], outer)>> : p \in DOMAIN inst.conns},
                               fifos |-> {<<path \o <<k, mem>>, inst.kid.mems[mem], 0>> : mem \in DOMAIN inst.kid.mems}]
        parts == [k \in DOMAIN mod.insts |-> Part(k)]
    IN  [pins  |-> UNION {parts[k].pins : k \in DOMAIN parts},
         fifos |-> {<<Append(path, c), Bare(mod.fifos[c]), mod.fifos[c].depth>> : c \in DOMAIN mod.fifos}
                    \cup UNION {parts[k].fifos : k \in DOMAIN parts}]
Pins(mod) == [p \in DOMAIN mod.ports |-> <<<<p>>, "pin">>]
Netlist(mods, m) == Flat(mods, m, <<>>, Pins(mods[m]))

-----------------------------------------------------------------------------
(* Combinational paths.  A net has a forward side "v" (data, valid) and a   *)
(* backward one "r" (ready); a leaf class's deps are the pairs <<output pin, *)
(* input pin>> of which the first depends on the second.                    *)

Nodes(flat, path, pin) == {<<x[3], pin[2]>> : x \in {x \in flat.pins : x[1] = path /\ x[2] = pin[1]}}
\* The class of the leaf at each path.
FlatEdges(all, flat, leaf) ==
    UNION {UNION {Nodes(flat, l, d[2]) \X Nodes(flat, l, d[1]) : d \in all[leaf[l]].deps} : l \in DOMAIN leaf}
    \cup UNION {{<<<<<<f[1], "in">>, "v">>, <<<<f[1], "out">>, "v">>>>, <<<<<<f[1], "out">>, "r">>, <<<<f[1], "in">>, "r">>>>} :
                f \in {f \in flat.fifos : f[3] = 0}}
RECURSIVE Reach(_, _)
Reach(edges, from) ==
    LET next == from \cup {e[2] : e \in {e \in edges : e[1] \in from}}
    IN  IF next = from THEN from ELSE Reach(edges, next)
Cyclic(edges) == \E e \in edges : e[1] \in Reach(edges, {e[2]})

\* The leaves of a shell, group members apart, by path.
RECURSIVE Leaves(_, _)
Leaves(sh, path) ==
    UNION {CASE sh.kids[k].engine = "structural" -> Leaves(sh.kids[k].shell, Append(path, k))
             [] sh.kids[k].group # None -> {<<Append(path, m), sh.kids[k].group.members[m]>> : m \in DOMAIN sh.kids[k].group.members}
             [] OTHER -> {<<Append(path, k), sh.kids[k].class>>} : k \in DOMAIN sh.kids}
LeafClass(sh) ==
    [l \in {x[1] : x \in Leaves(sh, <<>>)} |-> (CHOOSE x \in Leaves(sh, <<>>) : x[1] = l)[2]]

\* comb_deps of a child (yosys on its flattened Verilog).
ChildDeps(all, mods, kid) ==
    LET group == kid.group
        dirs == IF group = None THEN all[kid.class].ports
                ELSE [p \in group.external |-> all[group.members[p[1]]].ports[p[2]]]
        outer == [p \in DOMAIN dirs |-> <<IF group = None THEN <<p>> ELSE p, "pin">>]
        flat == IF group = None THEN Flat(mods, kid.class, <<>>, outer)
                ELSE FlatGroup(<<>>, group, [p \in group.external |-> <<p, None>>], outer)
        leaf == IF group = None THEN LeafClass(kid.shell)
                ELSE [l \in {<<m>> : m \in DOMAIN group.members} |-> group.members[l[1]]]
        edges == FlatEdges(all, flat, leaf)
        from == {<<p, IF dirs[p].dir = "in" THEN "v" ELSE "r">> : p \in DOMAIN dirs}
        to == {<<p, IF dirs[p].dir = "in" THEN "r" ELSE "v">> : p \in DOMAIN dirs}
    IN  {d \in to \X from : <<outer[d[1][1]], d[1][2]>> \in Reach(edges, {<<outer[d[2][1]], d[2][2]>>})}
Deps(all, mods, kid) ==
    IF kid.engine = "structural" \/ kid.group # None THEN ChildDeps(all, mods, kid) ELSE all[kid.class].deps

\* check, of one shell.
\* Mutant: ready does not go back through a wire.
Wires_Forward(sh) ==
    UNION {UNION {{<<<<pc, "v">>, <<cc, "v">>>> : pc \in AtEnd(sh, c, PutEnd)} : cc \in AtEnd(sh, c, GetEnd)} :
            c \in {c \in DOMAIN sh.chans : sh.chans[c].depth = 0}}
Wires(sh) ==
    UNION {UNION {UNION {{<<<<pc, "v">>, <<cc, "v">>>>, <<<<cc, "r">>, <<pc, "r">>>>} : pc \in AtEnd(sh, c, PutEnd)} :
                    cc \in AtEnd(sh, c, GetEnd)} :
            c \in {c \in DOMAIN sh.chans : sh.chans[c].depth = 0}}
KidEdges(sh, deps) == UNION {{<<<<<<k, d[2][1]>>, d[2][2]>>, <<<<k, d[1][1]>>, d[1][2]>>>> : d \in deps[k]} : k \in DOMAIN sh.kids}
CombCycle(sh, deps) == Cyclic(KidEdges(sh, deps) \cup Wires(sh))
ValidOnReady(deps) == \E k \in DOMAIN deps : \E d \in deps[k] : d[1][2] = "v" /\ d[2][2] = "r"
Loopback(sh) ==
    \E c \in DOMAIN sh.chans : sh.chans[c].depth = 0 /\
        \E p \in AtEnd(sh, c, PutEnd), q \in AtEnd(sh, c, GetEnd) : p[1] = q[1]
KidDeps(all, mods, sh) == [k \in DOMAIN sh.kids |-> Deps(all, mods, sh.kids[k])]
\* The rules that stop the flow, over a shell and those under it.
Findings(all, mods, sh) ==
    UNION {LET deps == KidDeps(all, mods, s[2])
           IN  {r \in {"comb_cycle", "valid_on_ready", "loopback"} :
                    \/ r = "comb_cycle" /\ CombCycle(s[2], deps)
                    \/ r = "valid_on_ready" /\ ValidOnReady(deps)
                    \/ r = "loopback" /\ Loopback(s[2])} : s \in Shells(sh, <<>>)}
================================================================================
