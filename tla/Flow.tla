---------------------------------- MODULE Flow ---------------------------------
(***************************************************************************)
(* The flow from a top class and a knob file to RTL, as its tasks run      *)
(* (dfm_tasks.py): the knobs are resolved and written; Partition reads     *)
(* them back, reads the tree and binds the storage; the contracts are      *)
(* checked; every block gets its schedule; the latency is reported and the *)
(* contracts are checked again; and the modules are integrated and their   *)
(* boundaries checked.  A task that fails ends the flow.  Then the RTL     *)
(* runs: its first values go from block to block.                          *)
(***************************************************************************)
EXTENDS Latency

CONSTANTS
    Jobs,       \* [files, root, all, top, side]: knob files and which of them,
                \* the classes and which of them, and the sidecar files
    MaxStages   \* bound: stages of a block whose clock period is given alone

VARIABLES
    job,
    phase,      \* the next task: knobs, partition, contracts, codegen, integrate; then run, or rejected
    knobs,      \* the knobs as loaded
    shell,      \* the partition
    rows,       \* the storage report
    early,      \* the contracts that the first check refuses
    sched,      \* the schedules of the blocks generated so far
    report,     \* the latency report
    net,        \* the netlist
    found,      \* what the boundary checks find in it
    at          \* when the first value comes to a net
vars == <<job, phase, knobs, shell, rows, early, sched, report, net, found, at>>

Init ==
    /\ job \in Jobs
    /\ phase = "knobs"
    /\ knobs = NoKnobs
    /\ shell = None
    /\ rows = <<>>
    /\ early = {}
    /\ sched = <<>>
    /\ report = {}
    /\ net = None
    /\ found = {}
    /\ at = <<>>

Go(ok, next) == phase' = IF ok THEN next ELSE "rejected"

-----------------------------------------------------------------------------
(* The tasks. *)

KnobsResolve ==
    /\ phase = "knobs"
    /\ knobs' = Knobs(job.files, job.root)
    /\ Go(~knobs'.err, "partition")
    /\ UNCHANGED <<job, shell, rows, early, sched, report, net, found, at>>

\* What the other tasks have: the knobs that KnobsResolve wrote.
K == FromResolved(knobs)
\* The facts of the sidecar files, by class.
SideFacts ==
    LET files == ToSet(FactsFiles(K, job.files))
        classes == UNION {DOMAIN job.side[f] : f \in files}
    IN  [c \in classes |-> UNION {job.side[f][c] : f \in {f \in files : c \in DOMAIN job.side[f]}}]
LeafClasses(sh) == {x[2] : x \in Leaves(sh, <<>>)}
Times(pre) ==
    [pre |-> pre, k |-> K, all |-> job.all, sched |-> sched,
     facts |-> [c \in LeafClasses(shell) |-> Expanded(job.all[c], Declared(job.all, c, SideFacts))]]

PartitionTask ==
    /\ phase = "partition"
    /\ LET files == ToSet(FactsFiles(K, job.files))
           section == StorageSection(K, job.files)
           groups == [g \in DOMAIN Groups(K) |-> ToSet(Groups(K)[g])]
       IN  \* the order of the groups in the file is not modelled: any
           \E order \in SetToSeqs(DOMAIN groups) :
            LET part == Partition(job.all, job.top, order, groups, DOMAIN SideFacts)
                ok ==
                    /\ files \subseteq DOMAIN job.side
                    /\ part.ok
                    /\ \A c \in LeafClasses(part.shell) : FactsOk(job.all[c], Declared(job.all, c, SideFacts))
                    /\ PlanOk(job.all, part.shell, section)
            IN  /\ Go(ok, "contracts")
                /\ shell' = IF ok THEN Planned(job.all, section, part.shell, <<>>) ELSE None
                /\ rows' = IF ok THEN Report(job.all, part.shell, section) ELSE <<>>
    /\ UNCHANGED <<job, knobs, early, sched, report, net, found, at>>

CheckContracts ==
    /\ phase = "contracts"
    /\ early' = Precheck(Times(TRUE), shell)
    /\ Go(early' = {}, "codegen")
    /\ UNCHANGED <<job, knobs, shell, rows, sched, report, net, found, at>>

XlsClasses == {c \in LeafClasses(shell) : job.all[c].engine = "xls"}
Codegen(c) ==
    /\ phase = "codegen"
    /\ c \notin DOMAIN sched
    /\ LET can == Schedules(K, job.all, c, MaxStages)
       IN  \/ \E s \in can : sched' = (c :> s) @@ sched /\ UNCHANGED phase
           \/ can = {} /\ phase' = "rejected" /\ UNCHANGED sched
    /\ UNCHANGED <<job, knobs, shell, rows, early, report, net, found, at>>

ReportLatency ==
    /\ phase = "codegen"
    /\ DOMAIN sched = XlsClasses
    /\ report' = Paths(Times(FALSE), shell)
    /\ Go(Postcheck(Times(FALSE), report') = {}, "integrate")
    /\ UNCHANGED <<job, knobs, shell, rows, early, sched, net, found, at>>

TopIns == {p \in DOMAIN shell.ports : shell.ports[p].dir = "in"}
TopOuts == DOMAIN shell.ports \ TopIns
Pin(p) == <<<<p>>, "pin">>
IntegrateTask ==
    /\ phase = "integrate"
    /\ LET top == Integrate(job.all, shell)
       IN  /\ net' = IF top.ok THEN Netlist(top.mods, job.top) ELSE None
           /\ found' = IF top.ok THEN Findings(job.all, top.mods, shell) ELSE {}
           /\ Go(top.ok /\ found' = {}, "run")
    /\ at' = IF phase' = "run" THEN [n \in {Pin(p) : p \in TopIns} |-> 0] ELSE <<>>
    /\ UNCHANGED <<job, knobs, shell, rows, early, sched, report>>

-----------------------------------------------------------------------------
(* The first values, every input valid and every output ready: a block      *)
(* gives its first outputs once it has all its inputs.                      *)

PortNet(l, p) == (CHOOSE x \in net.pins : x[1] = l /\ x[2] = p)[3]
FifoAt(c) == CHOOSE f \in net.fifos : f[1] = c
\* The net that a value comes from, and the cycles of the FIFO between.
Before(n) == IF n[2] = "out" THEN <<n[1], "in">> ELSE n
Through(n) == IF n[2] = "out" /\ FifoAt(n[1])[3] > 0 THEN 1 ELSE 0
HasCome(n) == Before(n) \in DOMAIN at
Came(n) == at[Before(n)] + Through(n)

InGroup(l, p) ==
    \E s \in Shells(shell, <<>>) : \E g \in DOMAIN s[2].kids :
        LET group == s[2].kids[g].group
        IN  group # None /\ s[1] = Front(l) /\ Last(l) \in DOMAIN group.members /\ <<Last(l), p>> \notin group.external
PortReg(l, p) ==
    IF InGroup(l, p) THEN 0 ELSE ChanReg(K, job.all, LeafClass(shell)[l], p)
\* What the block takes from an input to an output: by its schedule, or any
\* number of cycles that is declared of it.
Takes(l, in, out) ==
    LET c == LeafClass(shell)[l]
        class == job.all[c]
        facts == {f \in Times(FALSE).facts[c] : f.src = in /\ f.dst = out}
    IN  IF class.engine = "xls" THEN {PortReg(l, in) + sched[c][out] - sched[c][in] + PortReg(l, out)}
        ELSE IF facts # {} THEN UNION {f.range.lo .. (IF f.range.hi = None THEN f.range.lo + 1 ELSE f.range.hi) : f \in facts}
        ELSE IF class.latency = None THEN {} ELSE {class.latency}

Fire(l) ==
    LET class == job.all[LeafClass(shell)[l]]
        outs == Outputs(class)
        ins == DOMAIN class.ports \ outs
    IN  /\ outs # {} /\ \A p \in DOMAIN class.ports : class.ports[p].kind # "level"
        /\ \A i \in ins : HasCome(PortNet(l, i))
        /\ \A o \in outs : PortNet(l, o) \notin DOMAIN at
        /\ \E took \in [ins \X outs -> UNION {Takes(l, i, o) : i \in ins, o \in outs}] :
            /\ \A i \in ins, o \in outs : took[i, o] \in Takes(l, i, o)
            /\ at' = [n \in {PortNet(l, o) : o \in outs} |->
                        LET o == CHOOSE o \in outs : PortNet(l, o) = n
                        IN  MaxOf({Came(PortNet(l, i)) + took[i, o] : i \in ins})] @@ at
FireTask ==
    /\ phase = "run"
    /\ \E l \in DOMAIN LeafClass(shell) : Fire(l)
    /\ UNCHANGED <<job, phase, knobs, shell, rows, early, sched, report, net, found>>

Next ==
    \/ KnobsResolve
    \/ PartitionTask
    \/ CheckContracts
    \/ phase = "codegen" /\ \E c \in XlsClasses : Codegen(c)
    \/ ReportLatency
    \/ IntegrateTask
    \/ FireTask
Spec == Init /\ [][Next]_vars

-----------------------------------------------------------------------------
(* Properties. *)

\* The files of a base: chain in the order their values apply: a file's bases
\* first, each with its own.
RECURSIVE LoadOrder(_, _)
LoadOrder(all, f) ==
    FoldLeft(LAMBDA s, b : s \o LoadOrder(all, b), <<>>, all[f].base) \o <<f>>
\* Every resolved value is that of the last file that gives it, and is known
\* to come from that file (knobs.py:5-8's "later wins", and "remembers the
\* file"): a file that several bases share counts at its last place.
KnobsHold ==
    phase \notin {"knobs", "rejected"} =>
        LET order == LoadOrder(job.files, job.root)
            last(p) == order[SelectLastInSeq(order, LAMBDA f : p \in DOMAIN job.files[f].vals)]
        IN  /\ DOMAIN knobs.vals = UNION {DOMAIN job.files[f].vals : f \in ToSet(order)}
            /\ \A p \in DOMAIN knobs.vals :
                knobs.vals[p] = job.files[last(p)].vals[p] /\ knobs.from[p] = last(p)

\* The pins of the tree's leaves and the nets they are on, from the connect()
\* calls alone.
RECURSIVE TreePins(_, _, _)
TreePins(c, path, outer) ==
    LET class == job.all[c]
        To(q) == (CHOOSE x \in ToSet(class.calls) : x.port = q /\ x.to # None).to
        NetAt(to) ==
            IF to[2] = None THEN outer[to[1]]
            ELSE <<Append(path, to[1]),
                   IF class.chans[to[1]].kind = "level" THEN "wire"
                   ELSE IF to[2] \in {"put_ex", "put_step_ex"} THEN "in" ELSE "out">>
    IN  UNION {LET sub == class.kids[k]
                   nets == [p \in DOMAIN job.all[sub].ports |-> NetAt(To(<<k, p>>))]
               IN  IF Structural(job.all[sub]) THEN TreePins(sub, Append(path, k), nets)
                   ELSE {<<Append(path, k), p, nets[p]>> : p \in DOMAIN nets} : k \in DOMAIN class.kids}
\* Is the shell that holds a channel or a memory of a class built again elsewhere?
Shared(p) ==
    \E s, r \in Shells(shell, <<>>) :
        s[1] = (IF p \in Mems(job.all, shell) THEN Front(Front(p)) ELSE Front(p)) /\ r[1] # s[1] /\ r[2].module = s[2].module
\* The netlist connects the leaves as the calls connect the tree, through
\* groups and structural children; no net has two drivers or two readers; and
\* every channel holds its values in the FIFO that the storage report and its own
\* entry say, where its class is built once.
BuiltAsWritten ==
    (net # None) =>
        /\ net.pins = TreePins(job.top, <<>>, [p \in TopIns \cup TopOuts |-> Pin(p)])
        /\ \A x, y \in net.pins : x[3] = y[3] /\ x # y =>
            /\ x[3][2] = "wire"
            /\ job.all[LeafClass(shell)[x[1]]].ports[x[2]].dir # job.all[LeafClass(shell)[y[1]]].ports[y[2]].dir
        /\ \A p \in DOMAIN rows : ~Shared(p) => \E f \in net.fifos :
            /\ f[1] = p /\ f[2] = rows[p]
            /\ <<"storage", p, "bind">> \in DOMAIN knobs.vals /\ p \notin Mems(job.all, shell) =>
                f[2].bind = knobs.vals[<<"storage", p, "bind">>]

\* storage.py:38: "A knob key is the instance path below the top".
BindingsHeld ==
    (net # None) => \A p \in DOMAIN rows : \E f \in net.fifos : f[1] = p /\ f[2] = rows[p]

\* The nets of the channels inside a group.
InnerNets ==
    UNION {UNION {{<<Append(s[1], c), side>> : c \in DOMAIN s[2].kids[g].group.internal, side \in {"in", "out"}} :
                    g \in {g \in DOMAIN s[2].kids : s[2].kids[g].group # None}} : s \in Shells(shell, <<>>)}
\* The boundary checks, shell by shell (boundary.py:161-179), find a
\* combinational loop just when the whole netlist has one that leaves an
\* island: that runs over a net outside every group, at whatever level of the
\* hierarchy, and through groups and components or not.  islands.md:9-13:
\* "Inside an island, components may talk combinationally", and "no
\* combinational loop can cross islands".  Nobody looks for one that runs
\* inside a group only.
LoopsFound ==
    (net # None) =>
        LET edges == FlatEdges(job.all, net, LeafClass(shell))
        IN  "comb_cycle" \in found <=> \E e \in edges : e[1][1] \notin InnerNets /\ e[1] \in Reach(edges, {e[2]})

\* The report of an output holds (latency.py: "First-value latency in cycles,
\* every input valid and every output ready"): its first value comes within
\* the range of the longest path to it.
FirstValue ==
    phase = "run" =>
        \A p \in TopOuts : Pin(p) \in DOMAIN at =>
            LET paths == {h \in report : h.dst = p}
            IN  /\ paths # {}
                /\ MaxOf({h.lo : h \in paths}) <= at[Pin(p)]
                /\ \/ \E h \in paths : h.hi = None
                   \/ at[Pin(p)] <= MaxOf({h.hi : h \in paths})

\* A design of XLS blocks only, none in a group.
Plain ==
    \A k \in DOMAIN shell.kids :
        LET kid == shell.kids[k]
        IN  kid.engine = "xls" /\ kid.group = None /\ Times(FALSE).facts[kid.class] = {}
\* All schedules of a plain design that the knobs allow without the contracts.
NoContracts == [K EXCEPT !.vals = [p \in {p \in DOMAIN @ : p[1] # "contracts"} |-> @[p]]]
AllSchedules ==
    LET of == [c \in XlsClasses |-> Schedules(NoContracts, job.all, c, MaxStages)]
    IN  {s \in [XlsClasses -> UNION {of[c] : c \in XlsClasses}] : \A c \in XlsClasses : s[c] \in of[c]}
Breaks(s, key) ==
    LET t == [Times(FALSE) EXCEPT !.sched = s]
        spec == Bounds(Contract(K, key))
    IN  IF BlockKey(K, key)
        THEN LET n == BlockLatency(K, job.all, key[1][1], s[key[1][1]], key[1][2], key[2][2]) IN ~Meets(spec, n, n)
        ELSE \A h \in OfKey(Paths(t, shell), key) : ~Meets(spec, h.lo, h.lo)
\* A contract that the first check refuses is one that no schedule of the
\* design meets; and in a design that passes both checks, the first value of
\* an output comes as the contract on its only input asks.
ContractsHold ==
    /\ phase = "rejected" /\ early # {} /\ Plain => \A key \in early : \A s \in AllSchedules : Breaks(s, key)
    /\ phase = "run" /\ Cardinality(TopIns) = 1 /\ (\A h \in report : h.lo = h.hi) =>
        \A key \in Contracts(K) : \A p \in TopOuts :
            key = <<<<CHOOSE i \in TopIns : TRUE>>, <<p>>>> /\ Pin(p) \in DOMAIN at =>
                Meets(Bounds(Contract(K, key)), at[Pin(p)], at[Pin(p)])
================================================================================
