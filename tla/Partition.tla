------------------------------- MODULE Partition ------------------------------
(***************************************************************************)
(* The component tree that a top class builds (fe/elab/hier.py, which runs *)
(* build() and connect(), and fe/structure.py), and the partition of it    *)
(* that the flow compiles (spl_flow.py): a shell, whose children are leaf  *)
(* blocks or have shells of their own, with the groups of a knob file      *)
(* applied, and what holds the values of each channel and memory           *)
(* (storage.py), by the knobs' storage: section.                           *)
(*                                                                         *)
(* A class is [ports, order, kids, chans, calls, ...]: each port's         *)
(* direction and kind; the children in the order they are built, and their *)
(* classes; each channel's kind and depth; and the connect() calls, each   *)
(* of a port [port, to].  A port or provider is <<child, port>>, <<channel, *)
(* end>> or <<own port, None>>.  A leaf has no children.  A storage entry   *)
(* is the fields the section gives of [bind, module, macro, latency]; a    *)
(* binding is the module that is built.                                    *)
(***************************************************************************)
EXTENDS Knobs

Structural(class) == class.order # <<>>

-----------------------------------------------------------------------------
(* connect(): a class's binds (hier.py). *)

\* fw_put_step_if is the same put end.
EndOf(to) == IF to[2] = "put_step_ex" THEN <<to[1], "put_ex">> ELSE to
Own(class, to) == to[1] \in DOMAIN class.ports /\ to[2] = None
Ends(class) == {<<c, e>> : c \in DOMAIN class.chans, e \in {"put_ex", "put_step_ex", "get_ex", "get_nb_ex"}}
ChildPorts(all, class) ==
    UNION {{<<k, p>> : p \in DOMAIN all[class.kids[k]].ports} : k \in DOMAIN class.kids}
\* The calls that count: those on a child's port, with a provider.
Calls(all, class) ==
    SelectSeq(class.calls, LAMBDA x : x.port \in ChildPorts(all, class) /\ x.to # None)
\* Everything the calls connect, in order: a port or an end may come once.
Used(all, class) ==
    [i \in DOMAIN Calls(all, class) |-> Calls(all, class)[i].port]
        \o [i \in DOMAIN Calls(all, class) |-> EndOf(Calls(all, class)[i].to)]
Connected(all, class) ==
    LET calls == Calls(all, class)
        used == Used(all, class)
    IN  /\ \A i \in DOMAIN calls : calls[i].to \in Ends(class) \/ Own(class, calls[i].to)
        /\ IsInjective(used)
        /\ ChildPorts(all, class) \subseteq ToSet(used)
        /\ \A p \in DOMAIN class.ports : <<p, None>> \in ToSet(used)
        /\ \A c \in DOMAIN class.chans :
            /\ <<c, "put_ex">> \in ToSet(used)
            /\ Cardinality({<<c, "get_ex">>, <<c, "get_nb_ex">>} \cap ToSet(used)) = 1
Binds(all, class) ==
    LET calls == Calls(all, class)
    IN  [p \in {x.port : x \in ToSet(calls)} |-> EndOf((CHOOSE x \in ToSet(calls) : x.port = p).to)]

-----------------------------------------------------------------------------
(* The partition (spl_flow.py). *)

\* What a child of a shell is; storage.plan writes the bindings of its
\* memories later, and of the shell's channels.
Kid(class, engine, shell, group) ==
    [class |-> class, engine |-> engine, shell |-> shell, group |-> group, mems |-> <<>>]

\* _shell: of a class, with every structural child's own.
RECURSIVE ShellOf(_, _)
ShellOf(all, c) ==
    LET class == all[c]
    IN  [module |-> c, ports |-> class.ports, order |-> class.order,
         chans |-> [n \in DOMAIN class.chans |-> [storage |-> None] @@ class.chans[n]],
         binds |-> Binds(all, class),
         kids |-> [k \in DOMAIN class.kids |->
                    LET sub == class.kids[k]
                    IN  IF Structural(all[sub]) THEN Kid(sub, "structural", ShellOf(all, sub), None)
                        ELSE Kid(sub, all[sub].engine, None, None)]]

\* walk: a shell and those under it, by instance path.
RECURSIVE Shells(_, _)
Shells(sh, path) ==
    {<<path, sh>>} \cup
    UNION {Shells(sh.kids[k].shell, Append(path, k)) : k \in {k \in DOMAIN sh.kids : sh.kids[k].engine = "structural"}}

Members(sh, classes) ==
    {k \in DOMAIN sh.kids : sh.kids[k].engine = "xls" /\ sh.kids[k].group = None /\ sh.kids[k].class \in classes}
\* What is bound to each end of a channel.
AtEnd(sh, c, end) == {p \in DOMAIN sh.binds : sh.binds[p][1] = c /\ sh.binds[p][2] \in end}
PutEnd == {"put_ex"}
GetEnd == {"get_ex", "get_nb_ex"}
Inside(sh, members) ==
    {c \in DOMAIN sh.chans :
        /\ \E p \in AtEnd(sh, c, PutEnd) : p[1] \in members
        /\ \E p \in AtEnd(sh, c, GetEnd) : p[1] \in members}
\* _apply_groups, for one group: its members become one child, whose ports are
\* named by member and port.
GroupEntry(sh, members) ==
    LET inside == Inside(sh, members)
    IN  [members  |-> [m \in members |-> sh.kids[m].class],
         internal |-> [c \in inside |->
                        [a |-> CHOOSE p \in AtEnd(sh, c, PutEnd) : TRUE,
                         b |-> CHOOSE p \in AtEnd(sh, c, GetEnd) : TRUE] @@ sh.chans[c]],
         external |-> {p \in DOMAIN sh.binds : p[1] \in members /\ sh.binds[p][1] \notin inside}]
\* _apply_groups, for one group: its members become one child.
Grouped(sh, g, classes) ==
    LET members == Members(sh, classes)
        e == GroupEntry(sh, members)
    IN  [sh EXCEPT
            !.order = LET at == SelectInSeq(@, LAMBDA k : k \in members)
                          rest == SelectSeq(@, LAMBDA k : k \notin members)
                      IN  InsertAt(rest, IF at > Len(rest) THEN Len(rest) + 1 ELSE at, g),
            !.kids = (g :> Kid(g, "xls", None, e)) @@ [k \in DOMAIN @ \ members |-> @[k]],
            !.chans = [c \in DOMAIN @ \ DOMAIN e.internal |-> @[c]],
            !.binds = [p \in {<<g, x>> : x \in e.external} |-> @[p[2]]]
                        @@ [p \in {p \in DOMAIN @ : p[1] \notin members} |-> @[p]]]

\* A group is the children of one shell, and carries streams.
GroupOk(sh, g, classes) ==
    /\ g \notin DOMAIN sh.kids \cup DOMAIN sh.chans
    /\ \A c \in Inside(sh, Members(sh, classes)) : sh.chans[c].kind = "rv"
\* _apply_groups: the groups in their order, each on the shell as those before
\* left it; done, the groups that found members in it.
ApplyGroups(sh, order, groups) ==
    LET Apply(s, g) ==
            IF ~s.ok \/ Members(s.sh, groups[g]) = {} THEN s
            ELSE IF ~GroupOk(s.sh, g, groups[g]) THEN [s EXCEPT !.ok = FALSE]
            ELSE [s EXCEPT !.sh = Grouped(@, g, groups[g]), !.done = @ \cup {g}]
    IN  FoldLeft(Apply, [ok |-> TRUE, sh |-> sh, done |-> {}], order)
\* Groups are applied to every shell, and each must find its members in one of
\* them.  walk gives copies of the shells of structural children: what is done
\* to a copy is lost, and only the shell of the top stays rewritten.
WithGroups(sh, order, groups) ==
    LET applied == {ApplyGroups(s[2], order, groups) : s \in Shells(sh, <<>>)}
        Homes(g) == {s \in Shells(sh, <<>>) : g \in ApplyGroups(s[2], order, groups).done}
    IN  [ok    |-> /\ \A a \in applied : a.ok
                   /\ \A g \in DOMAIN groups : Cardinality(Homes(g)) = 1,
         shell |-> ApplyGroups(sh, order, groups).sh]

\* _check_step_wires, of one class.
StepWires(all, class) ==
    \E x \in ToSet(Calls(all, class)) :
        LET kid == all[class.kids[x.port[1]]]
        IN  /\ x.to[1] \in DOMAIN class.chans /\ x.to[2] # None
            /\ class.chans[x.to[1]].depth = 0
            /\ kid.engine = "xls" /\ kid.step

Classes(all, top) == {s[2].module : s \in Shells(ShellOf(all, top), <<>>)}
LeafKids(sh) == UNION {{s[2].kids[k] : k \in {k \in DOMAIN s[2].kids : s[2].kids[k].engine # "structural"}} : s \in Shells(sh, <<>>)}
\* partition, with the groups in the order the knobs give them: [ok, shell]
Partition(all, top, order, groups, facts) ==
    LET structural == Classes(all, top)
        sh == ShellOf(all, top)
    IN  IF /\ \A c \in structural : Connected(all, all[c]) /\ ~StepWires(all, all[c])
           /\ facts \subseteq {k.class : k \in LeafKids(sh)}
        THEN WithGroups(sh, order, groups)
        ELSE [ok |-> FALSE, shell |-> sh]

-----------------------------------------------------------------------------
(* Storage (storage.py). *)

\* A field of an entry, or what the code takes without it.
Field(b, f, default) == IF f \in DOMAIN b THEN b[f] ELSE default
Bind(b) == Field(b, "bind", "flops")
OneCycle(b) == Field(b, "latency", 1) = 1

MinSramDepth == 3
Allowed(kind) == CASE kind = "rv" -> {"flops", "wrapper", "xls_fifo", "sram"}
                   [] kind = "valid" -> {"flops", "wrapper", "sram"}
                   [] OTHER -> {}
Holds(chan) == chan.kind # "level" /\ chan.depth > 0

\* _check: can this channel be bound so?
Buildable(b, chan, grouped) ==
    /\ Bind(b) \in Allowed(chan.kind)
    /\ Bind(b) = "wrapper" => Field(b, "module", None) # None
    /\ Bind(b) = "xls_fifo" => grouped
    /\ Bind(b) = "sram" => ~grouped /\ chan.depth >= MinSramDepth /\ OneCycle(b)
MemBuildable(b) ==
    /\ Bind(b) \in {"flops", "sram", "wrapper"}
    /\ Bind(b) = "wrapper" => Field(b, "module", None) # None
    /\ OneCycle(b)

\* What plan writes: the FIFO, and the RAM beside it.
Binding(b) ==
    [bind |-> Bind(b),
     module |-> CASE Bind(b) = "wrapper" -> b.module
                  [] Bind(b) = "sram" -> Field(b, "macro", "fw_ram_1r1w_model")
                  [] OTHER -> None]
\* _mem_storage
MemBinding(b) ==
    CASE Bind(b) = "wrapper" -> b.module
      [] Bind(b) = "sram" -> Field(b, "macro", "fw_ram_1rw_model")
      [] OTHER -> "fw_ram_1rw_model"

-----------------------------------------------------------------------------
(* _channels, _holders and _mems: by path below the top. *)

Channels(sh) ==
    UNION {[path : {Append(s[1], c) : c \in DOMAIN s[2].chans}, group : {None}] : s \in Shells(sh, <<>>)}
    \cup UNION {UNION {[path : {Append(s[1], c) : c \in DOMAIN s[2].kids[k].group.internal}, group : {k}] :
                    k \in {k \in DOMAIN s[2].kids : s[2].kids[k].group # None}} : s \in Shells(sh, <<>>)}
ShellAt(sh, path) == (CHOOSE s \in Shells(sh, <<>>) : s[1] = path)[2]
ChanAt(sh, x) ==
    LET s == ShellAt(sh, Front(x.path))
    IN  IF x.group = None THEN s.chans[Last(x.path)] ELSE s.kids[x.group].group.internal[Last(x.path)]
Holders(sh) ==
    UNION {{[path |-> Append(s[1], k), class |-> s[2].kids[k].class] :
                k \in {k \in DOMAIN s[2].kids : s[2].kids[k].engine # "structural" /\ s[2].kids[k].group = None}} :
           s \in Shells(sh, <<>>)}
Mems(all, sh) ==
    UNION {{Append(h.path, m) : m \in all[h.class].mems} : h \in Holders(sh)}

\* The entry for a path: its own over the default's, field by field.
\* Mutant: the default's fields win.
Entry_DefaultWins(section, path) ==
    LET default == IF <<"default">> \in DOMAIN section THEN section[<<"default">>] ELSE [bind |-> "flops"]
    IN  default @@ (IF path \in DOMAIN section THEN section[path] ELSE <<>>)
Entry(section, path) ==
    LET default == IF <<"default">> \in DOMAIN section THEN section[<<"default">>] ELSE [bind |-> "flops"]
    IN  (IF path \in DOMAIN section THEN section[path] ELSE <<>>) @@ default

\* Does every key name something that can hold values?
KeysOk(all, sh, section) ==
    \A key \in DOMAIN section \ {<<"default">>} :
        \/ key \in Mems(all, sh)
        \/ \E x \in Channels(sh) : x.path = key /\ Holds(ChanAt(sh, x))
        \/ \E h \in Holders(sh) : h.path = key /\ all[h.class].table /\ Bind(section[key]) = "flops"

-----------------------------------------------------------------------------
(* plan *)

\* The form of a group's FIFOs: one for all its channels.
GroupForm(binding) == IF binding.bind = "wrapper" THEN <<binding.bind, binding.module>> ELSE <<binding.bind>>
GroupForms(section, sh, path, k) ==
    {GroupForm(Binding(Entry(section, Append(path, c)))) :
        c \in {c \in DOMAIN sh.kids[k].group.internal : Holds(sh.kids[k].group.internal[c])}}
PlanOk(all, sh, section) ==
    /\ KeysOk(all, sh, section)
    /\ \A x \in Channels(sh) :
        Holds(ChanAt(sh, x)) => Buildable(Entry(section, x.path), ChanAt(sh, x), x.group # None)
    /\ \A s \in Shells(sh, <<>>) : \A k \in DOMAIN s[2].kids :
        s[2].kids[k].group # None => Cardinality(GroupForms(section, s[2], s[1], k)) <= 1
    /\ \A m \in Mems(all, sh) : MemBuildable(Entry(section, m))

\* The bindings, written on the shell and on every one under it.
Bound(section, path, chans) ==
    [c \in DOMAIN chans |->
        [chans[c] EXCEPT !.storage =
            IF Holds(chans[c]) THEN Binding(Entry(section, Append(path, c))) ELSE None]]
RECURSIVE Planned(_, _, _, _)
Planned(all, section, sh, path) ==
    LET With(k, kid) ==
            CASE kid.engine = "structural" -> [kid EXCEPT !.shell = Planned(all, section, @, Append(path, k))]
              [] kid.group # None -> [kid EXCEPT !.group.internal = Bound(section, path, @)]
              [] OTHER -> [kid EXCEPT !.mems =
                    [m \in all[kid.class].mems |-> MemBinding(Entry(section, path \o <<k, m>>))]]
    IN  [sh EXCEPT !.chans = Bound(section, path, @),
                   !.kids = [k \in DOMAIN @ |-> With(k, @[k])]]

\* The report: a row for each channel that holds values, and each memory.
Report(all, sh, section) ==
    [p \in {x.path : x \in {x \in Channels(sh) : Holds(ChanAt(sh, x))}} |-> Binding(Entry(section, p))]
        @@ [m \in Mems(all, sh) |-> MemBinding(Entry(section, m))]

\* group_flags: the FIFO that codegen builds for every channel of a group.
GroupFifo(entry) ==
    LET bound == {c \in DOMAIN entry.internal : entry.internal[c].storage # None}
        s == entry.internal[CHOOSE c \in bound : TRUE].storage
    IN  IF bound = {} \/ s.bind = "sram" THEN [bind |-> "flops", module |-> None] ELSE s
================================================================================
