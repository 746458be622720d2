-------------------------------- MODULE RegCore -------------------------------
(***************************************************************************)
(* A register block as its constructor builds it (fw_reg_block), the       *)
(* register map the generators work from (regmap.py) with the two ways to  *)
(* it, and the core of FwReg that is made from the map.                    *)
(*                                                                         *)
(* What a block's constructor does is a sequence of items                  *)
(*                                                                         *)
(*   reg n off fields reset sw hw rclr pulse acc     a register            *)
(*   blk n off step count prog                       an array of blocks    *)
(*                                                                         *)
(* where off is a byte offset or Auto, and element i of an array is at     *)
(* off + i * step.                                                         *)
(*                                                                         *)
(* The map: RegMapper (fe/reg_mapper.py) reads a block's constructor,      *)
(* native.py reads the objects the elaboration interpreter built.  A       *)
(* RegBlock is [n, regs, subs, size]; a Register [n, off, fields].         *)
(***************************************************************************)
EXTENDS FwReg

CONSTANT Auto       \* no offset given: the running cursor

\* The items one by one: the constructor's loops unrolled.
Unrolled(prog) ==
    FlattenSeq([i \in DOMAIN prog |->
        IF prog[i].k = "reg" THEN <<prog[i]>>
        ELSE [j \in 1 .. prog[i].count |->
                [k |-> "blk", n |-> prog[i].n, prog |-> prog[i].prog, ix |-> j - 1,
                 off |-> IF prog[i].off = Auto THEN Auto
                         ELSE prog[i].off + (j - 1) * prog[i].step]]])

RECURSIVE Construct(_), Lookup(_, _, _, _), Registers(_, _)

\* fw_reg_block::add and add_block, one item after the other.
Construct(prog) ==
    LET Place(b, it) ==
            LET off == IF it.off = Auto THEN b.next ELSE it.off
                sub == IF it.k = "blk" THEN Construct(it.prog) ELSE b
                end == off + (IF it.k = "blk" THEN sub.size ELSE Stride)
                At(map) == [o \in DOMAIN map \cup {off} |-> IF o = off THEN it ELSE map[o]]
            IN  [rd |-> IF it.k = "reg" /\ it.acc # "WO" THEN At(b.rd) ELSE b.rd,
                 wr |-> IF it.k = "reg" /\ it.acc # "RO" THEN At(b.wr) ELSE b.wr,
                 blocks |-> IF it.k = "reg" THEN b.blocks
                            ELSE [o \in DOMAIN b.blocks \cup {off} |->
                                    IF o = off THEN [n |-> it.n, ix |-> it.ix, blk |-> sub] ELSE b.blocks[o]],
                 next |-> end,
                 size |-> IF end > b.size THEN end ELSE b.size]
    IN  FoldLeft(Place, [rd |-> <<>>, wr |-> <<>>, blocks |-> <<>>, next |-> 0, size |-> 0],
                 Unrolled(prog))

\* lookup_rd / lookup_wr: the register a read or write at `a` reaches, by its
\* absolute offset and name ({} when none): registers first, then the first
\* nested block whose span holds the address.
Lookup(b, dir, a, base) ==
    LET map == IF dir = "rd" THEN b.rd ELSE b.wr
        in == {o \in DOMAIN b.blocks : a >= o /\ a < o + b.blocks[o].blk.size}
    IN  IF a \in DOMAIN map THEN {<<base + a, map[a].n>>}
        ELSE IF in = {} THEN {}
        ELSE LET o == Min(in) IN Lookup(b.blocks[o].blk, dir, a - o, base + o)

\* Every register, by absolute offset and name.
Registers(b, base) ==
    LET own == {<<o, b.rd[o]>> : o \in DOMAIN b.rd} \cup {<<o, b.wr[o]>> : o \in DOMAIN b.wr}
    IN  {[id |-> <<base + x[1], x[2].n>>, decl |-> x[2]] : x \in own}
        \cup UNION {Registers(b.blocks[o].blk, base + o) : o \in DOMAIN b.blocks}

\* The registers a handle `arr[ix].reg` is (arr = None: `reg`, of b itself).
Refers(b, ref, none) ==
    {r.id : r \in {x \in Registers(b, 0) :
        /\ x.decl.n = ref.reg
        /\ IF ref.idx = none THEN x.id[1] \in DOMAIN b.rd \cup DOMAIN b.wr
           ELSE \E o \in DOMAIN b.blocks :
                    /\ b.blocks[o].n = ref.arr /\ b.blocks[o].ix = ref.idx
                    /\ x.id[1] >= o /\ x.id[1] < o + b.blocks[o].blk.size}}

-----------------------------------------------------------------------------
(* The register map. *)

Register(d, off) == [n |-> d.n, off |-> off, fields |-> FieldTable(d)]

RECURSIVE MapperBuild(_, _), NativeBlock(_, _), FlatRegisters(_, _, _)

\* RegMapper.build: the registers in add() order, then the sub-blocks.
MapperBuild(n, prog) ==
    LET items == Unrolled(prog)
        Off(it, s) == IF it.off = Auto THEN s.cursor ELSE it.off
        Reg(s, it) ==
            LET o == Off(it, s)
            IN  [s EXCEPT !.regs = Append(@, Register(it, o)), !.cursor = o + Stride,
                          !.size = Max({@, o + Stride})]
        Sub(s, it) ==
            LET o == Off(it, s)
                b == MapperBuild(it.n, it.prog)
            IN  [s EXCEPT !.subs = Append(@, <<o, b>>), !.cursor = o + b.size,
                          !.size = Max({@, o + b.size})]
        regs == FoldLeft(Reg, [n |-> n, regs |-> <<>>, subs |-> <<>>, cursor |-> 0, size |-> 0],
                         SelectSeq(items, LAMBDA it : it.k = "reg"))
    IN  FoldLeft(Sub, regs, SelectSeq(items, LAMBDA it : it.k = "blk"))

\* native._block: the objects of both decode maps, by offset.
NativeBlock(n, b) ==
    LET objs == {<<o, b.rd[o]>> : o \in DOMAIN b.rd} \cup {<<o, b.wr[o]>> : o \in DOMAIN b.wr}
        \* the readable one of a pair is met first
        Before(x, y) ==
            \/ x[1] < y[1]
            \/ /\ x[1] = y[1] /\ x # y
               /\ x[1] \in DOMAIN b.rd
               /\ b.rd[x[1]] = x[2]
        sorted == SetToSortSeq(objs, Before)
        bases == SetToSortSeq(DOMAIN b.blocks, <)
    IN  [n |-> n,
         regs |-> [i \in DOMAIN sorted |-> Register(sorted[i][2], sorted[i][1])],
         subs |-> [i \in DOMAIN bases |->
                     <<bases[i], NativeBlock(b.blocks[bases[i]].n, b.blocks[bases[i]].blk)>>],
         size |-> b.size]

\* RegBlock.flat_registers: [off, q, reg], q the qualified name.
FlatRegisters(blk, base, prefix) ==
    [i \in DOMAIN blk.regs |->
        [off |-> base + blk.regs[i].off, q |-> Append(prefix, blk.regs[i].n), reg |-> blk.regs[i]]]
    \o FlattenSeq([i \in DOMAIN blk.subs |->
            FlatRegisters(blk.subs[i][2], base + blk.subs[i][1], prefix \o <<blk.subs[i][2].n, i>>)])

------------------------------------------------------------------------------
(* The core.                                                               *)

RECURSIVE Clog2(_)
Clog2(n) == IF n <= 1 THEN 0 ELSE 1 + Clog2((n + 1) \div 2)

NoUsage == [sets |-> <<>>, observers |-> {}, providers |-> {}]

\* emit_regblock, up to the decode (_Decode).
Core(blk, usage) ==
    LET flat == FlatRegisters(blk, 0, <<>>)
        order == SetToSortSeq(DOMAIN flat, LAMBDA i, j : flat[i].off < flat[j].off \/ (flat[i].off = flat[j].off /\ i < j))
        regs == [i \in DOMAIN order |-> flat[order[i]]]
    IN  [flat |-> flat, regs |-> regs,
         aligned |-> \A i \in DOMAIN regs : regs[i].off = (i - 1) * Stride,
         slots |-> 2^Max({Clog2(Len(regs)), 1}),
         span |-> 2^Max({Clog2(blk.size), 1}),
         sets |-> usage.sets, observers |-> usage.observers, providers |-> usage.providers]

\* The pulses of the watch-sets: a software write to a member.
ChangedSets(c, bus) == {n \in DOMAIN c.sets : Struck(c, bus, c.sets[n])}

------------------------------------------------------------------------------
(***************************************************************************)
(* Hardware that uses a register block: what reg_consumer.py and mmio.py   *)
(* read in its class, and how mmio_synth.py and emit/structural.py wire    *)
(* the FSMs made of it to one core.                                        *)
(*                                                                         *)
(* A consumer is [n, build, set, run].  `build` is a sequence of           *)
(*   [k : "add" | "set_rd" | "add_wr" | "for", set, ref, count, body]      *)
(* and `run` what follows its wait for watch-set `set` in the forever      *)
(* loop, statements                                                        *)
(*   if neg ref field t f        update ref v m                            *)
(* A reference [arr, reg, idx] names a register, in element idx of array   *)
(* arr (None: of the block itself; Var: the loop variable's).              *)
(***************************************************************************)
CONSTANTS None, Var

RECURSIVE Scan(_, _, _, _), Drives(_, _, _, _)

\* resolve_chain_offset: element idx is the block's sub-block number idx.
ChainOffset(ref, blk, i) ==
    LET n == IF ref.idx = Var THEN i ELSE ref.idx
        InBlock(b, base) == {base + b.regs[j].off : j \in {x \in DOMAIN b.regs : b.regs[x].n = ref.reg}}
    IN  IF ref.idx = None THEN InBlock(blk, 0)
        ELSE IF n + 1 \in DOMAIN blk.subs THEN InBlock(blk.subs[n + 1][2], blk.subs[n + 1][1])
        ELSE {}

\* _Analyzer._scan of statements s, loop variable i.
Scan(s, blk, i, usage) ==
    LET One(u, x) ==
            LET offs == IF x.k = "for" THEN {} ELSE ChainOffset(x.ref, blk, i)
            IN  CASE x.k = "for" -> FoldLeft(LAMBDA v, j : Scan(x.body, blk, j - 1, v), u,
                                             [j \in 1 .. x.count |-> j])
                  [] x.k = "add" -> [u EXCEPT !.sets =
                        [n \in DOMAIN @ \cup {x.set} |->
                            (IF n \in DOMAIN @ THEN @[n] ELSE {}) \cup (IF n = x.set THEN offs ELSE {})]]
                  [] x.k = "set_rd" -> [u EXCEPT !.providers = @ \cup offs]
                  [] x.k = "add_wr" -> [u EXCEPT !.observers = @ \cup offs]
    IN  FoldLeft(One, usage, s)
Usage(cons, blk) == Scan(cons.build, blk, 0, NoUsage)

\* Mutant: the watch-sets of two FSMs share their name's port.
SetName_Plain(all, blk, cons, n) == <<n>>
\* _assemble_union: a watch-set name that several FSMs use is qualified by FSM.
SetName(all, blk, cons, n) ==
    IF Cardinality({i \in DOMAIN all : n \in DOMAIN Usage(all[i], blk).sets}) > 1
    THEN <<cons.n, n>> ELSE <<n>>
Union(all, blk) ==
    LET U(i) == Usage(all[i], blk)
        Named(i) == {[key |-> SetName(all, blk, all[i], n), offs |-> U(i).sets[n]] : n \in DOMAIN U(i).sets}
        sets == UNION {Named(i) : i \in DOMAIN all}
    IN  [sets |-> [n \in {x.key : x \in sets} |-> (CHOOSE x \in sets : x.key = n).offs],
         observers |-> UNION {U(i).observers : i \in DOMAIN all},
         providers |-> UNION {U(i).providers : i \in DOMAIN all}]

-----------------------------------------------------------------------------
(* An FSM's pins are named as the core's ports they connect to. *)

\* _root_block: by its own name, the first in flat order.
RegAt(c, ref) ==
    LET i == SelectInSeq(c.flat, LAMBDA r : r.reg.n = ref.reg)
    IN  SelectInSeq(c.regs, LAMBDA r : r = c.flat[i])
\* _update_drives: each hardware-writable field the mask touches, whole.
UpdateDrives(c, i, s) ==
    LET r == c.regs[i]
        touched == {f \in FieldsOf(r) : f.hw /\ f.bits \cap s.m # {}}
    IN  [sig \in {<<r.q, f.n>> : f \in touched} |->
            s.v \cap (CHOOSE f \in touched : <<r.q, f.n>> = sig).bits]

\* map_run_stmt: what the statements drive, given the core's readbacks.
Drives(c, fields, run, acc) ==
    LET One(d, s) ==
            IF s.k = "update" THEN UpdateDrives(c, RegAt(c, s.ref), s) @@ d
            ELSE LET bit == fields[<<c.regs[RegAt(c, s.ref)].q, s.field>>] # {}
                 IN  Drives(c, fields, IF bit # s.neg THEN s.t ELSE s.f, d)
    IN  FoldLeft(One, acc, run)

\* A body that reads a register samples it in the cycle after the change.
Reads(cons) == \E i \in DOMAIN cons.run : cons.run[i].k = "if"
=============================================================================
