--------------------------------- MODULE FwReg ---------------------------------
(***************************************************************************)
(* Registers, as the class library's objects (fw_reg_base) and as the      *)
(* flops of the register-block core that emit/regblock.py generates, under *)
(* the same bus accesses and hardware updates, one clock cycle at a time.  *)
(*                                                                         *)
(* A word is the set of its bits that are 1, so a mask is a set of bits    *)
(* too.  A declaration is [n, fields, reset, sw, hw, rclr, pulse, acc],    *)
(* where `fields` lays the word out in [n, bits].  A register has the id   *)
(* <<offset, name>>.                                                       *)
(*                                                                         *)
(* A core is [flat, regs, aligned, slots, span, sets, observers,           *)
(* providers]: the registers [off, q, reg], by offset; how its decode      *)
(* selects one; and what its consumers need (RegUsage).  Its state is the  *)
(* flops: a function of <<q, field>>.  A field of the register map is [n,  *)
(* bits, sw, hw, rclr, reset]: what a mask says of any of a field's bits,  *)
(* it says of the field.  A bus cycle is [k, a, d], k "wr", "rd" or "idle". *)
(***************************************************************************)
EXTENDS Integers, Sequences, FiniteSets, SequencesExt, FiniteSetsExt

CONSTANT Stride     \* bytes of a word (W / 8)

VARIABLES
    core,       \* the generated core
    decls,      \* what each register was declared as, by id
    val,        \* class values, by id
    flops,      \* the core's fields
    seen        \* what the last cycle showed: on the class's side, on the RTL's
bank == <<core, decls, val, flops, seen>>

Cover(fields) == UNION {fields[i].bits : i \in DOMAIN fields}

-----------------------------------------------------------------------------
(* The class side: a register's value v under its declaration d. *)

\* write_val: what the observers see, and what is stored.
Written(d, v, w) == (v \ d.sw) \cup (w \cap d.sw)
AfterWrite(d, v, w) == Written(d, v, w) \ d.pulse
\* sw_read: the read-to-clear side effect.
AfterRead(d, v) == v \ d.rclr
\* update_val, through mask m.
AfterUpdate(d, v, w, m) == LET eff == d.hw \cap m IN (v \ eff) \cup (w \cap eff)
\* read_val: a provider's on_read supplies the bits hardware owns, from its
\* state `live`, and leaves the others as stored.
OnRead(d, stored, live) == (stored \ d.hw) \cup (live \cap d.hw)

\* The accesses that reach a register: sw_readable, sw_writable.
Access(d) == CASE d.acc = "RO" -> {"rd"} [] d.acc = "WO" -> {"wr"} [] OTHER -> {"rd", "wr"}
Decoded(bus) == {id \in DOMAIN decls : id[1] = bus.a /\ bus.k \in Access(decls[id])}

\* The values after a bus access to the registers `at`, and after hardware's
\* updates: `ups` gives [v, m] for the registers that are updated.
AfterBus(v, at, bus) ==
    [id \in DOMAIN v |->
        IF id \notin at THEN v[id]
        ELSE IF bus.k = "wr" THEN AfterWrite(decls[id], v[id], bus.d)
        ELSE AfterRead(decls[id], v[id])]
AfterHw(v, ups) ==
    [id \in DOMAIN v |->
        IF id \in DOMAIN ups THEN AfterUpdate(decls[id], v[id], ups[id].v, ups[id].m) ELSE v[id]]

\* What an access shows: the word read from a register, by its provider if it is
\* among `rds`; and which registers' observers hear of a write (`wrs` have one).
ReadVal(rds, id, v, live) == IF id \in rds THEN OnRead(decls[id], v[id], live) ELSE v[id]
Nothing == [data |-> {}, observed |-> {}]
ClassShows(bus, at, rds, wrs, live) ==
    [data |-> IF bus.k = "rd" THEN UNION {ReadVal(rds, id, val, live) : id \in at} ELSE {},
     observed |-> IF bus.k = "wr" THEN {id[1] : id \in at \cap wrs} ELSE {}]

-----------------------------------------------------------------------------
(* The RTL side: the core. *)

\* _make_register, _register.
FieldTable(d) ==
    [i \in DOMAIN d.fields |->
        LET b == d.fields[i].bits
        IN  [n |-> d.fields[i].n, bits |-> b, sw |-> d.sw \cap b # {}, hw |-> d.hw \cap b # {},
             rclr |-> d.rclr \cap b # {}, reset |-> d.reset \cap b]]

\* sel_expr: an index sliced from the address, or a comparator.
Sel(c, i, a) ==
    IF c.aligned THEN (a \div Stride) % c.slots = i - 1 ELSE a = c.regs[i].off

RegId(c, i) == <<c.regs[i].off, c.regs[i].reg.n>>
Reserved(f) == ~f.sw /\ ~f.hw
HwOnly(f) == f.hw /\ ~f.sw
FieldsOf(r) == {r.reg.fields[i] : i \in DOMAIN r.reg.fields}

\* _reg_reflects: the read provider supplies the whole word.
Reflects(c, r) ==
    /\ r.off \in c.providers
    /\ ~ \E f \in FieldsOf(r) : f.rclr
    /\ \E f \in FieldsOf(r) : HwOnly(f)

Stored(c, r) == {f \in FieldsOf(r) : ~Reserved(f) /\ ~(Reflects(c, r) /\ HwOnly(f))}

\* The flops, by signal name, and what each of them is.
Flops(c) == UNION {{[i |-> i, f |-> f] : f \in Stored(c, c.regs[i])} : i \in DOMAIN c.regs}
Sig(c, x) == <<c.regs[x.i].q, x.f.n>>
Signals(c) == {Sig(c, x) : x \in Flops(c)}
FlopOf(c, s) == CHOOSE x \in Flops(c) : Sig(c, x) = s

AfterReset(c) == [s \in Signals(c) |-> FlopOf(c, s).f.reset]

\* The always_ff of field s: hardware (drv, where its `we` is up), then a
\* software write, then the clear of an accepted read.
NextField(c, s, old, bus, drv) ==
    LET x == FlopOf(c, s)
        sel == Sel(c, x.i, bus.a)
    IN  IF x.f.hw /\ s \in DOMAIN drv THEN drv[s]
        ELSE IF x.f.sw /\ sel /\ bus.k = "wr" THEN bus.d \cap x.f.bits
        ELSE IF x.f.rclr /\ sel /\ bus.k = "rd" THEN {}
        ELSE old
NextFields(c, fields, bus, drv) == [s \in Signals(c) |-> NextField(c, s, fields[s], bus, drv)]

\* _emit_read_word and the read mux: the first register that is selected.
Word(c, i, fields) == UNION {fields[<<c.regs[i].q, f.n>>] : f \in Stored(c, c.regs[i])}
ReadData(c, fields, a, provided) ==
    LET hit == {i \in DOMAIN c.regs : Sel(c, i, a)}
        i == Min(hit)
    IN  IF hit = {} THEN {}
        ELSE IF Reflects(c, c.regs[i]) THEN provided[c.regs[i].off]
        ELSE Word(c, i, fields)

\* The consumers' pulses: a software write to a member, to an observed register.
Struck(c, bus, offs) ==
    bus.k = "wr" /\ \E i \in DOMAIN c.regs : c.regs[i].off \in offs /\ Sel(c, i, bus.a)
ObserverStrobes(c, bus) == {o \in c.observers : Struck(c, bus, {o})}

\* The words that the providers supply.
Provided(live) ==
    [o \in core.providers |->
        LET i == CHOOSE j \in DOMAIN core.regs : core.regs[j].off = o
        IN  OnRead(decls[RegId(core, i)], Word(core, i, flops), live)]
RtlShows(bus, live) ==
    [data |-> IF bus.k = "rd" THEN ReadData(core, flops, bus.a, Provided(live)) ELSE {},
     observed |-> ObserverStrobes(core, bus)]

\* The pins that hardware drives to update registers: each hardware-writable
\* field that the update's mask touches, whole.
Touched(c, ups) ==
    {x \in Flops(c) : x.f.hw /\ RegId(c, x.i) \in DOMAIN ups /\ x.f.bits \cap ups[RegId(c, x.i)].m # {}}
HwDrives(c, ups) ==
    [s \in {Sig(c, x) : x \in Touched(c, ups)} |->
        LET x == FlopOf(c, s) IN ups[RegId(c, x.i)].v \cap x.f.bits]

\* The wrapper of a register-block child (reg_child_rtl): the bus address is the
\* low bits of wr's, as many as the core has; a level output has its register's
\* fields, a reserved one at its reset value.
WrapAddr(c, a) == a % c.span
Level(c, i, fields) ==
    UNION {IF <<c.regs[i].q, f.n>> \in Signals(c) THEN fields[<<c.regs[i].q, f.n>>] ELSE f.reset
           : f \in FieldsOf(c.regs[i])}

-----------------------------------------------------------------------------
(* What a core must be to hold the values that registers so declared have. *)

\* A mask has all of a field or nothing of it.
Whole(b, m) == b \subseteq m \/ b \cap m = {}
\* A declaration of which the map keeps all that matters: a pulse bit, which the
\* class never stores, is not in the map, nor is who may access the register.
Kept(d) ==
    /\ \A i, j \in DOMAIN d.fields : i # j =>
        d.fields[i].n # d.fields[j].n /\ d.fields[i].bits \cap d.fields[j].bits = {}
    /\ \A i \in DOMAIN d.fields : \A m \in {d.sw, d.hw, d.rclr} : Whole(d.fields[i].bits, m)
    /\ d.reset \cup d.sw \cup d.hw \subseteq Cover(d.fields)
    /\ d.rclr \subseteq d.sw \cup d.hw
    /\ d.pulse = {}
    /\ d.acc = "RO" => d.sw = {}
    /\ d.acc = "WO" => d.rclr = {}
\* Every register is in the core once, as it was declared, under its own name.
Mapped(c, ds) ==
    /\ DOMAIN c.regs \subseteq Nat
    /\ DOMAIN ds = {RegId(c, i) : i \in DOMAIN c.regs}
    /\ \A i \in DOMAIN c.regs : c.regs[i].reg.fields = FieldTable(ds[RegId(c, i)])
    /\ \A i, j \in DOMAIN c.regs : i # j => RegId(c, i) # RegId(c, j) /\ c.regs[i].q # c.regs[j].q
\* The index is a slice of the address, with a value for each register.
Indexed(c) ==
    /\ c.slots \in Nat \ {0} /\ c.span \in Nat
    /\ c.aligned =>
        /\ DOMAIN c.regs \subseteq 1 .. c.slots /\ c.span = c.slots * Stride
        /\ \A i \in DOMAIN c.regs : c.regs[i].off = (i - 1) * Stride
Fits(c, ds) ==
    /\ \A id \in DOMAIN ds : Kept(ds[id])
    /\ Mapped(c, ds)
    /\ Indexed(c)
    /\ \A id \in DOMAIN ds : id[1] \in c.observers => ds[id].acc # "RO"

\* A core whose words software reads: one register for an address, which can be
\* read; bits that nobody writes are 0; and where a provider is attached, the
\* core takes the word from it, unless hardware owns none of its bits.
Readable(c, ds) ==
    /\ \A i, j \in DOMAIN c.regs : i # j => c.regs[i].off # c.regs[j].off
    /\ \A id \in DOMAIN ds :
        /\ ds[id].acc # "WO"
        /\ ds[id].reset \subseteq ds[id].sw \cup ds[id].hw
    /\ \A i \in DOMAIN c.regs :
        c.regs[i].off \in c.providers => Reflects(c, c.regs[i]) \/ ds[RegId(c, i)].hw = {}

-----------------------------------------------------------------------------
(* A bank of registers by itself: any core that fits, under any access to a  *)
(* whole word and any updates, of whole fields, by hardware in one cycle.    *)

Bits == 0 .. 8 * Stride - 1
Hooked(offs) == {id \in DOMAIN decls : id[1] \in offs}
BankBus == [k : {"idle", "rd", "wr"}, a : {a \in 0 .. core.span - 1 : a % Stride = 0}, d : SUBSET Bits]
\* Of a field that hardware writes, an update has all or nothing: the core drives
\* it whole where the class goes by the bit.
WholeFields(ups) ==
    \A id \in DOMAIN ups : \A i \in DOMAIN decls[id].fields :
        decls[id].fields[i].bits \subseteq decls[id].hw => Whole(decls[id].fields[i].bits, ups[id].m)
Updates ==
    {ups \in UNION {[ids -> [v : SUBSET Bits, m : SUBSET Bits]] : ids \in SUBSET DOMAIN decls} : WholeFields(ups)}

BankInit ==
    /\ Fits(core, decls)
    /\ val = [id \in DOMAIN decls |-> decls[id].reset]
    /\ flops = AfterReset(core)
    /\ seen = [class |-> Nothing, rtl |-> Nothing]

\* A cycle: the bus access, then hardware's updates.
BankCycle(bus, ups, live) ==
    /\ val' = AfterHw(AfterBus(val, Decoded(bus), bus), ups)
    /\ flops' = NextFields(core, flops, bus, HwDrives(core, ups))
    /\ seen' = [class |-> ClassShows(bus, Decoded(bus), Hooked(core.providers), Hooked(core.observers), live),
                rtl |-> RtlShows(bus, live)]
    /\ UNCHANGED <<core, decls>>
BankNext == \E bus \in BankBus, ups \in Updates, live \in SUBSET Bits : BankCycle(bus, ups, live)
BankSpec == BankInit /\ [][BankNext]_bank

-----------------------------------------------------------------------------
(* Properties. *)

\* Every flop of the core has the class value's bits of its field, and every
\* level of a wrapped core its register's word (emit/regblock.py, native.py).
SameValues ==
    \A i \in DOMAIN core.regs :
        /\ \A f \in Stored(core, core.regs[i]) :
            flops[<<core.regs[i].q, f.n>>] = val[RegId(core, i)] \cap f.bits
        /\ core.providers = {} => Level(core, i, flops) = val[RegId(core, i)]
\* The observers of a register hear of the same writes; and a read of the bus,
\* where the core can be read, returns what the class's read does.
SameShown ==
    /\ seen.class.observed = seen.rtl.observed
    /\ Readable(core, decls) => seen.class.data = seen.rtl.data
=============================================================================
