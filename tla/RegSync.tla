--------------------------------- MODULE RegSync -------------------------------
(***************************************************************************)
(* A register block and the hardware around it, as class objects and as    *)
(* the generated RTL, under the same bus accesses and hardware updates,    *)
(* one clock cycle at a time.                                              *)
(*                                                                         *)
(* A design is [kind, n, prog, consumers, poked]: a register-block child   *)
(* ("native": its core from the elaborated objects, only software writes)  *)
(* or a block with a bus ("mmio": its core from the constructor), the      *)
(* consumers that become FSMs, and the [ref, m] that other hardware        *)
(* updates.                                                                *)
(***************************************************************************)
EXTENDS RegCore

CONSTANTS
    Designs,
    Words       \* the words software writes and hardware drives

VARIABLES          \* beside FwReg's
    d,          \* the design
    blk,        \* its block, as constructed
    armed       \* FSMs that saw a change in the last cycle and read now
vars == <<d, blk, core, decls, val, flops, armed, seen>>

Native == d.kind = "native"
Only(set) == CHOOSE x \in set : TRUE

Init ==
    /\ d \in Designs
    /\ blk = Construct(d.prog)
    /\ core = IF d.kind = "native" THEN Core(NativeBlock(d.n, blk), NoUsage)
              ELSE LET b == MapperBuild(d.n, d.prog) IN Core(b, Union(d.consumers, b))
    /\ decls = [id \in {r.id : r \in Registers(blk, 0)} |->
                    (CHOOSE r \in Registers(blk, 0) : r.id = id).decl]
    /\ val = [id \in DOMAIN decls |-> decls[id].reset]
    /\ flops = AfterReset(core)
    /\ armed = {}
    /\ seen = [class |-> Nothing, rtl |-> Nothing]

-----------------------------------------------------------------------------
(* The class side. *)

\* fw_reg_set: the registers consumer i waits on; set_rd, add_wr likewise.
RECURSIVE Uses(_, _, _)
Uses(s, kind, i) ==
    UNION {LET x == s[j]
               at == IF x.k = "for" \/ x.ref.idx # Var THEN x ELSE [x EXCEPT !.ref.idx = i]
           IN  CASE x.k = "for" -> UNION {Uses(x.body, kind, n) : n \in 0 .. x.count - 1}
                 [] x.k = kind -> {[set |-> at.set, id |-> id] : id \in Refers(blk, at.ref, None)}
                 [] OTHER -> {}
           : j \in DOMAIN s}
WaitsOn(i) == {x.id : x \in {y \in Uses(d.consumers[i].build, "add", 0) : y.set = d.consumers[i].set}}
AllUses(kind) == {x.id : x \in UNION {Uses(d.consumers[i].build, kind, 0) : i \in DOMAIN d.consumers}}

\* The body of a consumer after its wait: the values it leaves.
RECURSIVE RunBody(_, _, _), Wake(_, _, _, _)
RunBody(run, v, live) ==
    LET One(w, s) ==
            LET id == Only(Refers(blk, s.ref, None))
                bits == UNION {f.bits : f \in {x \in ToSet(decls[id].fields) : x.n = s.field}}
            IN  IF s.k = "update" THEN [w EXCEPT ![id] = AfterUpdate(decls[id], @, s.v, s.m)]
                ELSE RunBody(IF (ReadVal(AllUses("set_rd"), id, w, live) \cap bits # {}) # s.neg THEN s.t ELSE s.f, w, live)
    IN  FoldLeft(One, v, run)

\* signal(): from `was` to `v`, the waiting consumers that run, one after the
\* other, `busy` the one that made the change itself.
Wake(was, v, busy, live) ==
    LET moved == {id \in DOMAIN v : v[id] # was[id]}
        woken == {i \in DOMAIN d.consumers \ busy : WaitsOn(i) \cap moved # {}}
        RunOne(w, i) == Wake(w, RunBody(d.consumers[i].run, w, live), {i}, live)
    IN  IF woken = {} THEN v ELSE FoldLeft(RunOne, v, SetToSortSeq(woken, <))

\* fw_reg_block::read_val / write_val: the register a bus access reaches.
Reached(bus) == IF bus.k = "idle" THEN {} ELSE Lookup(blk, bus.k, bus.a, 0)

\* The other hardware's update of a register.
Update(poke) ==
    IF poke = None THEN <<>>
    ELSE [id \in {Only(Refers(blk, poke.ref, None))} |-> [v |-> poke.v, m |-> poke.m]]
\* A cycle: the bus access, then the other hardware's update.
ClassCycle(bus, poke, live) ==
    LET v == Wake(val, AfterBus(val, Reached(bus), bus), {}, live)
    IN  IF poke = None THEN v ELSE Wake(v, AfterHw(v, Update(poke)), {}, live)

-----------------------------------------------------------------------------
(* The RTL side. *)

\* A pin of FSM i sees the change of its watch-set: in the structural top it
\* is on the net of the port that the set's (qualified) name has.
SeesChange(i, bus) ==
    LET b == MapperBuild(d.n, d.prog)
    IN  SetName(d.consumers, b, d.consumers[i], d.consumers[i].set) \in ChangedSets(core, bus)

\* The fields that FSMs drive in this cycle: those without a readback at the
\* change, the others in the cycle after it.
FsmDrives(bus) ==
    LET now(i) == IF Reads(d.consumers[i]) THEN i \in armed ELSE SeesChange(i, bus)
        One(acc, i) == IF now(i) THEN Drives(core, flops, d.consumers[i].run, acc) ELSE acc
    IN  FoldLeft(One, <<>>, [i \in DOMAIN d.consumers |-> i])

\* The bus as the core sees it.
CoreBus(bus) == IF Native THEN [bus EXCEPT !.a = WrapAddr(core, @)] ELSE bus

RtlCycle(bus, poke) ==
    /\ flops' = NextFields(core, flops, bus,
                           HwDrives(core, Update(poke)) @@ FsmDrives(bus))
    /\ armed' = {i \in DOMAIN d.consumers : Reads(d.consumers[i]) /\ SeesChange(i, bus)}

-----------------------------------------------------------------------------
(* What happens around them.  Software goes to whole words of the block's
   span, and while an FSM is about to read, to watched registers only (a bus
   access is over before the next; the FSM has answered by then).  It writes
   a watched register to change it, unless the answer to the same value twice
   is the same. *)

Watched == UNION {WaitsOn(i) : i \in DOMAIN d.consumers}
Changes(bus) == \A id \in Reached(bus) : AfterWrite(decls[id], val[id], bus.d) # val[id]

BusCycles ==
    {[k |-> "idle", a |-> 0, d |-> {}]}
    \cup {[k |-> "wr", a |-> a * Stride, d |-> w] : a \in 0 .. (blk.size \div Stride) - 1, w \in Words}
    \cup (IF Native THEN {}
          ELSE {[k |-> "rd", a |-> a * Stride, d |-> {}] : a \in 0 .. (blk.size \div Stride) - 1})
Polite(bus) ==
    /\ armed # {} => bus.k # "rd" /\ Reached(bus) \subseteq Watched
    /\ bus.k = "wr" /\ Reached(bus) \cap Watched # {} => d.again \/ Changes(bus)

Pokes == {None} \cup {[ref |-> p.ref, m |-> p.m, v |-> w] : p \in d.poked, w \in Words}

Cycle(bus, poke, live) ==
    /\ Polite(bus)
    /\ val' = ClassCycle(bus, poke, live)
    /\ RtlCycle(CoreBus(bus), poke)
    /\ seen' = [class |-> ClassShows(bus, Reached(bus), AllUses("set_rd"), AllUses("add_wr"), live),
                rtl |-> RtlShows(CoreBus(bus), live)]
    /\ UNCHANGED <<d, blk, core, decls>>

Next == \E bus \in BusCycles, poke \in Pokes :
            \E live \in (IF core.providers = {} THEN {{}} ELSE Words) : Cycle(bus, poke, live)
Spec == Init /\ [][Next]_vars

-----------------------------------------------------------------------------
\* The core that is made of a block is one that holds its registers' values, its
\* offsets decode as the block's and it is given its providers and observers; so
\* once the FSMs have answered it does hold them (emit/regblock.py, native.py,
\* mmio.py, structural.py).
SameRegs ==
    /\ Fits(core, decls) /\ (~Native => Readable(core, decls))
    /\ \A bus \in BusCycles : Reached(bus) = Decoded(bus)
    /\ AllUses("set_rd") = Hooked(core.providers) /\ AllUses("add_wr") = Hooked(core.observers)
    /\ \A poke \in Pokes : WholeFields(Update(poke))
    /\ armed = {} => SameValues

\* A read of the bus returns what the class's read does, with the providers'
\* bits in it, and the observers of a register hear of the same writes.
SameAccess == seen.class = seen.rtl
=============================================================================
