------------------------------- MODULE RegDesigns -----------------------------
(***************************************************************************)
(* Register blocks of the shapes that the tests' are, for RegSync: words of *)
(* two bytes, of which bits 0..2 and 15 are used.                            *)
(***************************************************************************)
EXTENDS Integers

CONSTANTS Auto, None, Var

F(n, bits) == [n |-> n, bits |-> bits]
Layout == <<F("go", {0}), F("st", {1, 2}), F("rsv", 3 .. 15)>>
Plain == <<F("value", 0 .. 15)>>
RegWords == {{}, {0, 2}, {1, 2, 15}}

Reg(n, off, fields, reset, sw, hw, rclr, acc) ==
    [k |-> "reg", n |-> n, off |-> off, fields |-> fields, reset |-> reset, sw |-> sw, hw |-> hw,
     rclr |-> rclr, pulse |-> {}, acc |-> acc]
RW(n, off, reset) == Reg(n, off, Plain, reset, 0 .. 15, {}, {}, "RW")
Csr(n, off) == Reg(n, off, Layout, {}, {0}, {1, 2}, {}, "RW")          \* config and status
Sticky(n, off) == Reg(n, off, Layout, {}, {}, {0, 1, 2}, {0}, "RW")     \* bit 0 clears on read
Both(n, off) == Reg(n, off, Layout, {1}, 0 .. 2, {1, 2}, {1, 2}, "RW")  \* shared, clears on read
Array(n, off, step, count, prog) ==
    [k |-> "blk", n |-> n, off |-> off, step |-> step, count |-> count, prog |-> prog]

Ref(reg) == [arr |-> None, reg |-> reg, idx |-> None]
Elem(arr, reg, i) == [arr |-> arr, reg |-> reg, idx |-> i]
Add(set, ref) == [k |-> "add", set |-> set, ref |-> ref]
Hook(k, ref) == [k |-> k, set |-> None, ref |-> ref]
For(count, body) == [k |-> "for", count |-> count, body |-> body]
If(neg, reg, field, t, f) ==
    [k |-> "if", neg |-> neg, ref |-> Ref(reg), field |-> field, t |-> t, f |-> f]
Update(reg, v, m) == [k |-> "update", ref |-> Ref(reg), v |-> v, m |-> m]
Fsm(n, build, run) == [n |-> n, build |-> build, set |-> "m_set", run |-> run]

Child(prog) == [kind |-> "native", n |-> "b", prog |-> prog, consumers |-> <<>>, poked |-> {}, again |-> TRUE]
Block(prog, consumers, poked, again) ==
    [kind |-> "mmio", n |-> "b", prog |-> prog, consumers |-> consumers, poked |-> poked, again |-> again]
Poke(ref, m) == [ref |-> ref, m |-> m]

Bank == <<Csr("csr", Auto), RW("a", Auto, {1})>>
Answer == <<If(FALSE, "ctl", "go", <<Update("sta", {1, 2}, {1, 2})>>, <<Update("sta", {}, {1, 2})>>)>>

Designs == {
    \* children: aligned, with a gap, an array, a read-only/write-only pair
    Child(<<RW("k", Auto, {0, 1}), Reg("p", Auto, Layout, {0, 3}, {0, 1, 2}, {}, {}, "RW")>>),
    Child(<<RW("k", Auto, {0}), RW("p", 6, {})>>),
    Child(<<RW("k", Auto, {}), Array("ch", Auto, 0, 2, <<RW("a", Auto, {1}), RW("b", Auto, {})>>)>>),
    Child(<<RW("k", Auto, {}), Reg("rx", 2, Plain, {1}, {}, {}, {}, "RO"),
            Reg("tx", 2, Plain, {}, 0 .. 15, {}, {}, "WO")>>),
    \* cores under any hardware update
    Block(<<Csr("csr", Auto), Sticky("src", Auto)>>, <<>>,
          {Poke(Ref("csr"), {1, 2}), Poke(Ref("src"), {0}), Poke(Ref("src"), {0, 1, 2})}, TRUE),
    Block(<<Both("x", Auto), RW("k", 4, {})>>, <<>>, {Poke(Ref("x"), {1, 2})}, TRUE),
    Block(<<RW("g", Auto, {}), Array("ch", 4, 4, 2, Bank)>>, <<>>,
          {Poke(Elem("ch", "csr", 1), {1, 2})}, TRUE),
    \* a provider, an observer
    Block(<<Csr("csr", Auto), RW("k", Auto, {})>>,
          <<Fsm("c", <<Hook("set_rd", Ref("csr")), Hook("add_wr", Ref("k")), Add("m_set", Ref("k"))>>, <<>>)>>,
          {}, TRUE),
    \* FSMs: ungated, gated, over the elements of an array, two with one set's name
    Block(<<RW("ctl", Auto, {}), Sticky("sta", Auto)>>,
          <<Fsm("c", <<Add("m_set", Ref("ctl"))>>, <<Update("sta", {0, 1}, {0, 1, 2})>>)>>, {}, FALSE),
    Block(<<Csr("ctl", Auto), Reg("sta", Auto, Layout, {}, {}, {0, 1, 2}, {}, "RW")>>,
          <<Fsm("c", <<Add("m_set", Ref("ctl"))>>, Answer)>>, {Poke(Ref("sta"), {0})}, TRUE),
    Block(<<Reg("sta", Auto, Layout, {}, {}, {1, 2}, {}, "RW"), Array("ch", 2, 2, 2, <<RW("a", Auto, {})>>)>>,
          <<Fsm("c", <<For(2, <<Add("m_set", Elem("ch", "a", Var))>>)>>, <<Update("sta", {1}, {1, 2})>>)>>,
          {}, FALSE),
    Block(<<Csr("ctl", Auto), Csr("sta", Auto), RW("k", 8, {})>>,
          <<Fsm("c", <<Add("m_set", Ref("ctl"))>>, Answer),
            Fsm("e", <<Add("m_set", Ref("k")), Hook("add_wr", Ref("ctl"))>>,
                <<Update("ctl", {1, 2}, {1, 2})>>)>>, {}, FALSE)}
===============================================================================
